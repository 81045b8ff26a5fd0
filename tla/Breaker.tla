------------------------------- MODULE Breaker -------------------------------
(***************************************************************************)
(* withCircuitBreaker: one breaker per service name, made by the first     *)
(* call and kept with that call's function; every later call fires the     *)
(* same breaker.  opossum (external) counts fires and failures in a        *)
(* rolling window, opens above the threshold, lets one call through after  *)
(* the reset timeout, and stops waiting for a call when its timeout        *)
(* elapses, leaving the function running.                                  *)
(***************************************************************************)
EXTENDS Naturals

CONSTANTS
  Call,        \* calls of withCircuitBreaker under way; a finished one is reused
  NoCall,
  Service,
  Threshold,   \* errorThresholdPercentage
  MaxFires     \* bound: fires the rolling window can count

ASSUME BreakerAssumption ==
  /\ NoCall \notin Call
  /\ Service # {}
  /\ Threshold \in 0..100
  /\ MaxFires \in Nat \ {0}

VARIABLES
  breaker,   \* the breakers map: the breaker of each service
  call,      \* each call
  up,        \* the services that work
  tried      \* history: what the calls of a service have come to

breakerVars == <<breaker, call, up, tried>>

Breakers ==
  [state : {"none", "closed", "open", "half-open"},
   trial : BOOLEAN,              \* half-open, and the next call is let through
   owner : Call \union {NoCall},
   fires : 0..MaxFires, fails : 0..MaxFires]

NoBreaker == [state |-> "none", trial |-> FALSE, owner |-> NoCall, fires |-> 0, fails |-> 0]

Calls ==
  [state : {"idle", "waiting", "returned", "failed", "refused"},
   service : Service,
   ran : Call \union {NoCall},   \* whose function the breaker ran
   running : BOOLEAN,            \* that function has not returned
   aborted : BOOLEAN]            \* this call's signal has fired

Idle == [state |-> "idle", service |-> CHOOSE s \in Service : TRUE, ran |-> NoCall,
         running |-> FALSE, aborted |-> FALSE]

NewEachTime(s, c) ==   \* mutant: the breaker is not found in the map
  [NoBreaker EXCEPT !.state = "closed", !.owner = c]

(* getBreaker *)
GetBreaker(s, c) ==
  IF breaker[s].state = "none" THEN [NoBreaker EXCEPT !.state = "closed", !.owner = c]
  ELSE breaker[s]

Admits(b) == b.state = "closed" \/ b.trial

CallBecomes(c, record) == call' = [call EXCEPT ![c] = record]

(* The breaker counts the call and runs the function it was made with. *)
Fire(c, s) ==
  LET b == GetBreaker(s, c)
  IN /\ call[c].state = "idle"
     /\ b.fires < MaxFires
     /\ Admits(b)
     /\ breaker' = [breaker EXCEPT ![s] = [b EXCEPT !.fires = b.fires + 1, !.trial = FALSE]]
     /\ CallBecomes(c, [Idle EXCEPT !.state = "waiting", !.service = s, !.ran = b.owner, !.running = TRUE])
     /\ UNCHANGED <<up, tried>>

(* EOPENBREAKER: abort, then CircuitOpenError. *)
Refuse(c, s) ==
  LET b == GetBreaker(s, c)
  IN /\ call[c].state = "idle"
     /\ b.fires < MaxFires
     /\ ~Admits(b)
     /\ breaker' = [breaker EXCEPT ![s].fires = b.fires + 1]
     /\ CallBecomes(c, [Idle EXCEPT !.state = "refused", !.service = s, !.aborted = TRUE])
     /\ UNCHANGED <<up, tried>>

(* A success closes a half-open circuit, whichever call it is of. *)
Closes(b) == IF b.state = "half-open" THEN [b EXCEPT !.state = "closed", !.trial = FALSE] ELSE b

Failed(b) == [b EXCEPT !.fails = IF b.fails < MaxFires THEN b.fails + 1 ELSE b.fails]

Open(b) == [b EXCEPT !.state = "open", !.trial = FALSE]

TooMany(b) == 100 * b.fails > Threshold * b.fires

OpensAboveThreshold(b) ==   \* mutant: the trial is judged by the window
  IF TooMany(Failed(b)) THEN Open(Failed(b)) ELSE Failed(b)

Opens(b) ==
  IF b.state = "half-open" \/ TooMany(Failed(b)) THEN Open(Failed(b)) ELSE Failed(b)

Returns(c) ==
  LET s == call[c].service
  IN /\ call[c].state = "waiting"
     /\ up[s]
     /\ breaker' = [breaker EXCEPT ![s] = Closes(breaker[s])]
     /\ CallBecomes(c, [call[c] EXCEPT !.state = "returned", !.running = FALSE])
     /\ tried' = [tried EXCEPT ![s] = "answered"]
     /\ UNCHANGED up

(* Other errors are passed on; the signal does not fire. *)
GaveUp(c, late) == [call[c] EXCEPT !.state = "failed", !.running = late]

(* The function rejects, or the breaker stops waiting for it. *)
Fails(c, late) ==
  LET s == call[c].service
  IN /\ call[c].state = "waiting"
     /\ ~up[s]
     /\ breaker' = [breaker EXCEPT ![s] = Opens(breaker[s])]
     /\ CallBecomes(c, GaveUp(c, late))
     /\ tried' = [tried EXCEPT ![s] = IF @ = "answered" THEN @ ELSE "failed"]
     /\ UNCHANGED up

(* What comes after the timeout is ignored. *)
LateEnd(c) ==
  /\ call[c].state = "failed" /\ call[c].running
  /\ CallBecomes(c, [call[c] EXCEPT !.running = FALSE])
  /\ UNCHANGED <<breaker, up, tried>>

(* resetTimeout has elapsed. *)
HalfOpen(s) ==
  /\ breaker[s].state = "open"
  /\ breaker' = [breaker EXCEPT ![s].state = "half-open", ![s].trial = TRUE]
  /\ UNCHANGED <<call, up, tried>>

(* A call leaves the window no later than its failure. *)
WindowSlides(s) ==
  /\ \E f \in 0..breaker[s].fires, g \in 0..breaker[s].fails :
       /\ f < breaker[s].fires
       /\ breaker[s].fails - g <= breaker[s].fires - f
       /\ breaker' = [breaker EXCEPT ![s].fires = f, ![s].fails = g]
  /\ UNCHANGED <<call, up, tried>>

(* A finished call is forgotten; the breaker keeps its first. *)
Forget(c) ==
  /\ call[c].state \in {"returned", "failed", "refused"}
  /\ ~call[c].running
  /\ \A s \in Service : breaker[s].owner # c
  /\ CallBecomes(c, Idle)
  /\ UNCHANGED <<breaker, up, tried>>

Toggle(s) ==
  /\ up' = [up EXCEPT ![s] = ~up[s]]
  /\ UNCHANGED <<breaker, call, tried>>

BreakerInit ==
  /\ breaker = [s \in Service |-> NoBreaker]
  /\ call = [c \in Call |-> Idle]
  /\ up \in [Service -> BOOLEAN]
  /\ tried = [s \in Service |-> "nothing"]

Attempt(c, s) == Fire(c, s) \/ Refuse(c, s)

Settle(c) == Returns(c) \/ \E late \in BOOLEAN : Fails(c, late)

BreakerStep ==
  \/ \E c \in Call : Settle(c) \/ LateEnd(c) \/ Forget(c)
  \/ \E s \in Service : HalfOpen(s) \/ WindowSlides(s) \/ Toggle(s)

(* Timeouts and reset timeouts elapse, the window rolls, functions return. *)
BreakerFairness ==
  /\ \A c \in Call :
       WF_breakerVars(Settle(c)) /\ WF_breakerVars(LateEnd(c)) /\ WF_breakerVars(Forget(c))
  /\ \A s \in Service : WF_breakerVars(HalfOpen(s)) /\ WF_breakerVars(WindowSlides(s))

-----------------------------------------------------------------------------
(* Properties *)

BreakerTypeOK ==
  /\ breaker \in [Service -> Breakers]
  /\ \A s \in Service :
       /\ breaker[s].trial => breaker[s].state = "half-open"
       /\ breaker[s].owner = NoCall <=> breaker[s].state = "none"
  /\ call \in [Call -> Calls]
  /\ up \in [Service -> BOOLEAN]
  /\ tried \in [Service -> {"nothing", "failed", "answered"}]

(* circuit-breaker.ts:8-10: once every call to a service has failed, the   *)
(* network is left alone but for one call after each reset timeout, however *)
(* many calls were in flight and whatever the window forgot.               *)
Hopeless(s) == tried[s] = "failed" /\ \A c \in Call : call[c].state = "waiting" => call[c].service # s

FailingServiceIsCutOff ==
  [][\A c \in Call, s \in Service :
       (Hopeless(s) /\ call[c].state = "idle" /\ call'[c].state = "waiting" /\ call'[c].service = s)
         => breaker[s].state = "half-open"]_breakerVars

(* "Run `fn` through the named circuit breaker": what runs for a call is   *)
(* the function it brought.                                                *)
RunsItsOwn == \A c \in Call : call[c].state = "waiting" => call[c].ran = c

(* "An AbortSignal that fires when the breaker's timeout elapses - pass it *)
(* to fetch/axios so the underlying request is actually cancelled": what   *)
(* still runs for a call that timed out has had its signal.                *)
TimeoutAborts ==
  \A c \in Call : call[c].state = "failed" /\ call[c].running => call[call[c].ran].aborted

(* A half-open circuit is never left without a way on: the next call is    *)
(* let through, or a call is under way that closes or opens it.            *)
HalfOpenMovesOn ==
  \A s \in Service :
    breaker[s].state = "half-open"
      => breaker[s].trial \/ \E c \in Call : call[c].state = "waiting" /\ call[c].service = s

=============================================================================
