--------------------------- MODULE ReadinessProofs ---------------------------
(***************************************************************************)
(* Theorems about Breaker and Readiness, for any calls, services, window   *)
(* and threshold.                                                          *)
(***************************************************************************)
EXTENDS Readiness, Integers, FiniteSetTheorems, TLAPS

USE BreakerAssumption DEF BreakerAssumption

Waiting(s) == {c \in Call : call[c].state = "waiting" /\ call[c].service = s}

(* A call waits for a breaker that is in the map. *)
WaitingKnown ==
  \A c \in Call : call[c].state = "waiting" => breaker[call[c].service].state # "none"

WaitingFinite == \A s \in Service : IsFiniteSet(Waiting(s))

(* As long as no call has succeeded, what the window has counted without   *)
(* counting its failure is still under way.                                *)
FailuresCounted ==
  \A s \in Service :
    (tried[s] # "answered" /\ breaker[s].state = "closed")
      => breaker[s].fires - breaker[s].fails <= Cardinality(Waiting(s))

(* A service that has only failed has a breaker, and one that is not open  *)
(* yet waits for calls to end.                                             *)
NotYetOpen ==
  \A s \in Service :
    tried[s] = "failed"
      => breaker[s].state # "none" /\ (breaker[s].state = "closed" => Waiting(s) # {})

SafeInv ==
  /\ BreakerTypeOK
  /\ WaitingKnown
  /\ HalfOpenMovesOn

CountInv == WaitingFinite /\ FailuresCounted /\ NotYetOpen

-----------------------------------------------------------------------------
(* The helpers *)

(* An unused call record is well typed. *)
LEMMA IdleType ==
  /\ Idle \in Calls
  /\ Idle.state = "idle" /\ Idle.ran = NoCall /\ Idle.running = FALSE /\ Idle.aborted = FALSE
  BY DEF Idle, Calls

(* The breaker found or made for a call: that of the map, or a closed one  *)
(* that the caller owns and that has counted nothing.                      *)
LEMMA GetBreakerType ==
  ASSUME BreakerTypeOK, NEW s \in Service, NEW c \in Call
  PROVE  LET b == GetBreaker(s, c)
         IN /\ b \in Breakers
            /\ b.state # "none" /\ b.owner # NoCall
            /\ b.trial => b.state = "half-open"
            /\ breaker[s].state # "none" => b = breaker[s]
            /\ breaker[s].state = "none" =>
                 b.state = "closed" /\ b.owner = c /\ b.fires = 0 /\ b.fails = 0
  <1>1. 0 \in 0..MaxFires
    OBVIOUS
  <1>2. breaker[s] \in Breakers
    BY DEF BreakerTypeOK
  <1>3. QED BY <1>1, <1>2 DEF GetBreaker, NoBreaker, Breakers, BreakerTypeOK

(* A success changes the state only of a half-open circuit. *)
LEMMA ClosesType ==
  ASSUME NEW b \in Breakers
  PROVE  /\ Closes(b) \in Breakers
         /\ Closes(b).owner = b.owner
         /\ Closes(b).fires = b.fires /\ Closes(b).fails = b.fails
         /\ Closes(b).state = IF b.state = "half-open" THEN "closed" ELSE b.state
         /\ Closes(b).trial = IF b.state = "half-open" THEN FALSE ELSE b.trial
  BY DEF Closes, Breakers

(* A failure is counted while there is room, and leaves the circuit open   *)
(* or, if it was not half-open and they are not too many, as it was.       *)
LEMMA OpensType ==
  ASSUME NEW b \in Breakers
  PROVE  /\ Opens(b) \in Breakers
         /\ Opens(b).owner = b.owner
         /\ Opens(b).fires = b.fires
         /\ Opens(b).fails = IF b.fails < MaxFires THEN b.fails + 1 ELSE b.fails
         /\ \/ Opens(b).state = "open" /\ Opens(b).trial = FALSE
            \/ /\ Opens(b).state = b.state /\ Opens(b).trial = b.trial
               /\ b.state # "half-open"
               /\ ~(100 * Opens(b).fails > Threshold * b.fires)
  <1> DEFINE n == IF b.fails < MaxFires THEN b.fails + 1 ELSE b.fails
             f == [b EXCEPT !.fails = n]
  <1>1. n \in 0..MaxFires
    BY DEF Breakers
  <1>2. /\ f = Failed(b) /\ f \in Breakers
        /\ f.fails = n /\ f.fires = b.fires /\ f.owner = b.owner
        /\ f.state = b.state /\ f.trial = b.trial
    BY <1>1 DEF Failed, Breakers
  <1>3. /\ Open(f) \in Breakers /\ Open(f).fails = n /\ Open(f).fires = b.fires
        /\ Open(f).owner = b.owner /\ Open(f).state = "open" /\ Open(f).trial = FALSE
    BY <1>2 DEF Open, Breakers
  <1>4. CASE b.state = "half-open" \/ TooMany(f)
    <2>1. Opens(b) = Open(f)
      BY <1>2, <1>4 DEF Opens
    <2>2. QED BY <1>3, <2>1
  <1>5. CASE ~(b.state = "half-open" \/ TooMany(f))
    <2>1. Opens(b) = f
      BY <1>2, <1>5 DEF Opens
    <2>2. ~(100 * n > Threshold * b.fires)
      BY <1>2, <1>5 DEF TooMany
    <2>3. QED BY <1>2, <1>5, <2>1, <2>2
  <1>6. QED BY <1>4, <1>5

(* Unless the threshold is 100 %, a window with nothing but failures opens *)
(* the circuit.                                                            *)
LEMMA OnlyFailures ==
  ASSUME NEW fires \in Nat, NEW fails \in Nat, fires <= fails, 0 < fails, Threshold < 100
  PROVE  100 * fails > Threshold * fires
  <1>1. Threshold * fires <= Threshold * fails
    BY SMT
  <1>2. Threshold * fails < 100 * fails
    BY SMT
  <1>3. Threshold * fires \in Int /\ Threshold * fails \in Int
    OBVIOUS
  <1>4. QED BY <1>1, <1>2, <1>3

-----------------------------------------------------------------------------
(* The invariant without the counts *)

(* Before the first call there is nothing to break. *)
LEMMA InitSafe == BreakerInit => SafeInv /\ CountInv
  <1> SUFFICES ASSUME BreakerInit PROVE SafeInv /\ CountInv
    OBVIOUS
  <1>1. 0 \in 0..MaxFires
    OBVIOUS
  <1>2. NoBreaker \in Breakers /\ NoBreaker.state = "none" /\ NoBreaker.trial = FALSE
          /\ NoBreaker.owner = NoCall
    BY <1>1 DEF NoBreaker, Breakers
  <1>3. /\ \A s \in Service : breaker[s] = NoBreaker /\ tried[s] = "nothing"
        /\ \A c \in Call : call[c] = Idle
    BY DEF BreakerInit
  <1>4. BreakerTypeOK
    BY <1>2, IdleType DEF BreakerInit, BreakerTypeOK
  <1>5. SafeInv
    BY <1>2, <1>3, <1>4, IdleType
       DEF SafeInv, WaitingKnown, HalfOpenMovesOn
  <1>6. \A s \in Service : Waiting(s) = {}
    BY <1>3, IdleType DEF Waiting
  <1>7. CountInv
    BY <1>2, <1>3, <1>6, FS_EmptySet DEF CountInv, WaitingFinite, FailuresCounted, NotYetOpen
  <1>8. QED BY <1>5, <1>7

(* A step of one call and of its breaker.                                  *)
LEMMA CallStepSafe ==
  ASSUME SafeInv, NEW c \in Call, NEW s \in Service, NEW n \in Breakers, NEW q \in Calls,
         breaker' = [breaker EXCEPT ![s] = n], call' = [call EXCEPT ![c] = q],
         UNCHANGED up, tried' \in [Service -> {"nothing", "failed", "answered"}],
         n.state # "none", n.owner # NoCall, n.trial => n.state = "half-open",
         q.state # "idle", q.service = s, call[c].state \in {"idle", "waiting"},
         call[c].state = "waiting" => call[c].service = s,
         n.state = "half-open" =>
           \/ q.state = "waiting"
           \/ /\ call[c].state = "idle" /\ breaker[s].state = "half-open"
              /\ breaker[s].trial => n.trial
  PROVE  SafeInv'
  <1>1. /\ BreakerTypeOK /\ WaitingKnown /\ HalfOpenMovesOn
    BY DEF SafeInv
  <1>2. /\ breaker \in [Service -> Breakers] /\ call \in [Call -> Calls]
        /\ \A t \in Service : /\ breaker[t].trial => breaker[t].state = "half-open"
                              /\ breaker[t].owner = NoCall <=> breaker[t].state = "none"
        /\ up \in [Service -> BOOLEAN]
    BY <1>1 DEF BreakerTypeOK
  <1>3. /\ \A t \in Service : breaker'[t] = IF t = s THEN n ELSE breaker[t]
        /\ \A d \in Call : call'[d] = IF d = c THEN q ELSE call[d]
    BY <1>2
  <1>4. \A d \in Call : call[d].service \in Service
    BY <1>2 DEF Calls
  <1>5. BreakerTypeOK'
    <2>1. breaker' \in [Service -> Breakers] /\ call' \in [Call -> Calls]
      BY <1>2
    <2>2. QED BY <1>2, <1>3, <2>1 DEF BreakerTypeOK
  <1>6. WaitingKnown'
    BY <1>1, <1>3, <1>4 DEF WaitingKnown
  <1>7. HalfOpenMovesOn'
    <2> SUFFICES ASSUME NEW t \in Service, breaker'[t].state = "half-open", ~breaker'[t].trial
                 PROVE  \E d \in Call : call'[d].state = "waiting" /\ call'[d].service = t
      BY DEF HalfOpenMovesOn
    <2>1. CASE t = s /\ q.state = "waiting"
      BY <1>3, <2>1
    <2>2. CASE ~(t = s /\ q.state = "waiting")
      <3>1. breaker[t].state = "half-open" /\ ~breaker[t].trial
        BY <1>3, <2>2
      <3>2. PICK d \in Call : call[d].state = "waiting" /\ call[d].service = t
        BY <1>1, <3>1 DEF HalfOpenMovesOn
      <3>3. d # c
        BY <1>3, <2>2, <3>2
      <3>4. QED BY <1>3, <3>2, <3>3
    <2>3. QED BY <2>1, <2>2
  <1>8. QED BY <1>5, <1>6, <1>7 DEF SafeInv

(* An unused call that is let through or refused. *)
LEMMA FireSafe ==
  ASSUME SafeInv, NEW c \in Call, NEW s \in Service, Fire(c, s)
  PROVE  SafeInv'
  <1> DEFINE b == GetBreaker(s, c)
             n == [b EXCEPT !.fires = b.fires + 1, !.trial = FALSE]
             q == [Idle EXCEPT !.state = "waiting", !.service = s, !.ran = b.owner, !.running = TRUE]
  <1>0. BreakerTypeOK
    BY DEF SafeInv
  <1>1. /\ b \in Breakers /\ b.state # "none" /\ b.owner # NoCall
    BY <1>0, GetBreakerType
  <1>2. /\ call[c].state = "idle" /\ b.fires < MaxFires
        /\ breaker' = [breaker EXCEPT ![s] = n] /\ call' = [call EXCEPT ![c] = q]
        /\ UNCHANGED <<up, tried>>
    BY DEF Fire, CallBecomes
  <1> HIDE DEF b
  <1>3. n \in Breakers /\ n.state = b.state /\ n.owner = b.owner /\ n.trial = FALSE
    <2>1. b.fires + 1 \in 0..MaxFires
      BY <1>1, <1>2 DEF Breakers
    <2>2. QED BY <1>1, <2>1 DEF Breakers
  <1>4. /\ q \in Calls /\ q.state = "waiting" /\ q.service = s
    BY <1>1, IdleType DEF Calls, Breakers
  <1>5. tried' \in [Service -> {"nothing", "failed", "answered"}]
    BY <1>0, <1>2 DEF BreakerTypeOK
  <1> HIDE DEF n, q
  <1>6. QED BY <1>1, <1>2, <1>3, <1>4, <1>5, CallStepSafe, ZenonT(60)

(* A refused call never runs. *)
LEMMA RefuseSafe ==
  ASSUME SafeInv, NEW c \in Call, NEW s \in Service, Refuse(c, s)
  PROVE  SafeInv'
  <1> DEFINE b == breaker[s]
             n == [b EXCEPT !.fires = b.fires + 1]
             q == [Idle EXCEPT !.state = "refused", !.service = s, !.aborted = TRUE]
  <1>0. /\ BreakerTypeOK
        /\ b \in Breakers
        /\ b.trial => b.state = "half-open"
        /\ b.owner = NoCall <=> b.state = "none"
    BY DEF SafeInv, BreakerTypeOK
  <1>1. GetBreaker(s, c) = b /\ b.state # "none"
    BY <1>0, GetBreakerType DEF Refuse, Admits
  <1>2. /\ call[c].state = "idle" /\ b.fires < MaxFires
        /\ breaker' = [breaker EXCEPT ![s] = n] /\ call' = [call EXCEPT ![c] = q]
        /\ UNCHANGED <<up, tried>>
    BY <1>1 DEF Refuse, CallBecomes
  <1>3. tried' \in [Service -> {"nothing", "failed", "answered"}]
    BY <1>0, <1>2 DEF BreakerTypeOK
  <1> HIDE DEF b
  <1>4. n \in Breakers /\ n.state = b.state /\ n.owner = b.owner /\ n.trial = b.trial
    BY <1>0, <1>2 DEF Breakers
  <1>5. /\ q \in Calls /\ q.state = "refused" /\ q.service = s
    BY IdleType DEF Calls
  <1> USE DEF b
  <1> HIDE DEF n, q
  <1>6. QED BY <1>0, <1>1, <1>2, <1>3, <1>4, <1>5, CallStepSafe, ZenonT(60)

(* A call that ends while it is waited for closes or opens a half-open     *)
(* circuit.                                                                *)
LEMMA ReturnsSafe ==
  ASSUME SafeInv, NEW c \in Call, Returns(c)
  PROVE  SafeInv'
  <1> DEFINE s == call[c].service
             n == Closes(breaker[s])
             q == [call[c] EXCEPT !.state = "returned", !.running = FALSE]
  <1>1. /\ BreakerTypeOK /\ WaitingKnown
    BY DEF SafeInv
  <1>2. /\ call[c].state = "waiting"
        /\ breaker' = [breaker EXCEPT ![s] = n] /\ call' = [call EXCEPT ![c] = q]
        /\ up' = up /\ tried' = [tried EXCEPT ![s] = "answered"]
    BY DEF Returns, CallBecomes
  <1>3. /\ call[c] \in Calls /\ call[c].service = s /\ s \in Service
        /\ breaker[s] \in Breakers /\ breaker[s].state # "none" /\ breaker[s].owner # NoCall
        /\ breaker[s].trial => breaker[s].state = "half-open"
    BY <1>1, <1>2 DEF BreakerTypeOK, Calls, WaitingKnown
  <1>4. /\ n \in Breakers /\ n.owner # NoCall
        /\ n.state \notin {"none", "half-open"}
        /\ n.trial => n.state = "half-open"
    BY <1>3, ClosesType
  <1>5. /\ q \in Calls /\ q.state = "returned" /\ q.service = s 
    BY <1>3 DEF Calls
  <1>6. tried' \in [Service -> {"nothing", "failed", "answered"}]
    BY <1>1, <1>2, <1>3 DEF BreakerTypeOK
  <1> HIDE DEF s, n, q
  <1>7. QED BY <1>2, <1>3, <1>4, <1>5, <1>6, CallStepSafe, ZenonT(60)

(* So does one that fails, whether or not its function runs on.            *)
LEMMA FailsSafe ==
  ASSUME SafeInv, NEW c \in Call, NEW late \in BOOLEAN, Fails(c, late)
  PROVE  SafeInv'
  <1> DEFINE s == call[c].service
             n == Opens(breaker[s])
             q == GaveUp(c, late)
  <1>1. /\ BreakerTypeOK /\ WaitingKnown
    BY DEF SafeInv
  <1>2. /\ call[c].state = "waiting"
        /\ breaker' = [breaker EXCEPT ![s] = n] /\ call' = [call EXCEPT ![c] = q]
        /\ up' = up /\ tried' = [tried EXCEPT ![s] = IF @ = "answered" THEN @ ELSE "failed"]
    BY DEF Fails, CallBecomes
  <1>3. /\ call[c] \in Calls /\ call[c].service = s /\ s \in Service
        /\ breaker[s] \in Breakers /\ breaker[s].state # "none" /\ breaker[s].owner # NoCall
        /\ breaker[s].trial => breaker[s].state = "half-open"
    BY <1>1, <1>2 DEF BreakerTypeOK, Calls, WaitingKnown
  <1>4. /\ n \in Breakers /\ n.owner # NoCall
        /\ n.state \notin {"none", "half-open"}
        /\ n.trial => n.state = "half-open"
    BY <1>3, OpensType
  <1>5. /\ q \in Calls /\ q.state = "failed" /\ q.service = s 
    BY <1>3 DEF GaveUp, Calls
  <1>6. tried' \in [Service -> {"nothing", "failed", "answered"}]
    BY <1>1, <1>2, <1>3 DEF BreakerTypeOK
  <1> HIDE DEF s, n, q
  <1>7. QED BY <1>2, <1>3, <1>4, <1>5, <1>6, CallStepSafe, ZenonT(60)

(* A call that is over: its function ends, or it is forgotten, unless it   *)
(* is the one a breaker keeps.                                             *)
LEMMA OverSafe ==
  ASSUME SafeInv, NEW c \in Call, LateEnd(c) \/ Forget(c)
  PROVE  SafeInv'
  <1>1. /\ BreakerTypeOK /\ WaitingKnown /\ HalfOpenMovesOn
    BY DEF SafeInv
  <1>2. call[c] \in Calls /\ call \in [Call -> Calls]
    BY <1>1 DEF BreakerTypeOK
  <1>3. PICK q \in Calls :
          /\ call' = [call EXCEPT ![c] = q] /\ UNCHANGED <<breaker, up, tried>>
          /\ call[c].state # "waiting" /\ q.state # "waiting"
    <2>1. CASE LateEnd(c)
      <3> DEFINE q == [call[c] EXCEPT !.running = FALSE]
      <3>1. /\ q \in Calls /\ q.state = call[c].state
        BY <1>2 DEF Calls
      <3>2. /\ call' = [call EXCEPT ![c] = q] /\ UNCHANGED <<breaker, up, tried>>
            /\ call[c].state = "failed"
        BY <2>1 DEF LateEnd, CallBecomes
      <3> HIDE DEF q
      <3>3. QED BY <3>1, <3>2
    <2>2. CASE Forget(c)
      BY <2>2, IdleType DEF Forget, CallBecomes
    <2>3. QED BY <2>1, <2>2
  <1>4. \A d \in Call : call'[d] = IF d = c THEN q ELSE call[d]
    BY <1>2, <1>3
  <1>5. BreakerTypeOK'
    <2>1. call' \in [Call -> Calls]
      BY <1>2, <1>3
    <2>2. QED BY <1>1, <1>3, <2>1 DEF BreakerTypeOK
  <1>6. WaitingKnown'
    BY <1>1, <1>3, <1>4 DEF WaitingKnown
  <1>7. HalfOpenMovesOn'
    BY <1>1, <1>3, <1>4 DEF HalfOpenMovesOn
  <1>8. QED BY <1>5, <1>6, <1>7 DEF SafeInv

(* A breaker that ages: no call moves. *)
LEMMA BreakerAgesSafe ==
  ASSUME SafeInv, NEW s \in Service, HalfOpen(s) \/ WindowSlides(s)
  PROVE  SafeInv'
  <1>1. /\ BreakerTypeOK /\ WaitingKnown /\ HalfOpenMovesOn
    BY DEF SafeInv
  <1>2. /\ breaker \in [Service -> Breakers] /\ breaker[s] \in Breakers
        /\ \A t \in Service : /\ breaker[t].trial => breaker[t].state = "half-open"
                              /\ breaker[t].owner = NoCall <=> breaker[t].state = "none"
    BY <1>1 DEF BreakerTypeOK
  <1>3. PICK n \in Breakers :
          /\ breaker' = [breaker EXCEPT ![s] = n] /\ UNCHANGED <<call, up, tried>>
          /\ n.owner = breaker[s].owner
          /\ \/ n.state = breaker[s].state /\ n.trial = breaker[s].trial
             \/ breaker[s].state = "open" /\ n.state = "half-open" /\ n.trial = TRUE
    <2>1. CASE HalfOpen(s)
      <3> DEFINE n == [breaker[s] EXCEPT !.state = "half-open", !.trial = TRUE]
      <3>1. n \in Breakers /\ n.state = "half-open" /\ n.trial = TRUE /\ n.owner = breaker[s].owner
        BY <1>2 DEF Breakers
      <3>2. /\ breaker' = [breaker EXCEPT ![s] = n] /\ UNCHANGED <<call, up, tried>>
            /\ breaker[s].state = "open"
        BY <1>2, <2>1 DEF HalfOpen
      <3> HIDE DEF n
      <3>3. QED BY <3>1, <3>2
    <2>2. CASE WindowSlides(s)
      <3>1. PICK f \in 0..breaker[s].fires, g \in 0..breaker[s].fails :
              breaker' = [breaker EXCEPT ![s].fires = f, ![s].fails = g]
        BY <2>2 DEF WindowSlides
      <3> DEFINE n == [breaker[s] EXCEPT !.fires = f, !.fails = g]
      <3>2. /\ n \in Breakers /\ n.state = breaker[s].state /\ n.trial = breaker[s].trial
            /\ n.owner = breaker[s].owner
        <4>1. f \in 0..MaxFires /\ g \in 0..MaxFires
          BY <1>2 DEF Breakers
        <4>2. QED BY <1>2, <4>1 DEF Breakers
      <3>3. breaker' = [breaker EXCEPT ![s] = n] /\ UNCHANGED <<call, up, tried>>
        BY <1>2, <2>2, <3>1 DEF WindowSlides
      <3> HIDE DEF n
      <3>4. QED BY <3>2, <3>3
    <2>3. QED BY <2>1, <2>2
  <1>4. \A t \in Service : breaker'[t] = IF t = s THEN n ELSE breaker[t]
    BY <1>2, <1>3
  <1>5. BreakerTypeOK'
    <2>1. breaker' \in [Service -> Breakers]
      BY <1>2, <1>3
    <2>2. QED BY <1>1, <1>2, <1>3, <1>4, <2>1 DEF BreakerTypeOK
  <1>6. WaitingKnown'
    BY <1>1, <1>3, <1>4 DEF WaitingKnown
  <1>7. HalfOpenMovesOn'
    BY <1>1, <1>3, <1>4 DEF HalfOpenMovesOn
  <1>8. QED BY <1>5, <1>6, <1>7 DEF SafeInv

-----------------------------------------------------------------------------
(* The counts *)

(* A step leaves every service but one as it was. *)
LEMMA OneService ==
  ASSUME CountInv, NEW s \in Service,
         \A t \in Service \ {s} :
           /\ breaker'[t] = breaker[t] /\ tried'[t] = tried[t] /\ Waiting(t)' = Waiting(t),
         IsFiniteSet(Waiting(s)'),
         (tried'[s] # "answered" /\ breaker'[s].state = "closed")
           => breaker'[s].fires - breaker'[s].fails <= Cardinality(Waiting(s)'),
         tried'[s] = "failed"
           => breaker'[s].state # "none" /\ (breaker'[s].state = "closed" => Waiting(s)' # {})
  PROVE  CountInv'
  <1>1. WaitingFinite /\ FailuresCounted /\ NotYetOpen
    BY DEF CountInv
  <1>2. WaitingFinite'
    <2>1. \A t \in Service : IsFiniteSet(Waiting(t)')
      BY <1>1, Zenon DEF WaitingFinite
    <2>2. QED BY <2>1 DEF WaitingFinite
  <1>3. FailuresCounted'
    <2>1. ASSUME NEW t \in Service, tried'[t] # "answered", breaker'[t].state = "closed"
          PROVE  breaker'[t].fires - breaker'[t].fails <= Cardinality(Waiting(t)')
      <3>1. CASE t = s
        BY <2>1, <3>1
      <3>2. CASE t # s
        <4>1. /\ breaker'[t] = breaker[t] /\ tried'[t] = tried[t] /\ Waiting(t)' = Waiting(t)
          BY <3>2
        <4>2. breaker[t].fires - breaker[t].fails <= Cardinality(Waiting(t))
          BY <1>1, <2>1, <4>1 DEF FailuresCounted
        <4>3. QED BY <4>1, <4>2
      <3>3. QED BY <3>1, <3>2
    <2>2. QED BY <2>1 DEF FailuresCounted
  <1>4. NotYetOpen'
    <2>1. ASSUME NEW t \in Service, tried'[t] = "failed"
          PROVE  breaker'[t].state # "none" /\ (breaker'[t].state = "closed" => Waiting(t)' # {})
      <3>1. CASE t = s
        BY <2>1, <3>1
      <3>2. CASE t # s
        BY <1>1, <2>1, <3>2 DEF NotYetOpen
      <3>3. QED BY <3>1, <3>2
    <2>2. QED BY <2>1 DEF NotYetOpen
  <1>5. QED BY <1>2, <1>3, <1>4 DEF CountInv

(* Who waits, after a step of one call. *)
LEMMA WaitingAfter ==
  ASSUME NEW c \in Call, NEW q \in Calls, call \in [Call -> Calls],
         call' = [call EXCEPT ![c] = q], NEW t \in Service
  PROVE  Waiting(t)' = IF q.state = "waiting" /\ q.service = t
                       THEN Waiting(t) \union {c} ELSE Waiting(t) \ {c}
  <1>1. \A d \in Call : call'[d] = IF d = c THEN q ELSE call[d]
    OBVIOUS
  <1>2. Waiting(t)' = {d \in Call : call'[d].state = "waiting" /\ call'[d].service = t}
    BY DEF Waiting
  <1>3. QED BY <1>1, <1>2 DEF Waiting

(* A call that is let through is counted as under way. *)
LEMMA FireCounts ==
  ASSUME SafeInv, CountInv, NEW c \in Call, NEW s \in Service, Fire(c, s)
  PROVE  CountInv'
  <1> DEFINE b == GetBreaker(s, c)
             n == [b EXCEPT !.fires = b.fires + 1, !.trial = FALSE]
             q == [Idle EXCEPT !.state = "waiting", !.service = s, !.ran = b.owner, !.running = TRUE]
             W == Waiting(s)
  <1>1. BreakerTypeOK /\ WaitingFinite /\ FailuresCounted /\ NotYetOpen
    BY DEF SafeInv, CountInv
  <1>2. /\ b \in Breakers /\ b.state # "none" /\ b.owner # NoCall
        /\ breaker[s].state # "none" => b = breaker[s]
        /\ breaker[s].state = "none" => b.fires = 0 /\ b.fails = 0
    BY <1>1, GetBreakerType
  <1>3. /\ call[c].state = "idle" /\ tried' = tried
        /\ breaker' = [breaker EXCEPT ![s] = n] /\ call' = [call EXCEPT ![c] = q]
    BY DEF Fire, CallBecomes
  <1> HIDE DEF b
  <1>4. n.state = b.state /\ n.fires = b.fires + 1 /\ n.fails = b.fails
    BY <1>2 DEF Breakers
  <1>5. q \in Calls /\ q.state = "waiting" /\ q.service = s
    BY <1>2, IdleType DEF Calls, Breakers
  <1> HIDE DEF n, q
  <1>6. \A t \in Service : breaker'[t] = IF t = s THEN n ELSE breaker[t]
    BY <1>1, <1>3 DEF BreakerTypeOK
  <1>7. call \in [Call -> Calls]
    BY <1>1 DEF BreakerTypeOK
  <1>8. /\ Waiting(s)' = W \union {c}
        /\ \A t \in Service \ {s} : Waiting(t)' = Waiting(t) \ {c}
    BY <1>3, <1>5, <1>7, WaitingAfter
  <1>9. \A t \in Service : c \notin Waiting(t)
    BY <1>3 DEF Waiting
  <1>10. \A t \in Service \ {s} : Waiting(t)' = Waiting(t)
    BY <1>8, <1>9
  <1>11. /\ IsFiniteSet(W) /\ IsFiniteSet(W \union {c})
         /\ Cardinality(W \union {c}) = Cardinality(W) + 1
         /\ Cardinality(W) \in Nat
    BY <1>1, <1>9, FS_AddElement, FS_CardinalityType DEF WaitingFinite
  <1>12. (tried[s] # "answered" /\ b.state = "closed") => b.fires - b.fails <= Cardinality(W)
    BY <1>1, <1>2, <1>11 DEF FailuresCounted
  <1>13. (tried'[s] # "answered" /\ breaker'[s].state = "closed")
           => breaker'[s].fires - breaker'[s].fails <= Cardinality(W \union {c})
    <2>1. b.fires \in Nat /\ b.fails \in Nat
      BY <1>2 DEF Breakers
    <2> HIDE DEF W
    <2>2. QED BY <1>3, <1>4, <1>6, <1>11, <1>12, <2>1
  <1>14. breaker'[s].state # "none" /\ W \union {c} # {}
    BY <1>2, <1>4, <1>6
  <1> HIDE DEF W
  <1>15. QED BY <1>3, <1>6, <1>8, <1>10, <1>11, <1>13, <1>14, OneService

(* A refusal is of a breaker that is open already. *)
LEMMA RefuseCounts ==
  ASSUME SafeInv, CountInv, NEW c \in Call, NEW s \in Service, Refuse(c, s)
  PROVE  CountInv'
  <1> DEFINE b == breaker[s]
             n == [b EXCEPT !.fires = b.fires + 1]
             q == [Idle EXCEPT !.state = "refused", !.service = s, !.aborted = TRUE]
  <1>1. /\ BreakerTypeOK /\ WaitingFinite /\ b \in Breakers
    BY DEF SafeInv, CountInv, BreakerTypeOK
  <1>2. GetBreaker(s, c) = b /\ b.state \notin {"none", "closed"}
    BY <1>1, GetBreakerType DEF Refuse, Admits
  <1>3. /\ call[c].state = "idle" /\ tried' = tried
        /\ breaker' = [breaker EXCEPT ![s] = n] /\ call' = [call EXCEPT ![c] = q]
    BY <1>2 DEF Refuse, CallBecomes
  <1> HIDE DEF b
  <1>4. n.state = b.state
    BY <1>1 DEF Breakers
  <1>5. q \in Calls /\ q.state = "refused"
    BY IdleType DEF Calls
  <1> HIDE DEF n, q
  <1>6. \A t \in Service : breaker'[t] = IF t = s THEN n ELSE breaker[t]
    BY <1>1, <1>3 DEF BreakerTypeOK
  <1>7. call \in [Call -> Calls]
    BY <1>1 DEF BreakerTypeOK
  <1>8. \A t \in Service : Waiting(t)' = Waiting(t)
    <2>1. \A t \in Service : Waiting(t)' = Waiting(t) \ {c}
      BY <1>3, <1>5, <1>7, WaitingAfter
    <2>2. \A t \in Service : c \notin Waiting(t)
      BY <1>3 DEF Waiting
    <2>3. QED BY <2>1, <2>2
  <1>9. IsFiniteSet(Waiting(s)')
    BY <1>1, <1>8, Zenon DEF WaitingFinite
  <1>10. QED BY <1>2, <1>3, <1>4, <1>6, <1>8, <1>9, OneService

(* The waiting call leaves the set of those that wait. *)
LEMMA SettleWaiting ==
  ASSUME SafeInv, CountInv, NEW c \in Call, NEW s \in Service, NEW q \in Calls,
         call[c].state = "waiting", call[c].service = s,
         q.state # "waiting", call' = [call EXCEPT ![c] = q]
  PROVE  /\ Waiting(s)' = Waiting(s) \ {c}
         /\ \A t \in Service \ {s} : Waiting(t)' = Waiting(t)
         /\ IsFiniteSet(Waiting(s) \ {c})
         /\ Cardinality(Waiting(s)) \in Nat /\ Cardinality(Waiting(s)) > 0
         /\ Cardinality(Waiting(s) \ {c}) = Cardinality(Waiting(s)) - 1
  <1>1. call \in [Call -> Calls] /\ WaitingFinite
    BY DEF SafeInv, CountInv, BreakerTypeOK
  <1>2. \A t \in Service : Waiting(t)' = Waiting(t) \ {c}
    BY <1>1, WaitingAfter
  <1>3. c \in Waiting(s) /\ \A t \in Service \ {s} : c \notin Waiting(t)
    BY DEF Waiting
  <1>4. ASSUME NEW t \in Service \ {s}
        PROVE  Waiting(t)' = Waiting(t)
    <2>1. Waiting(t) \ {c} = Waiting(t)
      BY <1>3
    <2>2. QED BY <1>2, <2>1
  <1>5. IsFiniteSet(Waiting(s))
    BY <1>1 DEF WaitingFinite
  <1>6. /\ IsFiniteSet(Waiting(s) \ {c})
        /\ Cardinality(Waiting(s) \ {c}) = Cardinality(Waiting(s)) - 1
    BY <1>3, <1>5, FS_RemoveElement
  <1>7. Cardinality(Waiting(s)) \in Nat /\ Cardinality(Waiting(s) \ {c}) \in Nat
    BY <1>5, <1>6, FS_CardinalityType
  <1>8. QED BY <1>2, <1>4, <1>6, <1>7

(* A success ends the premise that nothing has. *)
LEMMA ReturnsCounts ==
  ASSUME SafeInv, CountInv, NEW c \in Call, Returns(c)
  PROVE  CountInv'
  <1>1. BreakerTypeOK
    BY DEF SafeInv
  <1>2. PICK s \in Service : s = call[c].service
    BY <1>1 DEF BreakerTypeOK, Calls
  <1> DEFINE n == Closes(breaker[s])
             q == [call[c] EXCEPT !.state = "returned", !.running = FALSE]
  <1>3. /\ call[c].state = "waiting"
        /\ breaker' = [breaker EXCEPT ![s] = n] /\ call' = [call EXCEPT ![c] = q]
        /\ tried' = [tried EXCEPT ![s] = "answered"]
    BY <1>2 DEF Returns, CallBecomes
  <1>4. q \in Calls /\ q.state = "returned"
    <2>1. call[c] \in Calls
      BY <1>1 DEF BreakerTypeOK
    <2>2. QED BY <2>1 DEF Calls
  <1> HIDE DEF n, q
  <1>5. /\ Waiting(s)' = Waiting(s) \ {c} /\ IsFiniteSet(Waiting(s) \ {c})
        /\ \A t \in Service \ {s} : Waiting(t)' = Waiting(t)
    BY <1>2, <1>3, <1>4, SettleWaiting
  <1>6. /\ tried'[s] = "answered"
        /\ \A t \in Service \ {s} : breaker'[t] = breaker[t] /\ tried'[t] = tried[t]
    BY <1>1, <1>3 DEF BreakerTypeOK
  <1>7. IsFiniteSet(Waiting(s)')
    BY <1>5, Zenon
  <1>8. QED BY <1>5, <1>6, <1>7, OneService

(* The last failure in flight finds a window of failures only. *)
LEMMA FailsCounts ==
  ASSUME Threshold < 100, SafeInv, CountInv, NEW c \in Call, NEW late \in BOOLEAN, Fails(c, late)
  PROVE  CountInv'
  <1>0. PICK s \in Service : s = call[c].service
    BY DEF SafeInv, BreakerTypeOK, Calls
  <1> DEFINE b == breaker[s]
             n == Opens(b)
             q == GaveUp(c, late)
             W == Waiting(s)
  <1>1. BreakerTypeOK /\ WaitingKnown /\ FailuresCounted
    BY DEF SafeInv, CountInv
  <1>2. /\ call[c].state = "waiting"
        /\ breaker' = [breaker EXCEPT ![s] = n] /\ call' = [call EXCEPT ![c] = q]
        /\ tried' = [tried EXCEPT ![s] = IF @ = "answered" THEN @ ELSE "failed"]
    BY <1>0 DEF Fails, CallBecomes
  <1>3. q \in Calls /\ q.state = "failed"
    <2>1. call[c] \in Calls
      BY <1>1 DEF BreakerTypeOK
    <2>2. QED BY <2>1 DEF Calls, GaveUp
  <1> HIDE DEF q
  <1>4. /\ Waiting(s)' = W \ {c}
        /\ \A t \in Service \ {s} : Waiting(t)' = Waiting(t)
        /\ IsFiniteSet(W \ {c}) /\ Cardinality(W \ {c}) = Cardinality(W) - 1
        /\ Cardinality(W) \in Nat /\ Cardinality(W) > 0
    BY <1>0, <1>2, <1>3, SettleWaiting
  <1>5. b \in Breakers /\ b.state # "none" /\ b.fires \in 0..MaxFires /\ b.fails \in 0..MaxFires
    BY <1>0, <1>1, <1>2 DEF BreakerTypeOK, WaitingKnown, Breakers
  <1>6. /\ n \in Breakers /\ n.fires = b.fires /\ n.state # "none"
        /\ n.fails = IF b.fails < MaxFires THEN b.fails + 1 ELSE b.fails
        /\ n.state = "closed" => b.state = "closed" /\ ~(100 * n.fails > Threshold * n.fires)
    BY <1>5, OpensType
  <1>7. (tried[s] # "answered" /\ b.state = "closed") => b.fires - b.fails <= Cardinality(W)
    BY <1>1, <1>4 DEF FailuresCounted
  <1> HIDE DEF b, n, W
  <1>8. /\ breaker'[s] = n /\ (tried'[s] = "answered" <=> tried[s] = "answered")
        /\ \A t \in Service \ {s} : breaker'[t] = breaker[t] /\ tried'[t] = tried[t]
    BY <1>1, <1>2, <1>4 DEF BreakerTypeOK
  <1>9. (tried[s] # "answered" /\ n.state = "closed") => n.fires - n.fails <= Cardinality(W \ {c})
    BY <1>4, <1>5, <1>6, <1>7
  <1>10. ASSUME tried[s] # "answered", n.state = "closed"
         PROVE  W \ {c} # {}
    <2>1. SUFFICES ASSUME W \ {c} = {} PROVE FALSE
      OBVIOUS
    <2>2. Cardinality(W \ {c}) = 0
      BY <2>1, FS_EmptySet
    <2>3. n.fires \in Nat /\ n.fails \in Nat /\ 0 < n.fails
      BY <1>5, <1>6
    <2>4. n.fires <= n.fails
      BY <1>9, <1>10, <2>2, <2>3
    <2>5. 100 * n.fails > Threshold * n.fires
      BY <2>3, <2>4, OnlyFailures
    <2>6. QED BY <1>6, <1>10, <2>5
  <1>11. (tried'[s] # "answered" /\ breaker'[s].state = "closed")
           => breaker'[s].fires - breaker'[s].fails <= Cardinality(Waiting(s)')
    BY <1>4, <1>8, <1>9
  <1>12. tried'[s] = "failed"
           => breaker'[s].state # "none" /\ (breaker'[s].state = "closed" => Waiting(s)' # {})
    BY <1>4, <1>6, <1>8, <1>10
  <1>13. IsFiniteSet(Waiting(s)')
    BY <1>4, Zenon
  <1>14. QED BY <1>4, <1>8, <1>11, <1>12, <1>13, OneService

(* Over means not waiting, and a breaker that ages does not close.         *)
LEMMA OverCounts ==
  ASSUME SafeInv, CountInv, NEW c \in Call, LateEnd(c) \/ Forget(c)
  PROVE  CountInv'
  <1>1. /\ call \in [Call -> Calls] /\ WaitingFinite /\ FailuresCounted /\ NotYetOpen
    BY DEF SafeInv, CountInv, BreakerTypeOK
  <1>2. PICK q \in Calls :
          /\ call' = [call EXCEPT ![c] = q] /\ UNCHANGED <<breaker, tried>>
          /\ call[c].state # "waiting" /\ q.state # "waiting"
    <2>1. CASE LateEnd(c)
      <3> DEFINE q == [call[c] EXCEPT !.running = FALSE]
      <3>1. call[c] \in Calls
        BY <1>1
      <3>2. q \in Calls /\ q.state = call[c].state
        BY <3>1 DEF Calls
      <3>3. /\ call' = [call EXCEPT ![c] = q] /\ UNCHANGED <<breaker, tried>>
            /\ call[c].state = "failed"
        BY <2>1 DEF LateEnd, CallBecomes
      <3> HIDE DEF q
      <3>4. QED BY <3>2, <3>3
    <2>2. CASE Forget(c)
      BY <2>2, IdleType DEF Forget, CallBecomes
    <2>3. QED BY <2>1, <2>2
  <1>3. ASSUME NEW t \in Service
        PROVE  Waiting(t)' = Waiting(t)
    <2>1. Waiting(t)' = Waiting(t) \ {c} /\ c \notin Waiting(t)
      BY <1>1, <1>2, WaitingAfter DEF Waiting
    <2>2. QED BY <2>1
  <1>4. QED BY <1>1, <1>2, <1>3 DEF CountInv, WaitingFinite, FailuresCounted, NotYetOpen

(* Opossum's timers keep the counts true: a call leaves no later than its failure. *)
LEMMA BreakerAgesCounts ==
  ASSUME SafeInv, CountInv, NEW s \in Service, HalfOpen(s) \/ WindowSlides(s)
  PROVE  CountInv'
  <1>1. /\ breaker \in [Service -> Breakers] /\ breaker[s] \in Breakers
        /\ WaitingFinite /\ FailuresCounted /\ NotYetOpen
    BY DEF SafeInv, CountInv, BreakerTypeOK
  <1>2. UNCHANGED <<call, tried>>
    BY DEF HalfOpen, WindowSlides
  <1>3. \A t \in Service : Waiting(t)' = Waiting(t)
    BY <1>2 DEF Waiting
  <1>4. IsFiniteSet(Waiting(s)) /\ Cardinality(Waiting(s)) \in Nat
    BY <1>1, FS_CardinalityType DEF WaitingFinite
  <1>5. IsFiniteSet(Waiting(s)')
    BY <1>3, <1>4, Zenon
  <1>6. \A t \in Service \ {s} : breaker'[t] = breaker[t]
    BY <1>1 DEF HalfOpen, WindowSlides
  <1>7. CASE HalfOpen(s)
    <2>1. breaker'[s].state = "half-open"
      BY <1>1, <1>7 DEF HalfOpen, Breakers
    <2>2. QED BY <1>2, <1>3, <1>5, <1>6, <2>1, OneService
  <1>8. CASE WindowSlides(s)
    <2>1. PICK f \in 0..breaker[s].fires, g \in 0..breaker[s].fails :
            /\ breaker[s].fails - g <= breaker[s].fires - f
            /\ breaker' = [breaker EXCEPT ![s].fires = f, ![s].fails = g]
      BY <1>8 DEF WindowSlides
    <2>2. /\ breaker'[s].state = breaker[s].state
          /\ breaker'[s].fires = f /\ breaker'[s].fails = g
      BY <1>1, <2>1 DEF Breakers
    <2>3. f - g <= breaker[s].fires - breaker[s].fails /\ f \in Int /\ g \in Int
      BY <1>1, <2>1 DEF Breakers
    <2>4. breaker[s].fires \in Int /\ breaker[s].fails \in Int
      BY <1>1 DEF Breakers
    <2>5. (tried'[s] # "answered" /\ breaker'[s].state = "closed")
            => breaker'[s].fires - breaker'[s].fails <= Cardinality(Waiting(s))
      <3>1. (tried[s] # "answered" /\ breaker[s].state = "closed")
              => breaker[s].fires - breaker[s].fails <= Cardinality(Waiting(s))
        BY <1>1 DEF FailuresCounted
      <3>2. QED BY <1>2, <1>4, <2>2, <2>3, <2>4, <3>1
    <2>6. tried'[s] = "failed"
            => breaker'[s].state # "none" /\ (breaker'[s].state = "closed" => Waiting(s) # {})
      BY <1>1, <1>2, <2>2 DEF NotYetOpen
    <2>7. QED BY <1>2, <1>3, <1>5, <1>6, <2>5, <2>6, OneService
  <1>9. QED BY <1>7, <1>8

-----------------------------------------------------------------------------
(* The steps and the theorems *)

(* A step of the replica is one of its breakers, or leaves them alone.     *)
LEMMA StepCases ==
  ASSUME [ReadinessNext]_readinessVars
  PROVE  \/ UNCHANGED breakerVars
         \/ \E c \in Call, s \in Service : Fire(c, s) \/ Refuse(c, s)
         \/ \E c \in Call : Returns(c) \/ LateEnd(c) \/ Forget(c)
         \/ \E c \in Call, late \in BOOLEAN : Fails(c, late)
         \/ \E s \in Service : HalfOpen(s) \/ WindowSlides(s) \/ Toggle(s)
  <1>1. CASE UNCHANGED readinessVars
    BY <1>1 DEF readinessVars
  <1>2. CASE Ask \/ DatabaseSays \/ Answer \/ GiveUp \/ Weather
    BY <1>2 DEF Ask, DatabaseSays, Answer, GiveUp, Weather
  <1>3. CASE \E c \in Call, s \in Service : Request(c, s)
    BY <1>3 DEF Request, Attempt
  <1>4. CASE BreakerStep
    BY <1>4 DEF BreakerStep, Settle
  <1>5. QED BY <1>1, <1>2, <1>3, <1>4 DEF ReadinessNext

(* What changes no breaker keeps the invariant. *)
LEMMA IdleStepSafe ==
  ASSUME SafeInv, UNCHANGED breakerVars \/ \E s \in Service : Toggle(s)
  PROVE  SafeInv'
  <1>1. /\ UNCHANGED <<breaker, call, tried>> /\ up' \in [Service -> BOOLEAN]
    BY DEF breakerVars, Toggle, SafeInv, BreakerTypeOK
  <1>2. BreakerTypeOK'
    BY <1>1 DEF SafeInv, BreakerTypeOK
  <1>3. (WaitingKnown /\ HalfOpenMovesOn)'
    BY <1>1 DEF SafeInv, WaitingKnown, HalfOpenMovesOn
  <1>4. QED BY <1>2, <1>3 DEF SafeInv

(* The invariant of the breakers is inductive, *)
LEMMA StepSafe ==
  ASSUME SafeInv, [ReadinessNext]_readinessVars
  PROVE  SafeInv'
  BY StepCases, IdleStepSafe, FireSafe, RefuseSafe, ReturnsSafe, FailsSafe, OverSafe, BreakerAgesSafe

(* and so are the counts, below a threshold of one hundred. *)
LEMMA StepCounts ==
  ASSUME Threshold < 100, SafeInv, CountInv, [ReadinessNext]_readinessVars
  PROVE  CountInv'
  <1>1. CASE UNCHANGED breakerVars \/ \E s \in Service : Toggle(s)
    <2>1. UNCHANGED <<breaker, call, tried>>
      BY <1>1 DEF breakerVars, Toggle
    <2>2. \A t \in Service : Waiting(t)' = Waiting(t)
      BY <2>1 DEF Waiting
    <2>3. QED BY <2>1, <2>2 DEF CountInv, WaitingFinite, FailuresCounted, NotYetOpen
  <1>2. QED BY <1>1, StepCases, FireCounts, RefuseCounts, ReturnsCounts, FailsCounts, OverCounts,
               BreakerAgesCounts

(* The probe's own variables keep their types. *)
LEMMA ProbeTypeStep ==
  ASSUME ReadinessTypeOK, SafeInv', [ReadinessNext]_readinessVars
  PROVE  ReadinessTypeOK'
  <1>1. BreakerTypeOK'
    BY DEF SafeInv
  <1>2. /\ database' \in BOOLEAN /\ redis' \in BOOLEAN /\ loop' \in BOOLEAN /\ routed' \in BOOLEAN
        /\ probe' \in [at : {"none", "database", "redis"}, database : BOOLEAN]
    <2> DEFINE Probes == [at : {"none", "database", "redis"}, database : BOOLEAN]
    <2>1. /\ database \in BOOLEAN /\ redis \in BOOLEAN /\ loop \in BOOLEAN /\ routed \in BOOLEAN
          /\ probe \in Probes /\ NoProbe \in Probes
      BY DEF ReadinessTypeOK, NoProbe
    <2>2. CASE UNCHANGED probeSide
      BY <2>1, <2>2 DEF probeSide
    <2>3. CASE Ask \/ DatabaseSays
      <3>1. /\ [at |-> "database", database |-> FALSE] \in Probes
            /\ [at |-> "redis", database |-> database] \in Probes
        BY <2>1
      <3>2. /\ probe' \in Probes /\ UNCHANGED <<database, redis, loop, routed>>
        BY <2>3, <3>1, Zenon DEF Ask, DatabaseSays
      <3>3. QED BY <2>1, <3>2
    <2>4. CASE Answer \/ GiveUp
      BY <2>1, <2>4 DEF Answer, GiveUp, Verdict
    <2>5. CASE Weather
      BY <2>1, <2>5 DEF Weather
    <2>6. QED BY <2>2, <2>3, <2>4, <2>5 DEF ReadinessNext, readinessVars, probeSide, Request
  <1>3. QED BY <1>1, <1>2 DEF ReadinessTypeOK

(* circuit-breaker.ts:66-68 over opossum's half-open state: in every        *)
(* reachable state a half-open circuit has a way on.                       *)
THEOREM BreakersSafety == ReadinessSpec => []BreakersSound
  <1>1. ReadinessInit => ReadinessTypeOK /\ SafeInv
    <2> SUFFICES ASSUME ReadinessInit PROVE ReadinessTypeOK /\ SafeInv
      OBVIOUS
    <2>1. SafeInv
      BY InitSafe DEF ReadinessInit
    <2>2. /\ database \in BOOLEAN /\ redis \in BOOLEAN /\ loop \in BOOLEAN /\ routed \in BOOLEAN
          /\ probe \in [at : {"none", "database", "redis"}, database : BOOLEAN]
      BY DEF ReadinessInit, NoProbe
    <2>3. QED BY <2>1, <2>2 DEF ReadinessTypeOK, SafeInv
  <1>2. ReadinessTypeOK /\ SafeInv /\ [ReadinessNext]_readinessVars => (ReadinessTypeOK /\ SafeInv)'
    BY StepSafe, ProbeTypeStep
  <1>3. ReadinessTypeOK /\ SafeInv => BreakersSound
    BY DEF SafeInv, BreakersSound
  <1>4. QED BY <1>1, <1>2, <1>3, PTL DEF ReadinessSpec

(* A call that starts to wait was let through. *)
LEMMA StartsByFire ==
  ASSUME SafeInv, [ReadinessNext]_readinessVars, NEW c \in Call, NEW s \in Service,
         call[c].state = "idle", call'[c].state = "waiting", call'[c].service = s
  PROVE  Fire(c, s)
  <1>1. /\ call \in [Call -> Calls] /\ \A d \in Call : call[d] \in Calls
    BY DEF SafeInv, BreakerTypeOK
  <1>2. \A d \in Call : \A q :
          call' = [call EXCEPT ![d] = q] => d = c /\ q.state = "waiting" /\ q.service = s
    BY <1>1
  <1>3. call' # call
    OBVIOUS
  <1>4. ASSUME NEW d \in Call, NEW t \in Service, Fire(d, t) \/ Refuse(d, t)
        PROVE  Fire(c, s)
    <2>1. CASE Fire(d, t)
      <3> DEFINE q == [Idle EXCEPT !.state = "waiting", !.service = t, !.ran = GetBreaker(t, d).owner,
                                   !.running = TRUE]
      <3>1. call' = [call EXCEPT ![d] = q]
        BY <2>1 DEF Fire, CallBecomes
      <3>2. q.service = t
        BY DEF Idle
      <3>3. QED BY <1>2, <2>1, <3>1, <3>2
    <2>2. CASE Refuse(d, t)
      <3> DEFINE q == [Idle EXCEPT !.state = "refused", !.service = t, !.aborted = TRUE]
      <3>1. call' = [call EXCEPT ![d] = q]
        BY <2>2 DEF Refuse, CallBecomes
      <3>2. q.state = "refused"
        BY DEF Idle
      <3>3. QED BY <1>2, <3>1, <3>2
    <2>3. QED BY <1>4, <2>1, <2>2
  <1>5. ASSUME NEW d \in Call, Returns(d) \/ LateEnd(d) \/ Forget(d) \/ \E late \in BOOLEAN : Fails(d, late)
        PROVE  FALSE
    <2>1. d = c
      BY <1>2, <1>5 DEF Returns, LateEnd, Forget, Fails, CallBecomes
    <2>2. QED BY <1>5, <2>1 DEF Returns, LateEnd, Forget, Fails
  <1>6. QED BY <1>3, <1>4, <1>5, StepCases DEF breakerVars, HalfOpen, WindowSlides, Toggle

(* circuit-breaker.ts:8-10: unless the threshold is 100 %, a service none  *)
(* of whose calls ever succeeded is called only through a half-open        *)
(* circuit once the calls that were in flight have ended.                  *)
THEOREM CutOff == Threshold < 100 /\ ReadinessSpec => FailingServiceIsCutOff
  <1> DEFINE StartsInTrial ==
        \A c \in Call, s \in Service :
          (Hopeless(s) /\ call[c].state = "idle" /\ call'[c].state = "waiting" /\ call'[c].service = s)
            => breaker[s].state = "half-open"
  <1>1. SUFFICES ASSUME Threshold < 100 PROVE ReadinessSpec => FailingServiceIsCutOff
    OBVIOUS
  <1>2. ReadinessInit => SafeInv /\ CountInv
    BY InitSafe DEF ReadinessInit
  <1>3. SafeInv /\ CountInv /\ [ReadinessNext]_readinessVars => (SafeInv /\ CountInv)'
    BY <1>1, StepSafe, StepCounts
  <1>4. SafeInv /\ CountInv /\ [ReadinessNext]_readinessVars => [StartsInTrial]_breakerVars
    <2> SUFFICES ASSUME SafeInv, CountInv, [ReadinessNext]_readinessVars,
                        NEW c \in Call, NEW s \in Service, Hopeless(s),
                        call[c].state = "idle", call'[c].state = "waiting", call'[c].service = s
                 PROVE  breaker[s].state = "half-open"
      OBVIOUS
    <2>1. Fire(c, s)
      BY StartsByFire
    <2>2. Waiting(s) = {}
      BY DEF Hopeless, Waiting
    <2>3. breaker[s].state \notin {"none", "closed"}
      BY <2>2 DEF CountInv, NotYetOpen, Hopeless
    <2>4. GetBreaker(s, c) = breaker[s]
      BY <2>3 DEF GetBreaker
    <2>5. breaker[s].trial
      BY <2>1, <2>3, <2>4 DEF Fire, Admits
    <2>6. QED BY <2>5 DEF SafeInv, BreakerTypeOK
  <1>5. QED BY <1>2, <1>3, <1>4, PTL DEF ReadinessSpec, FailingServiceIsCutOff

=============================================================================
