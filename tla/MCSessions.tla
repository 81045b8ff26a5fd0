----------------------------- MODULE MCSessions -----------------------------
(* Instances of Sessions for the model checker: either requests about one  *)
(* account overlap and are cut off anywhere (without wrong passwords,      *)
(* whose races are an instance of their own, and with password changes for *)
(* the resets that end like them), or the requests of two accounts follow  *)
(* one another undisturbed.                                                *)
EXTENDS Sessions, TLC

VARIABLE alone   \* whether a request starts only when no other is handled

Busy == {r \in Request : ~Idle(r)}

(* The accounts that exist or that a request is about. *)
Involved == {u \in User : Registered(u)} \union ({request[r].user : r \in Busy} \ {NoUser})

Sequential ==
  /\ \A r, q \in Busy : r = q
  /\ \A r \in Request : ~request[r].orphan

(* Requests that overlap in any way or follow one another, in an instance  *)
(* of any size.                                                            *)
OrderSpec ==
  Init /\ alone \in BOOLEAN
    /\ [][Next /\ UNCHANGED alone /\ (alone => Sequential')]_<<vars, alone>>

(* Wrong passwords are counted against one account at a time. *)
Failing == {u \in User : account[u].failed > 0 \/ account[u].locked}

Arranged ==
  IF alone THEN Sequential' /\ Cardinality(Failing') <= 1
  ELSE /\ Cardinality(Involved') <= 1
       /\ \A r \in Request : request'[r].pc \notin {"login.fail", "confirm.set"}

MCInit ==
  /\ Init /\ alone \in BOOLEAN
  /\ alone \/ Cardinality(Involved) <= 1

MCSpec == MCInit /\ [][Next /\ UNCHANGED alone /\ Arranged]_<<vars, alone>>

(* Requests race in any way, whatever they are about. *)
FreeInit == Init /\ alone = FALSE

FreeSpec == FreeInit /\ [][Next /\ UNCHANGED alone]_<<vars, alone>>

(* What the comments promise of password changes, reuse detection and      *)
(* rotation, and what holds while requests do not overlap.                 *)
Undisturbed ==
  alone => /\ PasswordChangeEndsSessions /\ ReuseEndsFamily
           /\ SingleSuccessor /\ OneUsableTokenPerSession

Symmetry ==
  Permutations(User) \union Permutations(Token) \union Permutations(Family)
    \union Permutations(Password) \union Permutations(Request)
=============================================================================
