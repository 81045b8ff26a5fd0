----------------------------- MODULE MCRecovery -----------------------------
(* Instances of Recovery for the model checker: either two requests of one *)
(* user overlap in any way, or the requests of two users follow one        *)
(* another.                                                                *)
EXTENDS Recovery, FiniteSets, TLC

VARIABLE alone   \* whether a request starts only when no other is handled

Busy == {r \in Request : ~Idle(r)}

Involved == {holder[c] : c \in Created} \union {request[r].user : r \in Busy}

Sequential == \A r, q \in Busy : r = q

Arranged ==
  IF alone THEN Sequential' ELSE Cardinality(Involved') <= 1

MCInit == Init /\ alone \in BOOLEAN

MCSpec == MCInit /\ [][Next /\ UNCHANGED alone /\ Arranged]_<<vars, alone>>

(* What the comments of OtpService promise, and what holds while requests  *)
(* do not overlap: one active challenge per destination and purpose, each  *)
(* code accepted once, each reset token used once.                         *)
SingleUse ==
  alone => OneActiveChallenge /\ CodeAcceptedOnce /\ ResetTokenUsedOnce

Symmetry ==
  Permutations(User) \union Permutations(ResetToken) \union Permutations(Request)
=============================================================================
