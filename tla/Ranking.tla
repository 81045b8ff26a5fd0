------------------------------ MODULE Ranking ------------------------------
(***************************************************************************)
(* What is left of a limit that concurrent requests count towards with     *)
(* lost updates: a number for every level the count may be taken back to,  *)
(* compared at the lowest level at which two such vectors differ.          *)
(***************************************************************************)
EXTENDS Naturals

Levels(limit) == 0 .. limit - 1

Ranks(limit) == [Levels(limit) -> Nat]

Below(limit) ==
  {p \in Ranks(limit) \X Ranks(limit) :
     \E k \in Levels(limit) : /\ p[1][k] < p[2][k]
                              /\ \A i \in Levels(limit) : i < k => p[1][i] = p[2][i]}
=============================================================================
