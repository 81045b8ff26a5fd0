\* Two connections and a limit of one request per window; a walk over at
\* most four users in pages of one to three.
SPECIFICATION MCSpec
CONSTANTS
  Request = {r1, r2}
  MaxHits = 1
  MaxUsers = 4
  PageSizes = {1, 2, 3}
INVARIANTS OnlyEntitled CountedInProgress WalkMissesNobody 
PROPERTIES Answered
\* A client's walk ends.
CHECK_DEADLOCK FALSE
