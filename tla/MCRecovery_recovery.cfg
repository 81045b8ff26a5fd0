SPECIFICATION MCSpec
CONSTANTS
  u1 = u1
  u2 = u2
  User = {u1, u2}
  t1 = t1
  ResetToken = {t1}
  r1 = r1
  r2 = r2
  Request = {r1, r2}
  Challenge = {1, 2}
  NoUser = NoUser
  NoChallenge = NoChallenge
  NoToken = NoToken
  MaxAttempts = 2
SYMMETRY Symmetry
INVARIANTS
  TypeOK
  ExhaustedIsBurnt
  VerifiedByOwnCode
  ResetEarned
  SingleUse
