SPECIFICATION MCSpec
CONSTANTS
  u1 = u1
  User = {u1}
  t1 = t1
  t2 = t2
  t3 = t3
  Token = {t1, t2, t3}
  f1 = f1
  f2 = f2
  Family = {f1, f2}
  p1 = p1
  p2 = p2
  Password = {p1, p2}
  r1 = r1
  r2 = r2
  Request = {r1, r2}
  NoUser = NoUser
  NoToken = NoToken
  NoFamily = NoFamily
  NoPassword = NoPassword
  MaxFailedAttempts = 1
  Operations = {"login", "refresh", "change-password"}
  Legacy = {FALSE}
  Faults = FALSE
SYMMETRY Symmetry
INVARIANTS
  PasswordChangeEndsSessions
