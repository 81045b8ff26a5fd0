SPECIFICATION FreeSpec
CONSTANTS
  u1 = u1
  User = {u1}
  t1 = t1
  t2 = t2
  Token = {t1, t2}
  f1 = f1
  f2 = f2
  Family = {f1, f2}
  p1 = p1
  p2 = p2
  Password = {p1, p2}
  r1 = r1
  r2 = r2
  r3 = r3
  Request = {r1, r2, r3}
  NoUser = NoUser
  NoToken = NoToken
  NoFamily = NoFamily
  NoPassword = NoPassword
  MaxFailedAttempts = 3
  Operations = {"login"}
  Legacy = {FALSE}
  Faults = FALSE
PROPERTIES
  PersistentFailuresLock
