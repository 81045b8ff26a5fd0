\* The last two super administrators each lose the role to a request of their own.
SPECIFICATION MCSpec
CONSTANTS
  User = {u1, u2}
  Role = {super, custom}
  SystemRole = {super}
  SuperAdmin = super
  Permission <- Keys
  PermissionSets <- KeySets
  Request = {r1, r2}
  NoUser = NoUser
  NoRole = NoRole
SYMMETRY Symmetry
INVARIANTS AlwaysAnAdministrator
\* Once no role in use confers role management, nobody can start a request.
CHECK_DEADLOCK FALSE
