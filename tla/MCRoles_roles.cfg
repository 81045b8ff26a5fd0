\* Two users, SUPER_ADMIN and one custom role, two requests.
SPECIFICATION MCSpec
CONSTANTS
  User = {u1, u2}
  Role = {super, custom}
  SystemRole = {super}
  SuperAdmin = super
  Permission <- Keys
  PermissionSets <- KeySets
  Request = {r1, r2}
  NoUser = NoUser
  NoRole = NoRole
SYMMETRY Symmetry
INVARIANTS TypeOK RestrictedVouched AdministratorRemains
PROPERTIES ChangesRecorded RankGuarded ReplacedWhole
\* Once no role in use confers role management, nobody can start a request.
CHECK_DEADLOCK FALSE
