----------------------------- MODULE RoleCatalog -----------------------------
(***************************************************************************)
(* The permission registry of packages/api-contracts and the system roles  *)
(* the seed defines.  Each role below SUPER_ADMIN holds what the one below *)
(* it holds, and some more.                                                *)
(***************************************************************************)
EXTENDS Integers, FiniteSets

SystemRoles == {"SUPER_ADMIN", "ADMIN", "MANAGER", "SUPPORT", "VIEWER"}

ViewerKeys == {"dashboard.read", "users.read", "orders.read"}

SupportKeys == ViewerKeys \union {"orders.update"}

ManagerKeys == SupportKeys \union {"orders.cancel", "todos.read"}

AdminKeys == ManagerKeys \union
  {"users.create", "users.update", "users.delete", "users.roles.read", "users.roles.update",
   "roles.read", "permissions.read", "todos.read_all", "orders.create", "audit.read",
   "metrics.read", "settings.read"}

PermissionKeys == AdminKeys \union
  {"roles.create", "roles.update", "roles.delete", "todos.create", "todos.update",
   "todos.delete", "orders.delete", "settings.update"}

IsPermissionKey(value) == value \in PermissionKeys

RoleDefinitions ==
  [r \in SystemRoles |->
     CASE r = "SUPER_ADMIN" -> PermissionKeys
       [] r = "ADMIN" -> AdminKeys
       [] r = "MANAGER" -> ManagerKeys
       [] r = "SUPPORT" -> SupportKeys
       [] r = "VIEWER" -> ViewerKeys]
=============================================================================
