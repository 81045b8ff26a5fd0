------------------------------- MODULE MCSeed -------------------------------
(* Two seeds, the first of a deployment whose registry lacks one key.      *)
EXTENDS Seed

Looked == {"users.read", "roles.create"}

InOrder == <<"SUPER_ADMIN", "VIEWER">>

Added == {"roles.create"}

Edits == {{}, {"roles.create", "users.read"}}
=============================================================================
