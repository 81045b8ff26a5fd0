---------------------------- MODULE MCAdminClient ----------------------------
(* Instances of AdminClient for the model checker: three operators with    *)
(* different permissions, two links.                                        *)
EXTENDS AdminClient, TLC

CONSTANTS ann, bob, eve, usersRead, rolesRead, usersLink, rolesLink

MCGrants == ann :> {usersRead, rolesRead} @@ bob :> {usersRead} @@ eve :> {rolesRead}
MCNeeds == usersLink :> usersRead @@ rolesLink :> rolesRead
=============================================================================
