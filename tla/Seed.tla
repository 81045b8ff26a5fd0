-------------------------------- MODULE Seed --------------------------------
(***************************************************************************)
(* prisma/seed.ts and scripts/grant-admin.mjs: scripts that write the      *)
(* permission catalogue, the system roles with their links and the first   *)
(* administrator.  They run beside each other (two deployments) and beside *)
(* the API, whose super administrators edit the links and the assignments. *)
(* Every await is a step; a script may die between two of them and be      *)
(* started again.                                                          *)
(***************************************************************************)
EXTENDS RoleCatalog, Sequences

CONSTANTS
  Script,       \* the seeds that run
  Keys,         \* the permission keys an instance looks at
  Roles,        \* ROLE_DEFINITIONS' keys it looks at, in the order of the loop
  Older,        \* the scripts of a deployment whose registry still lacks
  Newer,        \*   these keys
  EditSets      \* the permission sets a super administrator may give a role

ASSUME SeedAssumption ==
  /\ Keys \subseteq PermissionKeys /\ Newer \subseteq Keys /\ Newer # Keys
  /\ Roles \in Seq(SystemRoles)
  /\ \E i \in DOMAIN Roles : Roles[i] = "SUPER_ADMIN"
  /\ Older \subseteq Script

VARIABLES
  permission,   \* the rows of permissions
  role,         \* the rows of roles: the system roles there are
  link,         \* role_permissions, by role
  account,      \* the user row of SEED_ADMIN_EMAIL: "none", "registered", "seeded"
  assigned,     \* user_roles of that account
  at,           \* what each seed waits for
  step,         \* the loop's index
  missing,      \* toCreate, of the role the loop is at
  chosen,       \* ghost: what the last edit made of a role's links
  stripped,     \* ghost: the links edits took away since a seed began
  dismissed     \* ghost: SUPER_ADMIN was taken from the account since then

rows == <<permission, role, link, account, assigned>>
ghosts == <<chosen, stripped, dismissed>>
vars == <<rows, at, step, missing, ghosts>>

Role == {Roles[i] : i \in DOMAIN Roles}

(* ALL_PERMISSION_KEYS and ROLE_DEFINITIONS, as of the script's deployment. *)
Catalog(s) == Keys \ (IF s \in Older THEN Newer ELSE {})

Definition(s, r) == RoleDefinitions[r] \cap Catalog(s)

Order(s) == CHOOSE q \in [1..Cardinality(Catalog(s)) -> Catalog(s)] :
              \A i, j \in DOMAIN q : i # j => q[i] # q[j]

SeedInit ==
  /\ permission = {} /\ role = {} /\ link = [r \in Role |-> {}]
  /\ account \in {"none", "registered"} /\ assigned = {}
  /\ at = [s \in Script |-> "off"] /\ step = [s \in Script |-> 1]
  /\ missing = [s \in Script |-> {}]
  /\ chosen = [r \in Role |-> {}] /\ stripped = [s \in Script |-> {}]
  /\ dismissed = [s \in Script |-> FALSE]

Go(s, where, i) ==
  /\ at' = [at EXCEPT ![s] = where]
  /\ step' = [step EXCEPT ![s] = i]

(* npm run db:seed: at a deployment, again, after a failure or not.       *)
Start(s) ==
  /\ at[s] \in {"off", "failed", "done"}
  /\ Go(s, "permissions", 1)
  /\ stripped' = [stripped EXCEPT ![s] = {}]
  /\ dismissed' = [dismissed EXCEPT ![s] = FALSE]
  /\ UNCHANGED <<rows, missing, chosen>>

SeedPermission(s) ==
  /\ at[s] = "permissions"
  /\ permission' = permission \union {Order(s)[step[s]]}
  /\ IF step[s] = Len(Order(s)) THEN Go(s, "role", 1) ELSE Go(s, "permissions", step[s] + 1)
  /\ UNCHANGED <<role, link, account, assigned, missing, ghosts>>

UpsertRole(s) ==
  /\ at[s] = "role"
  /\ role' = role \union {Roles[step[s]]}
  /\ Go(s, "existing", step[s])
  /\ UNCHANGED <<permission, link, account, assigned, missing, ghosts>>

AfterRole(s) ==
  IF step[s] = Len(Roles) THEN Go(s, "admin", 1) ELSE Go(s, "role", step[s] + 1)

MissingInNewRole(s, r) ==   \* mutant: links only what a role never had
  IF link[r] = {} THEN Definition(s, r) ELSE {}

(* toCreate: computed from the links read, used by a later statement.      *)
Missing(s, r) == Definition(s, r) \ link[r]

ReadLinks(s) ==
  LET r == Roles[step[s]] IN
  /\ at[s] = "existing"
  /\ missing' = [missing EXCEPT ![s] = Missing(s, r)]
  /\ IF Missing(s, r) = {} THEN AfterRole(s) ELSE Go(s, "link", step[s])
  /\ UNCHANGED <<rows, ghosts>>

Replaced(s, r) == missing[s]   \* mutant: the definition replaces the links

(* createMany with skipDuplicates. *)
Linked(s, r) == link[r] \union missing[s]

CreateLinks(s) ==
  LET r == Roles[step[s]] IN
  /\ at[s] = "link"
  /\ link' = [link EXCEPT ![r] = Linked(s, r)]
  /\ missing' = [missing EXCEPT ![s] = {}]
  /\ AfterRole(s)
  /\ UNCHANGED <<permission, role, account, assigned, ghosts>>

(* Refusing to seed in production, and the checks of the password, come    *)
(* after the permissions and the roles were written.                       *)
Refuse(s) ==
  /\ at[s] = "admin"
  /\ Go(s, "failed", 1)
  /\ UNCHANGED <<rows, missing, ghosts>>

FindAdmin(s) ==
  /\ at[s] = "admin"
  /\ Go(s, IF account = "none" THEN "create" ELSE "assign", 1)
  /\ UNCHANGED <<rows, missing, ghosts>>

(* The address is unique: whoever else created the account while the       *)
(* password was hashed makes this seed fail.                               *)
CreateAdmin(s) ==
  /\ at[s] = "create"
  /\ IF account = "none" THEN account' = "seeded" /\ Go(s, "assign", 1)
     ELSE UNCHANGED account /\ Go(s, "failed", 1)
  /\ UNCHANGED <<permission, role, link, assigned, missing, ghosts>>

Assigned == assigned \union (role \cap {"SUPER_ADMIN"})

AssignSuperAdmin(s) ==
  /\ at[s] = "assign"
  /\ assigned' = Assigned
  /\ Go(s, "done", 1)
  /\ UNCHANGED <<permission, role, link, account, missing, ghosts>>

Crash(s) ==
  /\ at[s] \notin {"off", "failed", "done"}
  /\ Go(s, "failed", 1)
  /\ missing' = [missing EXCEPT ![s] = {}]
  /\ UNCHANGED <<rows, ghosts>>

(* setRolePermissions of a system role; its transaction fails unless every *)
(* key is provisioned.  Only a super administrator may, and there is none  *)
(* before the first seed.                                                  *)
Edit(r, keys) ==
  /\ r \in role /\ keys \subseteq permission
  /\ "SUPER_ADMIN" \in assigned
  /\ link' = [link EXCEPT ![r] = keys]
  /\ chosen' = [chosen EXCEPT ![r] = keys]
  /\ stripped' = [s \in Script |-> stripped[s] \union {<<r, k>> : k \in Keys \ keys}]
  /\ UNCHANGED <<permission, role, account, assigned, at, step, missing, dismissed>>

(* Another super administrator sets the account's roles. *)
Dismiss ==
  /\ "SUPER_ADMIN" \in assigned
  /\ assigned' = {}
  /\ dismissed' = [s \in Script |-> TRUE]
  /\ UNCHANGED <<permission, role, link, account, at, step, missing, chosen, stripped>>

(* Somebody registers with the address. *)
Register ==
  /\ account = "none"
  /\ account' = "registered"
  /\ UNCHANGED <<permission, role, link, assigned, at, step, missing, ghosts>>

(* grant-admin.mjs; permissionVersion, which it bumps, is read by no code. *)
Grant(r) ==
  /\ account # "none" /\ r \in role
  /\ assigned' = assigned \union {r}
  /\ UNCHANGED <<permission, role, link, account, at, step, missing, ghosts>>

SeedStep(s) ==
  \/ Start(s) \/ SeedPermission(s) \/ UpsertRole(s) \/ ReadLinks(s) \/ CreateLinks(s)
  \/ Refuse(s) \/ FindAdmin(s) \/ CreateAdmin(s) \/ AssignSuperAdmin(s) \/ Crash(s)

SeedNext ==
  \/ \E s \in Script : SeedStep(s)
  \/ \E r \in Role, keys \in EditSets : Edit(r, keys)
  \/ Dismiss \/ Register
  \/ \E r \in Role : Grant(r)

SeedSpec == SeedInit /\ [][SeedNext]_vars

(***************************************************************************)
(* Properties                                                              *)
(***************************************************************************)
Complete(s) ==
  /\ Catalog(s) \subseteq permission
  /\ \A r \in Role : r \in role /\ \A k \in Definition(s, r) \ link[r] : <<r, k>> \in stripped[s]
  /\ account # "none"
  /\ "SUPER_ADMIN" \in assigned \/ dismissed[s]

(* A seed that says it is complete left the catalogue, every role with its *)
(* links and an administrator, whatever other seeds did meanwhile and      *)
(* whatever earlier ones left half done; only what a super administrator   *)
(* took away while it ran may be missing.                                  *)
DoneIsComplete == \A s \in Script : at[s] = "done" => Complete(s)

(* "An operator can grant additional permissions to a system role without  *)
(* the seed clobbering them": what the last edit gave a role stays, and a  *)
(* seed adds nothing but its own definitions.                              *)
OperatorsChoiceKept ==
  \A r \in Role :
    /\ chosen[r] \subseteq link[r]
    /\ link[r] \subseteq chosen[r] \union UNION {Definition(s, r) : s \in Script}
=============================================================================
