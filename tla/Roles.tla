------------------------------- MODULE Roles -------------------------------
(***************************************************************************)
(* Role administration: the "roles", "role_permissions" and "user_roles"   *)
(* tables, users.permissionVersion, the audit log of assignments, and the  *)
(* handlers of roles.routes.ts with RolesService behind them.              *)
(*                                                                         *)
(* A handler checks its caller and its input on rows it reads one after    *)
(* the other, and then writes in one interactive transaction.  PostgreSQL  *)
(* runs that at READ COMMITTED: every statement inside sees what others    *)
(* committed before it, nothing that was read before is read again, and    *)
(* the writes appear at once at COMMIT.  One action is one read, or the    *)
(* statement of the transaction that decides which rows it deletes, or the *)
(* commit with all its writes.  Of a handler that answers 4xx nothing is a *)
(* step.                                                                   *)
(***************************************************************************)
EXTENDS Naturals, FiniteSets

CONSTANTS
  User,            \* accounts
  Role,            \* role rows ever created (a name reused is another row)
  SystemRole,      \* rows with isSystem set, created by the seed
  SuperAdmin,      \* the row named SUPER_ADMIN
  Permission,      \* keys of the registry, all provisioned
  PermissionSets,  \* permission lists clients send in this instance
  Request,         \* requests being handled at the same time
  NoUser, NoRole

(* What assertCanDelegatePermissions keeps to super administrators. *)
Restricted == {"roles.create", "roles.update", "roles.delete", "users.roles.update"}

ASSUME RolesAssumption ==
  /\ SystemRole \subseteq Role
  /\ SuperAdmin \in SystemRole
  /\ Restricted \subseteq Permission
  /\ NoUser \notin User
  /\ NoRole \notin Role

VARIABLES
  fresh,       \* role rows not created yet
  deleted,     \* role rows deleted
  grants,      \* role_permissions: the keys of each role
  members,     \* user_roles: the roles of each user
  bumped,      \* users whose permissionVersion the last step incremented
  logged,      \* audit_log: per user, the roles the last step logged as assigned and as removed
  request,     \* what each handler is about to do, and what it holds
  vouched      \* history: restricted keys a super administrator gave each role, ever

tables == <<fresh, deleted, grants, members>>
history == <<vouched>>
effects == <<bumped, logged>>
vars == <<tables, effects, request, history>>

-----------------------------------------------------------------------------
Present == Role \ (fresh \union deleted)

Holders(x) == {u \in User : x \in members[u]}

(* AuthorizationService.getContext: the union over the assigned roles. *)
Effective(u) == UNION {grants[x] : x \in members[u]}

IsSuperAdmin(u) == SuperAdmin \in members[u]

Labels ==
  {"idle", "create.actor", "create.commit", "update.actor", "update.lock",
   "set.actor", "replace.sweep", "replace.holders", "replace.commit",
   "delete.holders", "delete.commit",
   "assign.actor", "assign.read", "assign.count", "assign.sweep", "assign.commit"}

Requests ==
  [pc : Labels, actor : User \union {NoUser}, admin : BOOLEAN, locked : BOOLEAN,
   user : User \union {NoUser}, role : Role \union {NoRole},
   keys : SUBSET Permission, next : SUBSET Role, current : SUBSET Role,
   sweptKeys : SUBSET Permission, sweptRoles : SUBSET Role, holders : SUBSET User]

IdleRequest ==
  [pc |-> "idle", actor |-> NoUser, admin |-> FALSE, locked |-> FALSE,
   user |-> NoUser, role |-> NoRole, keys |-> {}, next |-> {}, current |-> {},
   sweptKeys |-> {}, sweptRoles |-> {}, holders |-> {}]

Idle(r) == request[r].pc = "idle"

At(r, label) == request[r].pc = label

(* Only commits have effects outside the tables above. *)
NothingLogged == [u \in User |-> <<{}, {}>>]

LogNothing == logged' = NothingLogged

NoEffects == bumped' = {} /\ LogNothing

(* The handlers' first statement: the caller's permissions are resolved.   *)
Begin(r, a, key, record) ==
  /\ Idle(r)
  /\ key \in Effective(a)
  /\ request' = [request EXCEPT ![r] = record]
  /\ NoEffects
  /\ UNCHANGED <<tables, history>>

(* A statement that only reads: the handler goes on with what it read.     *)
GoOn(r, record) ==
  /\ request' = [request EXCEPT ![r] = record]
  /\ NoEffects
  /\ UNCHANGED <<tables, history>>

(* COMMIT.  A row that the committed transaction deleted is skipped by any *)
(* other transaction that had found it too, even if the committed one      *)
(* inserted an equal row again.                                            *)
Commit(r) ==
  LET me == request[r]
      RolesLeft(q) == IF q.user = me.user THEN q.sweptRoles \ me.sweptRoles ELSE q.sweptRoles
      KeysLeft(q) == IF q.role = me.role THEN q.sweptKeys \ me.sweptKeys ELSE q.sweptKeys
  IN request' = [s \in Request |->
       IF s = r THEN IdleRequest
       ELSE [request[s] EXCEPT !.sweptRoles = RolesLeft(request[s]),
                               !.sweptKeys = KeysLeft(request[s])]]

Rollback(r) ==
  /\ request' = [request EXCEPT ![r] = IdleRequest]
  /\ NoEffects
  /\ UNCHANGED <<tables, history>>

BumpNobody(U) == bumped' = {}   \* mutant: the bump is forgotten

Bump(U) == bumped' = U

-----------------------------------------------------------------------------
AnyKeys(keys) == TRUE   \* mutant: unknown keys are stored

(* validatePermissionKeys *)
ValidKeys(keys) == keys \subseteq Permission

(* Any state after the seed: the system roles exist, others may, and       *)
(* somebody is a super administrator.                                      *)
Init ==
  /\ fresh \in SUBSET (Role \ SystemRole)
  /\ deleted = {}
  /\ \E given \in [Role -> PermissionSets \intersect SUBSET Permission] :
       grants = [x \in Role |-> IF x = SuperAdmin THEN Permission
                                ELSE IF x \in fresh THEN {} ELSE given[x]]
  /\ members \in [User -> SUBSET (Role \ fresh)]
  /\ Holders(SuperAdmin) # {}
  /\ bumped = {}
  /\ logged = NothingLogged
  /\ request = [r \in Request |-> IdleRequest]
  /\ vouched = [x \in Role |-> grants[x] \intersect Restricted]

(* isSuperAdmin, read after the permission check and never again. *)
ReadActor(r) ==
  [request[r] EXCEPT !.admin = IsSuperAdmin(request[r].actor), !.actor = NoUser]

CanDelegateAnything(keys, admin) == TRUE   \* mutant: no delegation guard

(* assertCanDelegatePermissions *)
CanDelegate(keys, admin) == admin \/ keys \intersect Restricted = {}

Vouch(r, x) ==
  vouched' = [vouched EXCEPT ![x] = @ \union
    (IF request[r].admin THEN request[r].keys \intersect Restricted ELSE {})]

(* POST /roles *)
CreateRole(r, a, x, keys) ==
  /\ x \in fresh
  /\ ValidKeys(keys)
  /\ Begin(r, a, "roles.create",
       [IdleRequest EXCEPT !.pc = "create.actor", !.actor = a, !.role = x, !.keys = keys])

CreateActor(r) ==
  /\ At(r, "create.actor")
  /\ CanDelegate(request[r].keys, IsSuperAdmin(request[r].actor))
  /\ GoOn(r, [ReadActor(r) EXCEPT !.pc = "create.commit"])

(* roles.name is unique: of two requests creating a role one rolls back. *)
CreateCommit(r) ==
  /\ At(r, "create.commit")
  /\ LET x == request[r].role
     IN \/ /\ x \notin fresh
           /\ Rollback(r)
        \/ /\ x \in fresh
           /\ fresh' = fresh \ {x}
           /\ grants' = [grants EXCEPT ![x] = request[r].keys]
           /\ Vouch(r, x)
           /\ Commit(r)
           /\ NoEffects
           /\ UNCHANGED <<deleted, members>>

(* PATCH /roles/:id with permissions (one without changes nothing modelled *)
(* here), and PUT /roles/:id/permissions.                                  *)
UpdateRole(r, a, x, keys) ==
  /\ ValidKeys(keys)
  /\ Begin(r, a, "roles.update",
       [IdleRequest EXCEPT !.pc = "update.actor", !.actor = a, !.role = x, !.keys = keys])

SetRolePermissions(r, a, x, keys) ==
  /\ ValidKeys(keys)
  /\ Begin(r, a, "roles.update",
       [IdleRequest EXCEPT !.pc = "set.actor", !.actor = a, !.role = x, !.keys = keys])

(* The caller's rank, then the role: system roles need a super             *)
(* administrator.                                                          *)
MayModify(x, keys, admin) ==
  /\ x \in Present
  /\ x \in SystemRole => admin
  /\ CanDelegate(keys, admin)

ReplaceActor(r, from, to) ==
  /\ At(r, from)
  /\ MayModify(request[r].role, request[r].keys, IsSuperAdmin(request[r].actor))
  /\ GoOn(r, [ReadActor(r) EXCEPT !.pc = to])

UpdateActor(r) == ReplaceActor(r, "update.actor", "update.lock")

SetActor(r) == ReplaceActor(r, "set.actor", "replace.sweep")

Unlocked(x) == \A q \in Request : request[q].role = x => ~request[q].locked

(* PATCH first updates the role row, and so waits for another PATCH. *)
UpdateLock(r) ==
  /\ At(r, "update.lock")
  /\ Unlocked(request[r].role)
  /\ IF request[r].role \in Present
     THEN GoOn(r, [request[r] EXCEPT !.pc = "replace.sweep", !.locked = TRUE])
     ELSE Rollback(r)

(* rolePermission.deleteMany *)
ReplaceSweep(r) ==
  /\ At(r, "replace.sweep")
  /\ GoOn(r, [request[r] EXCEPT !.pc = "replace.holders", !.sweptKeys = grants[request[r].role]])

(* bumpPermissionVersionForRole: the users to bump *)
ReplaceHolders(r) ==
  /\ At(r, "replace.holders")
  /\ GoOn(r, [request[r] EXCEPT !.pc = "replace.commit", !.holders = Holders(request[r].role)])

(* rolePermission.createMany fails on an equal row that is still there,    *)
(* and on a role that is gone.                                             *)
ReplaceCommit(r) ==
  /\ At(r, "replace.commit")
  /\ LET x == request[r].role
         kept == grants[x] \ request[r].sweptKeys
         keys == request[r].keys
     IN \/ /\ kept \intersect keys # {} \/ (keys # {} /\ x \notin Present)
           /\ Rollback(r)
        \/ /\ kept \intersect keys = {} /\ (keys # {} => x \in Present)
           /\ grants' = [grants EXCEPT ![x] = kept \union keys]
           /\ Bump(request[r].holders)
           /\ LogNothing
           /\ Vouch(r, x)
           /\ Commit(r)
           /\ UNCHANGED <<fresh, deleted, members>>

(* DELETE /roles/:id *)
DeleteRole(r, a, x) ==
  /\ x \in Present \ SystemRole
  /\ Begin(r, a, "roles.delete", [IdleRequest EXCEPT !.pc = "delete.holders", !.role = x])

DeleteHolders(r) ==
  /\ At(r, "delete.holders")
  /\ GoOn(r, [request[r] EXCEPT !.pc = "delete.commit", !.holders = Holders(request[r].role)])

(* ON DELETE CASCADE of user_roles *)
CascadeMembers(x) == members' = [u \in User |-> members[u] \ {x}]

DeleteCommit(r) ==
  /\ At(r, "delete.commit")
  /\ Unlocked(request[r].role)
  /\ LET x == request[r].role
     IN \/ /\ x \notin Present
           /\ Rollback(r)
        \/ /\ x \in Present
           /\ deleted' = deleted \union {x}
           /\ grants' = [grants EXCEPT ![x] = {}]
           /\ CascadeMembers(x)
           /\ Bump(request[r].holders)
           /\ LogNothing
           /\ Commit(r)
           /\ UNCHANGED <<fresh, vouched>>

(* PUT /users/:id/roles *)
SetUserRoles(r, a, u, X) ==
  Begin(r, a, "users.roles.update",
    [IdleRequest EXCEPT !.pc = "assign.actor", !.actor = a, !.user = u, !.next = X])

AssignActor(r) ==
  /\ At(r, "assign.actor")
  /\ GoOn(r, [ReadActor(r) EXCEPT !.pc = "assign.read"])

Grants(before, after) == SuperAdmin \in after \ before

Removes(before, after) == SuperAdmin \in before \ after

MayGrant(before, after, admin) ==   \* mutant: only removing is guarded
  Removes(before, after) => admin

MayChange(before, after, admin) ==
  Grants(before, after) \/ Removes(before, after) => admin

(* The names are resolved and the present roles read. *)
AssignRead(r) ==
  /\ At(r, "assign.read")
  /\ request[r].next \subseteq Present
  /\ LET before == members[request[r].user]
         after == request[r].next
     IN /\ MayChange(before, after, request[r].admin)
        /\ GoOn(r, [request[r] EXCEPT !.current = before,
             !.pc = IF Removes(before, after) THEN "assign.count" ELSE "assign.sweep"])

OthersAndOneself(u) == Holders(SuperAdmin)   \* mutant: counts the target too

(* countUsersWithRole(SUPER_ADMIN, target) *)
Others(u) == Holders(SuperAdmin) \ {u}

AssignCount(r) ==
  /\ At(r, "assign.count")
  /\ Others(request[r].user) # {}
  /\ GoOn(r, [request[r] EXCEPT !.pc = "assign.sweep"])

AssignSweepCommitted(r) ==   \* mutant: the rows are deleted before the transaction begins
  /\ At(r, "assign.sweep")
  /\ request' = [request EXCEPT ![r].pc = "assign.commit",
                               ![r].sweptRoles = members[request[r].user]]
  /\ members' = [members EXCEPT ![request[r].user] = {}]
  /\ NoEffects
  /\ UNCHANGED <<fresh, deleted, grants, history>>

(* userRole.deleteMany *)
AssignSweep(r) ==
  /\ At(r, "assign.sweep")
  /\ GoOn(r, [request[r] EXCEPT !.pc = "assign.commit", !.sweptRoles = members[request[r].user]])

(* The RoleAssigned and RoleRemoved entries. *)
Log(before, after) == <<after \ before, before \ after>>

(* userRole.createMany fails on an equal row that is still there and, by   *)
(* the foreign key, on a role that is gone.                                *)
Insertable(kept, next) == kept \intersect next = {} /\ next \subseteq Present

AssignCommit(r) ==
  /\ At(r, "assign.commit")
  /\ LET u == request[r].user
         next == request[r].next
         kept == members[u] \ request[r].sweptRoles
     IN \/ /\ ~Insertable(kept, next)
           /\ Rollback(r)
        \/ /\ Insertable(kept, next)
           /\ members' = [members EXCEPT ![u] = kept \union next]
           /\ Bump({u})
           /\ logged' = [NothingLogged EXCEPT ![u] = Log(request[r].current, next)]
           /\ Commit(r)
           /\ UNCHANGED <<fresh, deleted, grants, vouched>>

(* Cut off, timed out, refused or picked as the victim of a deadlock before *)
(* its commit: nothing it wrote remains.                                   *)
Abandon(r) == ~Idle(r) /\ Rollback(r)

-----------------------------------------------------------------------------
Start(r, a) ==
  \/ \E x \in Role, keys \in PermissionSets :
       CreateRole(r, a, x, keys) \/ UpdateRole(r, a, x, keys) \/ SetRolePermissions(r, a, x, keys)
  \/ \E x \in Role : DeleteRole(r, a, x)
  \/ \E u \in User, X \in SUBSET Role : SetUserRoles(r, a, u, X)

Statement(r) ==
  \/ CreateActor(r) \/ CreateCommit(r)
  \/ UpdateActor(r) \/ UpdateLock(r) \/ SetActor(r)
  \/ ReplaceSweep(r) \/ ReplaceHolders(r) \/ ReplaceCommit(r)
  \/ DeleteHolders(r) \/ DeleteCommit(r)
  \/ AssignActor(r) \/ AssignRead(r) \/ AssignCount(r) \/ AssignSweep(r) \/ AssignCommit(r)

Next == \E r \in Request : (\E a \in User : Start(r, a)) \/ Statement(r) \/ Abandon(r)

Spec == Init /\ [][Next]_vars

-----------------------------------------------------------------------------
(* Properties *)

TypeOK ==
  /\ fresh \subseteq Role
  /\ deleted \subseteq Role
  /\ grants \in [Role -> SUBSET Permission]
  /\ members \in [User -> SUBSET Role]
  /\ bumped \subseteq User
  /\ request \in [Request -> Requests]
  /\ logged \in [User -> (SUBSET Role) \X (SUBSET Role)]
  /\ vouched \in [Role -> SUBSET Restricted]

(* Whatever races, a role confers a role-management permission only if a   *)
(* super administrator gave it to that role at some time.                  *)
RestrictedVouched == \A x \in Role : grants[x] \intersect Restricted \subseteq vouched[x]

(* "Don't allow removing the final SUPER_ADMIN in the system": over any    *)
(* sequence of assignments and deletions somebody keeps the role.  It      *)
(* holds as long as requests do not overlap.                               *)
AlwaysAnAdministrator == Holders(SuperAdmin) # {}

(* The audit log ("Immutable record of high-value authorization changes")  *)
(* names exactly the assignments that were added and removed; what a       *)
(* deletion takes away is named by its own entry.                          *)
Changed(u) == <<members'[u] \ members[u], members[u] \ members'[u]>>

=============================================================================
