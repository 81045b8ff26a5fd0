----------------------------- MODULE SeedProofs -----------------------------
(***************************************************************************)
(* Theorems about Seed, for any scripts, any part of the registry and any  *)
(* edits.                                                                  *)
(***************************************************************************)
EXTENDS Seed, Functions, FiniteSetTheorems, SequenceTheorems, TLAPS

Places ==
  {"off", "permissions", "role", "existing", "link", "admin", "create", "assign", "done", "failed"}

AfterPermissions == {"role", "existing", "link", "admin", "create", "assign", "done"}

InRoles == {"role", "existing", "link"}

AfterRoles == {"admin", "create", "assign", "done"}

TypeOK ==
  /\ permission \subseteq Keys /\ role \subseteq Role
  /\ link \in [Role -> SUBSET Keys] /\ chosen \in [Role -> SUBSET Keys]
  /\ at \in [Script -> Places] /\ step \in [Script -> Nat]
  /\ missing \in [Script -> SUBSET Keys]
  /\ stripped \in [Script -> SUBSET (Role \X Keys)] /\ dismissed \in [Script -> BOOLEAN]

(* A role of which only what an edit took away is missing. *)
RoleDone(s, r) == r \in role /\ \A k \in Definition(s, r) \ link[r] : <<r, k>> \in stripped[s]

(* What a seed has done by the time it waits where it waits. *)
PermissionsWritten(s) ==
  /\ at[s] = "permissions" =>
       step[s] \in 1..Len(Order(s)) /\ \A i \in 1..(step[s] - 1) : Order(s)[i] \in permission
  /\ at[s] \in AfterPermissions => Catalog(s) \subseteq permission

RolesWritten(s) ==
  /\ at[s] \in InRoles =>
       step[s] \in 1..Len(Roles) /\ \A i \in 1..(step[s] - 1) : RoleDone(s, Roles[i])
  /\ at[s] \in {"existing", "link"} => Roles[step[s]] \in role
  /\ at[s] = "link" =>
       LET r == Roles[step[s]]
       IN /\ missing[s] \subseteq Definition(s, r)
          /\ \A k \in Definition(s, r) \ (link[r] \union missing[s]) : <<r, k>> \in stripped[s]
  /\ at[s] \in AfterRoles => \A r \in Role : RoleDone(s, r)

AdminWritten(s) ==
  /\ at[s] \in {"assign", "done"} => account # "none"
  /\ at[s] = "done" => "SUPER_ADMIN" \in assigned \/ dismissed[s]

Progress == \A s \in Script : PermissionsWritten(s) /\ RolesWritten(s) /\ AdminWritten(s)

-----------------------------------------------------------------------------
(* The registry *)

(* Six more elements leave a set finite. *)
LEMMA SixMore ==
  ASSUME NEW S, IsFiniteSet(S), NEW a, NEW b, NEW c, NEW d, NEW e, NEW f
  PROVE  IsFiniteSet(S \union {a, b, c, d, e, f})
  <1>1. IsFiniteSet(S \union {a})
    BY FS_AddElement
  <1>2. IsFiniteSet((S \union {a}) \union {b})
    BY <1>1, FS_AddElement
  <1>3. IsFiniteSet(((S \union {a}) \union {b}) \union {c})
    BY <1>2, FS_AddElement
  <1>4. IsFiniteSet((((S \union {a}) \union {b}) \union {c}) \union {d})
    BY <1>3, FS_AddElement
  <1>5. IsFiniteSet(((((S \union {a}) \union {b}) \union {c}) \union {d}) \union {e})
    BY <1>4, FS_AddElement
  <1>6. IsFiniteSet((((((S \union {a}) \union {b}) \union {c}) \union {d}) \union {e}) \union {f})
    BY <1>5, FS_AddElement
  <1>7. S \union {a, b, c, d, e, f}
          = (((((S \union {a}) \union {b}) \union {c}) \union {d}) \union {e}) \union {f}
    OBVIOUS
  <1>8. QED BY <1>6, <1>7

(* The registry of permissions is finite: it is written down. *)
LEMMA RegistryFinite == IsFiniteSet(PermissionKeys)
  <1> DEFINE A == {"dashboard.read", "users.read", "orders.read", "orders.update", "orders.cancel", "todos.read"}
             B == {"users.create", "users.update", "users.delete", "users.roles.read", "users.roles.update",
                   "roles.read"}
             C == {"permissions.read", "todos.read_all", "orders.create", "audit.read", "metrics.read",
                   "settings.read"}
             D == {"roles.create", "roles.update", "roles.delete", "todos.create", "todos.update",
                   "todos.delete"}
             E == {"orders.delete", "settings.update", "settings.update", "settings.update",
                   "settings.update", "settings.update"}
  <1>1. IsFiniteSet({} \union A)
    BY SixMore, FS_EmptySet
  <1>2. IsFiniteSet(({} \union A) \union B)
    BY <1>1, SixMore
  <1>3. IsFiniteSet((({} \union A) \union B) \union C)
    BY <1>2, SixMore
  <1>4. IsFiniteSet(((({} \union A) \union B) \union C) \union D)
    BY <1>3, SixMore
  <1>5. IsFiniteSet((((({} \union A) \union B) \union C) \union D) \union E)
    BY <1>4, SixMore
  <1>6. PermissionKeys = (((({} \union A) \union B) \union C) \union D) \union E
    BY DEF PermissionKeys, AdminKeys, ManagerKeys, SupportKeys, ViewerKeys
  <1>7. QED BY <1>5, <1>6

(* The loop over the permissions visits every key of the catalogue. *)
LEMMA OrderIsComplete ==
  ASSUME NEW s \in Script
  PROVE  /\ Len(Order(s)) \in Nat \ {0}
         /\ \A i \in 1..Len(Order(s)) : Order(s)[i] \in Catalog(s)
         /\ \A k \in Catalog(s) : \E i \in 1..Len(Order(s)) : Order(s)[i] = k
         /\ Catalog(s) \subseteq Keys
  <1> DEFINE C == Catalog(s)
             n == Cardinality(C)
             P(q) == \A i, j \in DOMAIN q : i # j => q[i] # q[j]
  <1>1. C \subseteq Keys /\ C # {}
    BY SeedAssumption DEF Catalog, SeedAssumption
  <1>2. IsFiniteSet(C)
    <2>1. C \in SUBSET PermissionKeys
      BY <1>1, SeedAssumption DEF SeedAssumption
    <2>2. QED BY <2>1, RegistryFinite, FS_Subset
  <1> HIDE DEF C
  <1>3. n \in Nat /\ ExistsBijection(1..n, C)
    BY <1>2, FS_CardinalityType
  <1>4. n # 0
    BY <1>1, <1>2, FS_EmptySet
  <1>5. \E q \in [1..n -> C] : P(q)
    <2>1. PICK q : q \in Bijection(1..n, C)
      BY <1>3 DEF ExistsBijection
    <2>2. q \in [1..n -> C] /\ P(q)
      BY <2>1 DEF Bijection, Injection, IsInjective
    <2>3. QED BY <2>2
  <1>6. Order(s) = CHOOSE q \in [1..n -> C] : P(q)
    BY DEF Order, C
  <1> HIDE DEF P
  <1>7. Order(s) \in [1..n -> C] /\ P(Order(s))
    BY <1>5, <1>6
  <1>8. Order(s) \in Injection(1..n, C)
    BY <1>7 DEF P, Injection, IsInjective
  <1>9. IsFiniteSet(1..n) /\ Cardinality(1..n) = n
    BY <1>3, FS_Interval
  <1>10. Order(s) \in Surjection(1..n, C)
    BY <1>2, <1>8, <1>9, FS_Injection
  <1>11. \A k \in C : \E i \in 1..n : Order(s)[i] = k
    BY <1>10 DEF Surjection
  <1>12. Len(Order(s)) = n
    BY <1>3, <1>7, LenProperties, SeqDef
  <1>13. QED BY <1>1, <1>3, <1>4, <1>7, <1>11, <1>12 DEF C

(* The loop over the roles visits SUPER_ADMIN. *)
LEMMA RolesAreComplete ==
  /\ Len(Roles) \in Nat \ {0} /\ DOMAIN Roles = 1..Len(Roles)
  /\ Role = {Roles[i] : i \in 1..Len(Roles)} /\ "SUPER_ADMIN" \in Role
  <1>1. DOMAIN Roles = 1..Len(Roles) /\ Len(Roles) \in Nat
    BY SeedAssumption, LenProperties DEF SeedAssumption
  <1>2. QED BY <1>1, SeedAssumption DEF SeedAssumption, Role

-----------------------------------------------------------------------------
(* The rows *)

(* What any step but the start of s itself leaves of what s has done.      *)
RowsKept(s) ==
  /\ permission \subseteq permission' /\ role \subseteq role'
  /\ account # "none" => account' # "none"
  /\ \A r \in Role, k \in Keys : k \in link[r] => k \in link'[r] \/ <<r, k>> \in stripped'[s]
  /\ stripped[s] \subseteq stripped'[s]
  /\ "SUPER_ADMIN" \in assigned \/ dismissed[s] => "SUPER_ADMIN" \in assigned' \/ dismissed'[s]

(* A role that is complete stays so while rows are kept. *)
LEMMA RoleStaysDone ==
  ASSUME NEW s \in Script, NEW r \in Role, RowsKept(s), RoleDone(s, r)
  PROVE  RoleDone(s, r)'
  <1>1. Definition(s, r) \subseteq Keys
    BY OrderIsComplete DEF Definition
  <1>2. \A k \in Definition(s, r) : k \notin link'[r] => <<r, k>> \in stripped'[s]
    BY <1>1 DEF RowsKept, RoleDone
  <1>3. QED BY <1>2 DEF RowsKept, RoleDone

(* A seed that does not move loses nothing of what it has done. *)
LEMMA SeedWaits ==
  ASSUME NEW s \in Script, RowsKept(s),
         at'[s] = at[s], step'[s] = step[s], missing'[s] = missing[s],
         PermissionsWritten(s), RolesWritten(s), AdminWritten(s)
  PROVE  (PermissionsWritten(s) /\ RolesWritten(s) /\ AdminWritten(s))'
  <1>1. PermissionsWritten(s)'
    BY DEF PermissionsWritten, RowsKept
  <1>2. RolesWritten(s)'
    <2>1. ASSUME at[s] \in InRoles
          PROVE  step[s] \in 1..Len(Roles) /\ \A i \in 1..(step[s] - 1) : RoleDone(s, Roles[i])'
      <3>1. step[s] \in 1..Len(Roles) /\ \A i \in 1..(step[s] - 1) : RoleDone(s, Roles[i])
        BY <2>1 DEF RolesWritten
      <3>2. \A i \in 1..(step[s] - 1) : Roles[i] \in Role
        BY <3>1, RolesAreComplete
      <3>3. QED BY <3>1, <3>2, RoleStaysDone
    <2>2. at[s] \in {"existing", "link"} => Roles[step[s]] \in role'
      BY DEF RolesWritten, RowsKept
    <2>3. ASSUME at[s] = "link"
          PROVE  /\ missing[s] \subseteq Definition(s, Roles[step[s]])
                 /\ \A k \in Definition(s, Roles[step[s]]) \ (link'[Roles[step[s]]] \union missing[s]) :
                      <<Roles[step[s]], k>> \in stripped'[s]
      <3> DEFINE r == Roles[step[s]]
      <3>1. r \in Role
        BY <2>1, <2>3, RolesAreComplete DEF InRoles
      <3>2. Definition(s, r) \subseteq Keys
        BY OrderIsComplete DEF Definition
      <3>3. /\ missing[s] \subseteq Definition(s, r)
            /\ \A k \in Definition(s, r) \ (link[r] \union missing[s]) : <<r, k>> \in stripped[s]
        BY <2>3 DEF RolesWritten
      <3> HIDE DEF r
      <3>4. \A k \in Definition(s, r) \ (link'[r] \union missing[s]) : <<r, k>> \in stripped'[s]
        BY <3>1, <3>2, <3>3 DEF RowsKept
      <3>5. QED BY <3>3, <3>4 DEF r
    <2>4. at[s] \in AfterRoles => \A r \in Role : RoleDone(s, r)'
      BY RoleStaysDone DEF RolesWritten
    <2>5. QED BY <2>1, <2>2, <2>3, <2>4 DEF RolesWritten, RoleDone
  <1>3. AdminWritten(s)'
    BY DEF AdminWritten, RowsKept
  <1>4. QED BY <1>1, <1>2, <1>3

(* No step of another script, of an administrator or of a user undoes      *)
(* what s has done, but an edit that is remembered.                        *)
LEMMA StepKeepsRows ==
  ASSUME TypeOK, SeedNext, NEW s \in Script, ~Start(s)
  PROVE  RowsKept(s)
  <1>1. ASSUME NEW t \in Script, SeedStep(t)
        PROVE  RowsKept(s)
    <2>1. permission \subseteq permission' /\ role \subseteq role' /\ assigned \subseteq assigned'
          /\ (account # "none" => account' # "none")
      BY <1>1 DEF SeedStep, Start, SeedPermission, UpsertRole, ReadLinks, CreateLinks, Refuse, FindAdmin,
                  CreateAdmin, AssignSuperAdmin, Crash, rows, Assigned
    <2>2. stripped'[s] = stripped[s] /\ dismissed'[s] = dismissed[s]
      <3>1. CASE Start(t)
        BY <3>1 DEF Start, TypeOK
      <3>2. CASE ~Start(t)
        BY <1>1, <3>2 DEF SeedStep, SeedPermission, UpsertRole, ReadLinks, CreateLinks, Refuse, FindAdmin,
                          CreateAdmin, AssignSuperAdmin, Crash, ghosts
      <3>3. QED BY <3>1, <3>2
    <2>3. \A r \in Role : link[r] \subseteq link'[r]
      <3>1. CASE CreateLinks(t)
        BY <3>1 DEF CreateLinks, Linked, TypeOK
      <3>2. CASE ~CreateLinks(t)
        BY <1>1, <3>2 DEF SeedStep, Start, SeedPermission, UpsertRole, ReadLinks, Refuse, FindAdmin,
                          CreateAdmin, AssignSuperAdmin, Crash, rows
      <3>3. QED BY <3>1, <3>2
    <2>4. QED BY <2>1, <2>2, <2>3 DEF RowsKept
  <1>2. ASSUME NEW r \in Role, NEW keys \in EditSets, Edit(r, keys)
        PROVE  RowsKept(s)
    <2>1. /\ UNCHANGED <<permission, role, account, assigned, dismissed>>
          /\ link' = [link EXCEPT ![r] = keys]
          /\ stripped' = [t \in Script |-> stripped[t] \union {<<r, k>> : k \in Keys \ keys}]
      BY <1>2 DEF Edit
    <2>2. stripped'[s] = stripped[s] \union {<<r, k>> : k \in Keys \ keys}
      BY <2>1
    <2>3. \A q \in Role, k \in Keys : k \in link[q] => k \in link'[q] \/ <<q, k>> \in stripped'[s]
      <3>1. \A q \in Role : link'[q] = IF q = r THEN keys ELSE link[q]
        BY <2>1 DEF TypeOK
      <3>2. QED BY <2>2, <3>1
    <2>4. QED BY <2>1, <2>2, <2>3 DEF RowsKept
  <1>3. CASE Dismiss \/ Register \/ \E r \in Role : Grant(r)
    BY <1>3 DEF Dismiss, Register, Grant, RowsKept, ghosts
  <1>4. QED BY <1>1, <1>2, <1>3 DEF SeedNext

-----------------------------------------------------------------------------
(* The steps of a seed *)

(* A seed's own step in the first loop. *)
LEMMA PermissionStep ==
  ASSUME TypeOK, NEW s \in Script, PermissionsWritten(s), SeedPermission(s)
  PROVE  (PermissionsWritten(s) /\ RolesWritten(s) /\ AdminWritten(s))'
  <1> DEFINE n == Len(Order(s))
             O(i) == Order(s)[i]
  <1>1. /\ step[s] \in 1..n /\ \A i \in 1..(step[s] - 1) : O(i) \in permission
        /\ permission' = permission \union {O(step[s])}
        /\ at[s] = "permissions"
    BY DEF SeedPermission, PermissionsWritten
  <1>2. n \in Nat \ {0} /\ \A k \in Catalog(s) : \E i \in 1..n : O(i) = k
    BY OrderIsComplete
  <1>3. \A i \in 1..step[s] : O(i) \in permission'
    BY <1>1, <1>2
  <1> HIDE DEF n, O
  <1>4. CASE step[s] = n
    <2>1. at'[s] = "role" /\ step'[s] = 1
      BY <1>4 DEF SeedPermission, Go, TypeOK, n
    <2>2. Catalog(s) \subseteq permission'
      BY <1>2, <1>3, <1>4
    <2>3. PermissionsWritten(s)'
      BY <2>1, <2>2 DEF PermissionsWritten
    <2>4. 1 \in 1..Len(Roles)
      BY RolesAreComplete
    <2>5. QED BY <2>1, <2>3, <2>4 DEF RolesWritten, AdminWritten, InRoles, AfterRoles
  <1>5. CASE step[s] # n
    <2>1. at'[s] = "permissions" /\ step'[s] = step[s] + 1
      BY <1>5 DEF SeedPermission, Go, TypeOK, n
    <2>2. step'[s] \in 1..n /\ \A i \in 1..(step'[s] - 1) : O(i) \in permission'
      BY <1>1, <1>2, <1>3, <1>5, <2>1
    <2>3. PermissionsWritten(s)'
      BY <2>1, <2>2 DEF PermissionsWritten, AfterPermissions, n, O
    <2>4. QED BY <2>1, <2>3 DEF RolesWritten, AdminWritten, InRoles, AfterRoles
  <1>6. QED BY <1>4, <1>5

(* The loop over the roles goes on, or has done every role. *)
LEMMA NextRole ==
  ASSUME TypeOK, NEW s \in Script, RowsKept(s), PermissionsWritten(s), RolesWritten(s),
         at[s] \in {"existing", "link"}, AfterRole(s),
         NEW n \in 1..Len(Roles), n = step[s], RoleDone(s, Roles[n])'
  PROVE  (PermissionsWritten(s) /\ RolesWritten(s) /\ AdminWritten(s))'
  <1>1. /\ step[s] \in 1..Len(Roles) /\ \A i \in 1..(step[s] - 1) : RoleDone(s, Roles[i])
        /\ Catalog(s) \subseteq permission
    BY DEF RolesWritten, PermissionsWritten, InRoles, AfterPermissions
  <1>2. Catalog(s) \subseteq permission'
    BY <1>1 DEF RowsKept
  <1>3. ASSUME NEW i \in 1..n
        PROVE  RoleDone(s, Roles[i])'
    <2>1. CASE i = n
      BY <2>1
    <2>2. CASE i # n
      <3>1. i \in 1..(step[s] - 1) /\ Roles[i] \in Role
        BY <1>1, <2>2, RolesAreComplete
      <3>2. QED BY <1>1, <3>1, RoleStaysDone
    <2>3. QED BY <2>1, <2>2
  <1>4. CASE n = Len(Roles)
    <2>1. at'[s] = "admin"
      BY <1>4 DEF AfterRole, Go, TypeOK
    <2>2. \A r \in Role : RoleDone(s, r)'
      BY <1>3, <1>4, RolesAreComplete
    <2>3. QED BY <1>2, <2>1, <2>2 DEF PermissionsWritten, RolesWritten, AdminWritten, InRoles
  <1>5. CASE n # Len(Roles)
    <2>1. at'[s] = "role" /\ step'[s] = n + 1
      BY <1>5 DEF AfterRole, Go, TypeOK
    <2>2. step'[s] \in 1..Len(Roles) /\ \A i \in 1..(step'[s] - 1) : RoleDone(s, Roles[i])'
      BY <1>3, <1>5, <2>1, RolesAreComplete
    <2>3. QED BY <1>2, <2>1, <2>2 DEF PermissionsWritten, RolesWritten, AdminWritten, AfterRoles
  <1>6. QED BY <1>4, <1>5

(* The loop over the roles keeps what the seed has written. *)
LEMMA RoleStep ==
  ASSUME TypeOK, NEW s \in Script, RowsKept(s), PermissionsWritten(s), RolesWritten(s),
         UpsertRole(s) \/ ReadLinks(s) \/ CreateLinks(s)
  PROVE  (PermissionsWritten(s) /\ RolesWritten(s) /\ AdminWritten(s))'
  <1>1. /\ at[s] \in InRoles /\ step[s] \in 1..Len(Roles)
        /\ \A i \in 1..(step[s] - 1) : RoleDone(s, Roles[i])
        /\ Catalog(s) \subseteq permission
    BY DEF UpsertRole, ReadLinks, CreateLinks, RolesWritten, PermissionsWritten, InRoles, AfterPermissions
  <1>2. Catalog(s) \subseteq permission'
    BY <1>1 DEF RowsKept
  <1>3. PICK n \in 1..Len(Roles) : n = step[s]
    BY <1>1
  <1>4. PICK r \in Role : r = Roles[n]
    BY RolesAreComplete
  <1>5. \A i \in 1..(n - 1) : RoleDone(s, Roles[i])'
    BY <1>1, <1>3, RolesAreComplete, RoleStaysDone
  <1>6. CASE UpsertRole(s)
    <2>1. at'[s] = "existing" /\ step'[s] = n /\ Roles[n] \in role'
      BY <1>3, <1>6 DEF UpsertRole, Go, TypeOK
    <2>2. QED BY <1>2, <1>5, <2>1 DEF PermissionsWritten, RolesWritten, AdminWritten, AfterRoles, InRoles
  <1>7. CASE ReadLinks(s)
    <2>1. /\ at[s] = "existing" /\ missing' = [missing EXCEPT ![s] = Missing(s, r)]
          /\ UNCHANGED <<role, link, stripped>>
          /\ IF Missing(s, r) = {} THEN AfterRole(s) ELSE Go(s, "link", step[s])
      BY <1>3, <1>4, <1>7 DEF ReadLinks, rows, ghosts
    <2>2. missing'[s] = Definition(s, r) \ link[r] /\ r \in role
      BY <1>3, <1>4, <2>1 DEF Missing, TypeOK, RolesWritten
    <2>3. CASE Missing(s, r) = {}
      <3>1. RoleDone(s, r)'
        BY <2>1, <2>2, <2>3 DEF RoleDone, Missing
      <3>2. QED BY <1>3, <1>4, <2>1, <2>3, <3>1, NextRole
    <2>4. CASE Missing(s, r) # {}
      <3>1. at'[s] = "link" /\ step'[s] = n
        BY <1>3, <2>1, <2>4 DEF Go, TypeOK
      <3>2. Roles[step'[s]] = r
        BY <1>4, <3>1
      <3>3. RolesWritten(s)'
        BY <1>4, <1>5, <2>1, <2>2, <3>1, <3>2 DEF RolesWritten, AfterRoles
      <3>4. QED BY <1>2, <3>1, <3>3 DEF PermissionsWritten, AdminWritten
    <2>5. QED BY <2>3, <2>4
  <1>8. CASE CreateLinks(s)
    <2>1. /\ at[s] = "link" /\ AfterRole(s) /\ UNCHANGED <<role, stripped>>
          /\ link' = [link EXCEPT ![r] = link[r] \union missing[s]]
      BY <1>3, <1>4, <1>8 DEF CreateLinks, Linked, ghosts
    <2>2. /\ r \in role
          /\ \A k \in Definition(s, r) \ (link[r] \union missing[s]) : <<r, k>> \in stripped[s]
      BY <1>3, <1>4, <2>1 DEF RolesWritten
    <2>3. RoleDone(s, r)'
      BY <2>1, <2>2 DEF RoleDone, TypeOK
    <2>4. QED BY <1>3, <1>4, <2>1, <2>3, NextRole
  <1>9. QED BY <1>6, <1>7, <1>8

(* A seed that begins has written nothing yet. *)
LEMMA StartStep ==
  ASSUME TypeOK, NEW s \in Script, Start(s)
  PROVE  (PermissionsWritten(s) /\ RolesWritten(s) /\ AdminWritten(s))'
  <1>1. at'[s] = "permissions" /\ step'[s] = 1
    BY DEF Start, Go, TypeOK
  <1>2. 1 \in 1..Len(Order(s))
    BY OrderIsComplete
  <1>3. QED BY <1>1, <1>2 DEF PermissionsWritten, RolesWritten, AdminWritten, AfterPermissions, InRoles,
                              AfterRoles

(* The steps about the first administrator keep it, *)
LEMMA AdminStep ==
  ASSUME TypeOK, NEW s \in Script, RowsKept(s), PermissionsWritten(s), RolesWritten(s), AdminWritten(s),
         Refuse(s) \/ FindAdmin(s) \/ CreateAdmin(s) \/ AssignSuperAdmin(s) \/ Crash(s)
  PROVE  (PermissionsWritten(s) /\ RolesWritten(s) /\ AdminWritten(s))'
  <1>1. CASE at'[s] = "failed"
    BY <1>1 DEF PermissionsWritten, RolesWritten, AdminWritten, AfterPermissions, InRoles, AfterRoles
  <1>2. CASE Refuse(s) \/ Crash(s)
    BY <1>1, <1>2 DEF Refuse, Crash, Go, TypeOK
  <1>3. CASE at[s] \in AfterRoles /\ at'[s] \in AfterRoles
    <2>1. Catalog(s) \subseteq permission /\ \A r \in Role : RoleDone(s, r)
      BY <1>3 DEF PermissionsWritten, RolesWritten, AfterRoles, AfterPermissions
    <2>2. Catalog(s) \subseteq permission' /\ \A r \in Role : RoleDone(s, r)'
      BY <2>1, RoleStaysDone DEF RowsKept
    <2>3. PermissionsWritten(s)' /\ RolesWritten(s)'
      BY <1>3, <2>2 DEF PermissionsWritten, RolesWritten, AfterRoles, InRoles
    <2>4. CASE FindAdmin(s) \/ CreateAdmin(s)
      <3>1. at'[s] # "done" /\ (at'[s] = "assign" => account' # "none")
        BY <2>4 DEF FindAdmin, CreateAdmin, Go, TypeOK, rows
      <3>2. QED BY <2>3, <3>1 DEF AdminWritten
    <2>5. CASE AssignSuperAdmin(s)
      <3>1. account' # "none"
        BY <2>5 DEF AssignSuperAdmin, AdminWritten
      <3>2. "SUPER_ADMIN" \in role
        BY <2>1, RolesAreComplete DEF RoleDone
      <3>3. "SUPER_ADMIN" \in assigned'
        BY <2>5, <3>2 DEF AssignSuperAdmin, Assigned
      <3>4. QED BY <2>3, <3>1, <3>3 DEF AdminWritten
    <2>6. QED BY <1>2, <2>4, <2>5
  <1>4. CASE FindAdmin(s) \/ CreateAdmin(s) \/ AssignSuperAdmin(s)
    <2>1. at[s] \in AfterRoles /\ at'[s] \in AfterRoles \union {"failed"}
      BY <1>4 DEF FindAdmin, CreateAdmin, AssignSuperAdmin, Go, TypeOK, AfterRoles
    <2>2. QED BY <1>1, <1>3, <2>1
  <1>5. QED BY <1>2, <1>4

-----------------------------------------------------------------------------
(* The invariant *)

(* and so does every step of the seed itself, *)
LEMMA OwnStep ==
  ASSUME TypeOK, Progress, NEW s \in Script, SeedStep(s)
  PROVE  (PermissionsWritten(s) /\ RolesWritten(s) /\ AdminWritten(s))'
  <1>1. PermissionsWritten(s) /\ RolesWritten(s) /\ AdminWritten(s)
    BY DEF Progress
  <1>2. CASE Start(s)
    BY <1>2, StartStep
  <1>3. CASE ~Start(s)
    <2>1. RowsKept(s)
      BY <1>3, StepKeepsRows DEF SeedNext
    <2>2. QED BY <1>1, <1>3, <2>1, PermissionStep, RoleStep, AdminStep DEF SeedStep
  <1>4. QED BY <1>2, <1>3

(* and of everybody else, who only add or are remembered. *)
LEMMA OthersStep ==
  ASSUME TypeOK, Progress, SeedNext, NEW s \in Script, ~SeedStep(s)
  PROVE  (PermissionsWritten(s) /\ RolesWritten(s) /\ AdminWritten(s))'
  <1>1. RowsKept(s)
    BY StepKeepsRows DEF SeedStep
  <1>2. at'[s] = at[s] /\ step'[s] = step[s] /\ missing'[s] = missing[s]
    <2>1. ASSUME NEW t \in Script \ {s}, SeedStep(t)
          PROVE  at'[s] = at[s] /\ step'[s] = step[s] /\ missing'[s] = missing[s]
      <3>1. /\ at' \in {at} \union {[at EXCEPT ![t] = p] : p \in Places}
            /\ \E i : step' = [step EXCEPT ![t] = i]
        BY <2>1 DEF SeedStep, Start, SeedPermission, UpsertRole, ReadLinks, CreateLinks, Refuse, FindAdmin,
                    CreateAdmin, AssignSuperAdmin, Crash, Go, AfterRole, Places
      <3>2. missing' = missing \/ \E m : missing' = [missing EXCEPT ![t] = m]
        BY <2>1 DEF SeedStep, Start, SeedPermission, UpsertRole, ReadLinks, CreateLinks, Refuse, FindAdmin,
                    CreateAdmin, AssignSuperAdmin, Crash
      <3>3. QED BY <3>1, <3>2 DEF TypeOK
    <2>2. QED BY <2>1 DEF SeedNext, Edit, Dismiss, Register, Grant
  <1>3. QED BY <1>1, <1>2, SeedWaits DEF Progress

(* Every step keeps the types. *)
LEMMA TypeStep ==
  ASSUME TypeOK, Progress, SeedNext
  PROVE  TypeOK'
  <1>1. ASSUME NEW s \in Script, SeedStep(s)
        PROVE  TypeOK'
    <2>1. PermissionsWritten(s) /\ RolesWritten(s)
      BY DEF Progress
    <2>2. at' \in [Script -> Places] /\ step' \in [Script -> Nat]
      <3>1. step[s] \in Nat /\ step[s] + 1 \in Nat
        BY DEF TypeOK
      <3>2. \E p \in Places, i \in Nat : Go(s, p, i)
        BY <1>1, <3>1 DEF SeedStep, Start, SeedPermission, UpsertRole, ReadLinks, CreateLinks, Refuse,
                          FindAdmin, CreateAdmin, AssignSuperAdmin, Crash, AfterRole, Places
      <3>3. QED BY <3>2 DEF Go, TypeOK
    <2>3. permission' \subseteq Keys
      <3>1. CASE SeedPermission(s)
        <4>1. Order(s)[step[s]] \in Keys
          BY <2>1, <3>1, OrderIsComplete DEF SeedPermission, PermissionsWritten
        <4>2. QED BY <3>1, <4>1 DEF SeedPermission, TypeOK
      <3>2. CASE ~SeedPermission(s)
        BY <1>1, <3>2 DEF SeedStep, Start, UpsertRole, ReadLinks, CreateLinks, Refuse, FindAdmin, CreateAdmin,
                          AssignSuperAdmin, Crash, rows, TypeOK
      <3>3. QED BY <3>1, <3>2
    <2>4. role' \subseteq Role
      <3>1. CASE UpsertRole(s)
        <4>1. Roles[step[s]] \in Role
          BY <2>1, <3>1, RolesAreComplete DEF UpsertRole, RolesWritten, InRoles
        <4>2. QED BY <3>1, <4>1 DEF UpsertRole, TypeOK
      <3>2. CASE ~UpsertRole(s)
        BY <1>1, <3>2 DEF SeedStep, Start, SeedPermission, ReadLinks, CreateLinks, Refuse, FindAdmin,
                          CreateAdmin, AssignSuperAdmin, Crash, rows, TypeOK
      <3>3. QED BY <3>1, <3>2
    <2>5. link' \in [Role -> SUBSET Keys] /\ missing' \in [Script -> SUBSET Keys]
      <3>1. CASE CreateLinks(s)
        <4>1. missing[s] \subseteq Keys /\ \A r \in Role : link[r] \subseteq Keys
          BY DEF TypeOK
        <4>2. QED BY <3>1, <4>1 DEF CreateLinks, Linked, TypeOK
      <3>2. CASE ReadLinks(s)
        <4>1. \A r : Missing(s, r) \subseteq Keys
          BY OrderIsComplete DEF Missing, Definition
        <4>2. QED BY <3>2, <4>1 DEF ReadLinks, rows, TypeOK
      <3>3. CASE ~CreateLinks(s) /\ ~ReadLinks(s)
        BY <1>1, <3>3 DEF SeedStep, Start, SeedPermission, UpsertRole, Refuse, FindAdmin, CreateAdmin,
                          AssignSuperAdmin, Crash, rows, TypeOK
      <3>4. QED BY <3>1, <3>2, <3>3
    <2>6. /\ chosen' = chosen /\ stripped' \in [Script -> SUBSET (Role \X Keys)]
          /\ dismissed' \in [Script -> BOOLEAN]
      BY <1>1 DEF SeedStep, Start, SeedPermission, UpsertRole, ReadLinks, CreateLinks, Refuse, FindAdmin,
                  CreateAdmin, AssignSuperAdmin, Crash, ghosts, TypeOK
    <2>7. QED BY <2>2, <2>3, <2>4, <2>5, <2>6 DEF TypeOK
  <1>2. ASSUME NEW r \in Role, NEW keys \in EditSets, Edit(r, keys)
        PROVE  TypeOK'
    <2>1. /\ keys \subseteq Keys /\ UNCHANGED <<permission, role, at, step, missing, dismissed>>
          /\ link' = [link EXCEPT ![r] = keys] /\ chosen' = [chosen EXCEPT ![r] = keys]
          /\ stripped' = [s \in Script |-> stripped[s] \union {<<r, k>> : k \in Keys \ keys}]
      BY <1>2 DEF Edit, TypeOK
    <2>2. stripped' \in [Script -> SUBSET (Role \X Keys)]
      BY <2>1 DEF TypeOK
    <2>3. QED BY <2>1, <2>2 DEF TypeOK
  <1>3. CASE Dismiss \/ Register \/ \E r \in Role : Grant(r)
    BY <1>3 DEF Dismiss, Register, Grant, ghosts, TypeOK
  <1>4. QED BY <1>1, <1>2, <1>3 DEF SeedNext

(* No step undoes an operator's choice. *)
LEMMA ChoiceStep ==
  ASSUME TypeOK, Progress, OperatorsChoiceKept, SeedNext
  PROVE  OperatorsChoiceKept'
  <1>1. CASE \E s \in Script : CreateLinks(s)
    <2>1. PICK s \in Script : CreateLinks(s)
      BY <1>1
    <2>2. /\ chosen' = chosen
          /\ link' = [link EXCEPT ![Roles[step[s]]] = link[Roles[step[s]]] \union missing[s]]
          /\ missing[s] \subseteq Definition(s, Roles[step[s]])
      BY <2>1 DEF CreateLinks, Linked, ghosts, Progress, RolesWritten
    <2>3. ASSUME NEW r \in Role
          PROVE  link[r] \subseteq link'[r] /\ link'[r] \subseteq link[r] \union Definition(s, r)
      BY <2>2 DEF TypeOK
    <2>4. QED BY <2>2, <2>3 DEF OperatorsChoiceKept
  <1>2. CASE \E r \in Role, keys \in EditSets : Edit(r, keys)
    BY <1>2 DEF Edit, OperatorsChoiceKept, TypeOK
  <1>3. CASE UNCHANGED <<link, chosen>>
    BY <1>3 DEF OperatorsChoiceKept
  <1>4. QED BY <1>1, <1>2, <1>3
            DEF SeedNext, SeedStep, Start, SeedPermission, UpsertRole, ReadLinks, Refuse, FindAdmin,
                CreateAdmin, AssignSuperAdmin, Crash, Dismiss, Register, Grant, rows, ghosts

(* Before the first seed there is nothing to break. *)
LEMMA InitOK == SeedInit => TypeOK /\ Progress /\ OperatorsChoiceKept
  BY DEF SeedInit, TypeOK, Places, Progress, PermissionsWritten, RolesWritten, AdminWritten,
         AfterPermissions, InRoles, AfterRoles, OperatorsChoiceKept

(* Nor does a step that changes nothing. *)
LEMMA Stutter ==
  ASSUME TypeOK, Progress, OperatorsChoiceKept, UNCHANGED vars
  PROVE  (TypeOK /\ Progress /\ OperatorsChoiceKept)'
  BY DEF vars, rows, ghosts, TypeOK, Progress, PermissionsWritten, RolesWritten, AdminWritten, RoleDone,
         OperatorsChoiceKept

(* The invariant holds throughout. *)
LEMMA Invariance == SeedSpec => [](TypeOK /\ Progress /\ OperatorsChoiceKept)
  <1>1. ASSUME TypeOK, Progress, OperatorsChoiceKept, SeedNext
        PROVE  (TypeOK /\ Progress /\ OperatorsChoiceKept)'
    <2>1. Progress'
      BY <1>1, OwnStep, OthersStep DEF Progress
    <2>2. QED BY <1>1, <2>1, TypeStep, ChoiceStep
  <1>2. TypeOK /\ Progress /\ OperatorsChoiceKept /\ [SeedNext]_vars
          => (TypeOK /\ Progress /\ OperatorsChoiceKept)'
    BY <1>1, Stutter
  <1>3. QED BY InitOK, <1>2, PTL DEF SeedSpec

(* prisma/seed.ts: a seed that reports that it is complete left the        *)
(* catalogue, every role with its links, and an administrator, however     *)
(* many seeds ran, died and were repeated beside it.                       *)
THEOREM SeedCompletes == SeedSpec => []DoneIsComplete
  <1>1. TypeOK /\ Progress => DoneIsComplete
    BY DEF Progress, PermissionsWritten, RolesWritten, AdminWritten, AfterPermissions, AfterRoles, RoleDone,
           DoneIsComplete, Complete
  <1>2. QED BY <1>1, Invariance, PTL

(* The links an operator chose stay, and the seed adds only its own.       *)
THEOREM ChoiceKept == SeedSpec => []OperatorsChoiceKept
  BY Invariance, PTL

=============================================================================
