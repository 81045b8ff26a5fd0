---------------------------- MODULE RolesProofs ----------------------------
(***************************************************************************)
(* Theorems about Roles, for any number of accounts, roles, permissions    *)
(* and concurrent requests.                                                *)
(***************************************************************************)
EXTENDS MCRoles, TLAPS

(* What a handler holds at each statement: the rows it is about, and what  *)
(* its checks have left of the ways on.                                    *)
ActorLabels == {"create.actor", "update.actor", "set.actor", "assign.actor"}
CheckedLabels == {"create.commit", "update.lock", "replace.sweep", "replace.holders",
                  "replace.commit"}
DeleteLabels == {"delete.holders", "delete.commit"}
RoleLabels == {"create.actor", "update.actor", "set.actor"} \union CheckedLabels
                \union DeleteLabels
WritingLabels == {"assign.count", "assign.sweep", "assign.commit"}
AssignLabels == {"assign.actor", "assign.read"} \union WritingLabels

Ready(q) ==
  /\ q.pc \in ActorLabels => q.actor \in User
  /\ q.pc \in RoleLabels => q.role \in Role
  /\ q.pc \in DeleteLabels => q.role \notin SystemRole
  /\ q.pc \in AssignLabels => q.user \in User
  /\ q.pc \in CheckedLabels => CanDelegate(q.keys, q.admin)
  /\ q.pc \in WritingLabels => MayChange(q.current, q.next, q.admin)

(* The foreign keys and their cascades: a role that is gone is assigned to *)
(* nobody and confers nothing.                                             *)
RowsResolve ==
  /\ \A u \in User : members[u] \subseteq Present
  /\ \A x \in Role \ Present : grants[x] = {}

HandlersReady == \A r \in Request : Ready(request[r])

Inv ==
  /\ TypeOK
  /\ fresh \intersect deleted = {}
  /\ RestrictedVouched
  /\ RowsResolve
  /\ HandlersReady

USE RolesAssumption DEF RolesAssumption

-----------------------------------------------------------------------------
(* An idle record is a request. *)
LEMMA IdleRequestType == IdleRequest \in Requests
  BY DEF IdleRequest, Requests, Labels

(* Nothing need be said about an idle handler.                             *)
LEMMA IdleRequestReady == Ready(IdleRequest)
  BY DEF IdleRequest, Ready, ActorLabels, CheckedLabels, DeleteLabels, RoleLabels,
         WritingLabels, AssignLabels

(* An empty log entry has the type of one.                                 *)
LEMMA NothingLoggedType == NothingLogged \in [User -> (SUBSET Role) \X (SUBSET Role)]
  BY DEF NothingLogged

(* What the seed leaves behind satisfies the invariant.                    *)
LEMMA InitInv == Init => Inv
  <1> SUFFICES ASSUME Init PROVE Inv
    OBVIOUS
  <1>1. request \in [Request -> Requests] /\ HandlersReady
    BY IdleRequestType, IdleRequestReady DEF Init, HandlersReady
  <1>2. fresh \subseteq Role /\ deleted = {} /\ members \in [User -> SUBSET (Role \ fresh)]
    BY DEF Init
  <1>3. grants \in [Role -> SUBSET Permission] /\ \A x \in fresh : grants[x] = {}
    BY <1>2 DEF Init
  <1>4. vouched \in [Role -> SUBSET Restricted] /\ RestrictedVouched
    BY <1>3 DEF Init, RestrictedVouched
  <1>6. logged \in [User -> (SUBSET Role) \X (SUBSET Role)] /\ bumped \subseteq User
    BY NothingLoggedType DEF Init
  <1>7. RowsResolve
    BY <1>2, <1>3 DEF RowsResolve, Present
  <1>8. members \in [User -> SUBSET Role]
    BY <1>2
  <1>9. QED BY <1>1, <1>2, <1>3, <1>4, <1>6, <1>7, <1>8 DEF Inv, TypeOK

-----------------------------------------------------------------------------
(* Steps that only read. *)

(* Request r becomes some record that is ready at a label of L; nothing    *)
(* else changes.                                                           *)
Reads(r, L) ==
  /\ \E q \in Requests : q.pc \in L /\ Ready(q) /\ request' = [request EXCEPT ![r] = q]
  /\ NoEffects
  /\ UNCHANGED <<tables, history>>

(* Where a handler is about to write what its reads decided. *)
LateLabels == WritingLabels \union {"replace.commit", "delete.commit"}

Before == Labels \ LateLabels

(* A step that only reads keeps the invariant.                             *)
LEMMA ReadKeeps ==
  ASSUME Inv, NEW r \in Request, NEW L, Reads(r, L)
  PROVE  Inv'
  <1>1. PICK q \in Requests : Ready(q) /\ request' = [request EXCEPT ![r] = q]
    BY DEF Reads
  <1>2. UNCHANGED <<fresh, deleted, grants, members, vouched>>
    BY DEF Reads, tables, history
  <1>3. bumped' = {} /\ logged' \in [User -> (SUBSET Role) \X (SUBSET Role)]
    BY NothingLoggedType DEF Reads, NoEffects, LogNothing
  <1>4. request' \in [Request -> Requests]
    BY <1>1 DEF Inv, TypeOK
  <1>5. HandlersReady'
    <2> SUFFICES ASSUME NEW s \in Request PROVE Ready(request[s])'
      BY DEF HandlersReady
    <2>1. Ready(request'[s])
      BY <1>1 DEF Inv, TypeOK, HandlersReady
    <2>2. QED BY <1>2, <2>1 DEF Ready
  <1>6. TypeOK'
    BY <1>2, <1>3, <1>4 DEF Inv, TypeOK
  <1>7. RestrictedVouched' /\ RowsResolve'
    BY <1>2 DEF Inv, RestrictedVouched, RowsResolve, Present
  <1>8. QED BY <1>2, <1>5, <1>6, <1>7 DEF Inv

(* A transaction rolled back changes nothing.                              *)
LEMMA RollbackReads ==
  ASSUME NEW r \in Request, Rollback(r)
  PROVE  Reads(r, Before)
  <1>1. IdleRequest.pc \in Before
    BY DEF IdleRequest, Before, Labels, LateLabels, WritingLabels
  <1>2. QED BY <1>1, IdleRequestType, IdleRequestReady DEF Rollback, Reads

(* A handler about a role begins. *)
LEMMA RoleRequest ==
  ASSUME NEW label \in {"create.actor", "update.actor", "set.actor"},
         NEW a \in User, NEW x \in Role, NEW keys \in SUBSET Permission
  PROVE  LET q == [IdleRequest EXCEPT !.pc = label, !.actor = a, !.role = x, !.keys = keys]
         IN q \in Requests /\ q.pc \in Before /\ Ready(q)
  <1>1. ASSUME NEW i \in Requests
        PROVE  LET q == [i EXCEPT !.pc = label, !.actor = a, !.role = x, !.keys = keys]
               IN /\ q \in Requests
                  /\ q.pc = label /\ q.actor = a /\ q.role = x
    BY DEF Requests, Labels
  <1> DEFINE q == [IdleRequest EXCEPT !.pc = label, !.actor = a, !.role = x, !.keys = keys]
  <1>2. q \in Requests /\ q.pc = label /\ q.actor = a /\ q.role = x
    BY <1>1, IdleRequestType
  <1> HIDE DEF q
  <1>3. Ready(q)
    BY <1>2 DEF Ready, ActorLabels, CheckedLabels, DeleteLabels, RoleLabels,
                WritingLabels, AssignLabels
  <1>4. q.pc \in Before
    BY <1>2 DEF Before, Labels, LateLabels, WritingLabels
  <1>5. QED BY <1>2, <1>3, <1>4 DEF q

(* Every handler begins with a read.                                       *)
LEMMA StartReads ==
  ASSUME NEW r \in Request, NEW a \in User, Start(r, a)
  PROVE  Reads(r, Before)
  <1>1. ASSUME NEW x \in Role, NEW keys \in PermissionSets,
               CreateRole(r, a, x, keys) \/ UpdateRole(r, a, x, keys)
                 \/ SetRolePermissions(r, a, x, keys)
        PROVE  Reads(r, Before)
    <2>1. keys \in SUBSET Permission
      BY <1>1 DEF CreateRole, UpdateRole, SetRolePermissions, ValidKeys
    <2>2. PICK label \in {"create.actor", "update.actor", "set.actor"} :
            /\ request' = [request EXCEPT ![r] =
                 [IdleRequest EXCEPT !.pc = label, !.actor = a, !.role = x, !.keys = keys]]
            /\ NoEffects /\ UNCHANGED <<tables, history>>
      BY <1>1 DEF CreateRole, UpdateRole, SetRolePermissions, Begin
    <2>3. QED BY <2>1, <2>2, RoleRequest DEF Reads
  <1>2. ASSUME NEW x \in Role, DeleteRole(r, a, x)
        PROVE  Reads(r, Before)
    <2> DEFINE q == [IdleRequest EXCEPT !.pc = "delete.holders", !.role = x]
    <2>1. ASSUME NEW i \in Requests
          PROVE  LET p == [i EXCEPT !.pc = "delete.holders", !.role = x]
                 IN p \in Requests /\ p.pc = "delete.holders" /\ p.role = x
      BY DEF Requests, Labels
    <2>2. q \in Requests /\ q.pc = "delete.holders" /\ q.role = x
      BY <2>1, IdleRequestType
    <2>3. request' = [request EXCEPT ![r] = q] /\ NoEffects /\ UNCHANGED <<tables, history>>
      BY <1>2 DEF DeleteRole, Begin
    <2>4. x \notin SystemRole
      BY <1>2 DEF DeleteRole
    <2> HIDE DEF q
    <2>5. Ready(q)
      BY <2>2, <2>4 DEF Ready, ActorLabels, CheckedLabels, DeleteLabels, RoleLabels,
                        WritingLabels, AssignLabels
    <2>6. QED BY <2>2, <2>3, <2>5 DEF Reads, Before, Labels, LateLabels, WritingLabels
  <1>3. ASSUME NEW u \in User, NEW X \in SUBSET Role, SetUserRoles(r, a, u, X)
        PROVE  Reads(r, Before)
    <2> DEFINE q == [IdleRequest EXCEPT !.pc = "assign.actor", !.actor = a, !.user = u,
                                        !.next = X]
    <2>1. ASSUME NEW i \in Requests
          PROVE  LET p == [i EXCEPT !.pc = "assign.actor", !.actor = a, !.user = u,
                                    !.next = X]
                 IN /\ p \in Requests
                    /\ p.pc = "assign.actor" /\ p.actor = a /\ p.user = u
      BY DEF Requests, Labels
    <2>2. q \in Requests /\ q.pc = "assign.actor" /\ q.actor = a /\ q.user = u
      BY <2>1, IdleRequestType
    <2>3. request' = [request EXCEPT ![r] = q] /\ NoEffects /\ UNCHANGED <<tables, history>>
      BY <1>3 DEF SetUserRoles, Begin
    <2> HIDE DEF q
    <2>4. Ready(q)
      BY <2>2 DEF Ready, ActorLabels, CheckedLabels, DeleteLabels, RoleLabels,
                  WritingLabels, AssignLabels
    <2>5. QED BY <2>2, <2>3, <2>4 DEF Reads, Before, Labels, LateLabels, WritingLabels
  <1>4. QED BY <1>1, <1>2, <1>3 DEF Start

(* The records these statements leave behind. *)
Ranked(i, label, b) == [[i EXCEPT !.admin = b, !.actor = NoUser] EXCEPT !.pc = label]
Locking(i, label) == [i EXCEPT !.pc = label, !.locked = TRUE]
Sweeping(i, label, K) == [i EXCEPT !.pc = label, !.sweptKeys = K]
Holding(i, label, H) == [i EXCEPT !.pc = label, !.holders = H]
Looking(i, label, X) == [i EXCEPT !.current = X, !.pc = label]
Counting(i, label) == [i EXCEPT !.pc = label]
Clearing(i, label, X) == [i EXCEPT !.pc = label, !.sweptRoles = X]

(* q is at label and is about what i is about. *)
Moved(i, q, label) ==
  /\ q \in Requests
  /\ q.pc = label
  /\ q.user = i.user /\ q.role = i.role
  /\ q.keys = i.keys /\ q.next = i.next

(* After the caller's rank was read, a record is about the same rows.      *)
LEMMA RankedType ==
  ASSUME NEW i \in Requests, NEW label \in Labels, NEW b \in BOOLEAN
  PROVE  Moved(i, Ranked(i, label, b), label) /\ Ranked(i, label, b).admin = b
  BY DEF Ranked, Moved, Requests

(* So it is after the role row was locked,                                 *)
LEMMA LockingType ==
  ASSUME NEW i \in Requests, NEW label \in Labels
  PROVE  Moved(i, Locking(i, label), label) /\ Locking(i, label).admin = i.admin
  BY DEF Locking, Moved, Requests

(* after the role's permissions were deleted,                              *)
LEMMA SweepingType ==
  ASSUME NEW i \in Requests, NEW label \in Labels, NEW K \in SUBSET Permission
  PROVE  Moved(i, Sweeping(i, label, K), label) /\ Sweeping(i, label, K).admin = i.admin
  BY DEF Sweeping, Moved, Requests

(* after the role's holders were read,                                     *)
LEMMA HoldingType ==
  ASSUME NEW i \in Requests, NEW label \in Labels, NEW H \in SUBSET User
  PROVE  /\ Moved(i, Holding(i, label, H), label) /\ Holding(i, label, H).admin = i.admin
         /\ Holding(i, label, H).holders = H
  BY DEF Holding, Moved, Requests

(* after the user's roles were read,                                       *)
LEMMA LookingType ==
  ASSUME NEW i \in Requests, NEW label \in Labels, NEW X \in SUBSET Role
  PROVE  /\ Moved(i, Looking(i, label, X), label) /\ Looking(i, label, X).admin = i.admin
         /\ Looking(i, label, X).current = X
  BY DEF Looking, Moved, Requests

(* after the administrators were counted,                                  *)
LEMMA CountingType ==
  ASSUME NEW i \in Requests, NEW label \in Labels
  PROVE  /\ Moved(i, Counting(i, label), label) /\ Counting(i, label).admin = i.admin
         /\ Counting(i, label).current = i.current
  BY DEF Counting, Moved, Requests

(* after the user's roles were deleted,                                    *)
LEMMA ClearingType ==
  ASSUME NEW i \in Requests, NEW label \in Labels, NEW X \in SUBSET Role
  PROVE  /\ Moved(i, Clearing(i, label, X), label) /\ Clearing(i, label, X).admin = i.admin
         /\ Clearing(i, label, X).current = i.current /\ Clearing(i, label, X).sweptRoles = X
  BY DEF Clearing, Moved, Requests

(* The statements that read the caller's rank. *)
LEMMA ActorReads ==
  ASSUME Inv, NEW r \in Request,
         CreateActor(r) \/ UpdateActor(r) \/ SetActor(r) \/ AssignActor(r)
  PROVE  Reads(r, Before)
  <1>0. request[r] \in Requests /\ Ready(request[r])
    BY DEF Inv, TypeOK, HandlersReady
  <1>1. ASSUME NEW label \in {"create.commit", "update.lock", "replace.sweep"},
               request[r].role \in Role,
               CanDelegate(request[r].keys, IsSuperAdmin(request[r].actor)),
               GoOn(r, [ReadActor(r) EXCEPT !.pc = label])
        PROVE  Reads(r, Before)
    <2> DEFINE q == Ranked(request[r], label, IsSuperAdmin(request[r].actor))
    <2>1. label \in Labels /\ IsSuperAdmin(request[r].actor) \in BOOLEAN
      BY DEF Labels, IsSuperAdmin
    <2>2. Moved(request[r], q, label) /\ q.admin = IsSuperAdmin(request[r].actor)
      BY <1>0, <2>1, RankedType
    <2>3. GoOn(r, q)
      BY <1>1 DEF ReadActor, Ranked
    <2> HIDE DEF q
    <2>4. Ready(q)
      BY <1>1, <2>2 DEF Moved, Ready, ActorLabels, CheckedLabels, DeleteLabels, RoleLabels,
                        WritingLabels, AssignLabels
    <2>5. QED BY <2>2, <2>3, <2>4 DEF GoOn, Moved, Reads, Before, Labels, LateLabels, WritingLabels
  <1>2. CASE CreateActor(r)
    <2>1. request[r].role \in Role
      BY <1>0, <1>2 DEF CreateActor, At, Ready, RoleLabels
    <2>2. QED BY <1>1, <1>2, <2>1 DEF CreateActor
  <1>3. CASE UpdateActor(r)
    <2>1. request[r].role \in Role
      BY <1>0, <1>3 DEF UpdateActor, ReplaceActor, At, Ready, RoleLabels
    <2>2. QED BY <1>1, <1>3, <2>1 DEF UpdateActor, ReplaceActor, MayModify
  <1>4. CASE SetActor(r)
    <2>1. request[r].role \in Role
      BY <1>0, <1>4 DEF SetActor, ReplaceActor, At, Ready, RoleLabels
    <2>2. QED BY <1>1, <1>4, <2>1 DEF SetActor, ReplaceActor, MayModify
  <1>5. CASE AssignActor(r)
    <2> DEFINE q == Ranked(request[r], "assign.read", IsSuperAdmin(request[r].actor))
    <2>1. "assign.read" \in Labels /\ IsSuperAdmin(request[r].actor) \in BOOLEAN
      BY DEF Labels, IsSuperAdmin
    <2>2. Moved(request[r], q, "assign.read")
      BY <1>0, <2>1, RankedType
    <2>3. request[r].user \in User
      BY <1>0, <1>5 DEF AssignActor, At, Ready, AssignLabels
    <2>4. GoOn(r, q)
      BY <1>5 DEF AssignActor, ReadActor, Ranked
    <2> HIDE DEF q
    <2>5. Ready(q)
      BY <2>2, <2>3 DEF Moved, Ready, ActorLabels, CheckedLabels, DeleteLabels, RoleLabels,
                        WritingLabels, AssignLabels
    <2>6. QED BY <2>2, <2>4, <2>5 DEF GoOn, Moved, Reads, Before, Labels, LateLabels, WritingLabels
  <1>6. QED BY <1>2, <1>3, <1>4, <1>5

(* The statements of a transaction on a role that only read. *)
LEMMA RoleReads ==
  ASSUME Inv, NEW r \in Request, UpdateLock(r) \/ ReplaceSweep(r)
  PROVE  Reads(r, Before)
  <1>1. request[r] \in Requests /\ Ready(request[r])
    BY DEF Inv, TypeOK, HandlersReady
  <1>2. ASSUME NEW label \in {"replace.sweep", "replace.holders"},
               request[r].pc \in CheckedLabels,
               NEW q, Moved(request[r], q, label), q.admin = request[r].admin, GoOn(r, q)
        PROVE  Reads(r, Before)
    <2>1. Ready(q)
      BY <1>1, <1>2 DEF Moved, Ready, ActorLabels, CheckedLabels, DeleteLabels, RoleLabels,
                        WritingLabels, AssignLabels
    <2>2. QED BY <1>2, <2>1 DEF GoOn, Moved, Reads, Before, Labels, LateLabels, WritingLabels
  <1>3. CASE UpdateLock(r)
    <2>1. CASE request[r].role \in Present
      <3>1. "replace.sweep" \in Labels /\ request[r].pc \in CheckedLabels
        BY <1>3 DEF UpdateLock, At, CheckedLabels, Labels
      <3>2. GoOn(r, Locking(request[r], "replace.sweep"))
        BY <1>3, <2>1 DEF UpdateLock, Locking
      <3>3. QED BY <1>1, <1>2, <3>1, <3>2, LockingType
    <2>2. CASE request[r].role \notin Present
      BY <1>3, <2>2, RollbackReads DEF UpdateLock
    <2>3. QED BY <2>1, <2>2
  <1>4. CASE ReplaceSweep(r)
    <2>1. "replace.holders" \in Labels /\ request[r].pc \in CheckedLabels
      BY <1>4 DEF ReplaceSweep, At, CheckedLabels, Labels
    <2>2. request[r].role \in Role
      BY <1>1, <2>1 DEF Ready, RoleLabels
    <2>3. grants[request[r].role] \in SUBSET Permission
      BY <2>2 DEF Inv, TypeOK
    <2>4. GoOn(r, Sweeping(request[r], "replace.holders", grants[request[r].role]))
      BY <1>4 DEF ReplaceSweep, Sweeping
    <2>5. QED BY <1>1, <1>2, <2>1, <2>3, <2>4, SweepingType
  <1>5. QED BY <1>3, <1>4

(* The statements that read who holds the role, with what they find. *)
LEMMA HoldersReads ==
  ASSUME Inv, NEW r \in Request, ReplaceHolders(r) \/ DeleteHolders(r)
  PROVE  /\ Reads(r, Labels)
         /\ request'[r].pc \in {"replace.commit", "delete.commit"}
         /\ request'[r].role = request[r].role
         /\ request'[r].holders = Holders(request[r].role)
  <1>1. request[r] \in Requests /\ Ready(request[r])
    BY DEF Inv, TypeOK, HandlersReady
  <1>2. Holders(request[r].role) \in SUBSET User
    BY DEF Holders
  <1>3. CASE ReplaceHolders(r)
    <2> DEFINE q == Holding(request[r], "replace.commit", Holders(request[r].role))
    <2>1. "replace.commit" \in Labels /\ request[r].pc \in CheckedLabels
      BY <1>3 DEF ReplaceHolders, At, CheckedLabels, Labels
    <2>2. /\ Moved(request[r], q, "replace.commit") /\ q.admin = request[r].admin
          /\ q.holders = Holders(request[r].role)
      BY <1>1, <1>2, <2>1, HoldingType
    <2>3. GoOn(r, q)
      BY <1>3 DEF ReplaceHolders, Holding
    <2> HIDE DEF q
    <2>4. Ready(q)
      BY <1>1, <2>1, <2>2 DEF Moved, Ready, ActorLabels, CheckedLabels, DeleteLabels,
                              RoleLabels, WritingLabels, AssignLabels
    <2>5. request'[r] = q
      BY <2>3 DEF GoOn, Inv, TypeOK
    <2>6. QED BY <2>1, <2>2, <2>3, <2>4, <2>5 DEF GoOn, Moved, Reads
  <1>4. CASE DeleteHolders(r)
    <2> DEFINE q == Holding(request[r], "delete.commit", Holders(request[r].role))
    <2>1. "delete.commit" \in Labels
      BY DEF Labels
    <2>2. /\ Moved(request[r], q, "delete.commit")
          /\ q.holders = Holders(request[r].role)
      BY <1>1, <1>2, <2>1, HoldingType
    <2>3. request[r].role \in Role \ SystemRole
      BY <1>1, <1>4 DEF DeleteHolders, At, Ready, RoleLabels, DeleteLabels
    <2>4. GoOn(r, q)
      BY <1>4 DEF DeleteHolders, Holding
    <2> HIDE DEF q
    <2>5. Ready(q)
      BY <2>2, <2>3 DEF Moved, Ready, ActorLabels, CheckedLabels, DeleteLabels, RoleLabels,
                        WritingLabels, AssignLabels
    <2>6. request'[r] = q
      BY <2>4 DEF GoOn, Inv, TypeOK
    <2>7. QED BY <2>1, <2>2, <2>4, <2>5, <2>6 DEF GoOn, Moved, Reads
  <1>5. QED BY <1>3, <1>4

(* The statements of an assignment that only read: past its checks it      *)
(* holds roles that its caller may replace by those asked for.             *)
LEMMA AssignReads ==
  ASSUME Inv, NEW r \in Request, AssignRead(r) \/ AssignCount(r) \/ AssignSweep(r)
  PROVE  Reads(r, Labels)
  <1>1. request[r] \in Requests /\ Ready(request[r])
    BY DEF Inv, TypeOK, HandlersReady
  <1>2. request[r].user \in User
    BY <1>1 DEF AssignRead, AssignCount, AssignSweep, At, Ready, AssignLabels, WritingLabels
  <1>3. members[request[r].user] \in SUBSET Role
    BY <1>2 DEF Inv, TypeOK
  <1>4. WritingLabels \subseteq Labels
    BY DEF WritingLabels, Labels
  <1>5. ASSUME NEW label \in WritingLabels, NEW q, Moved(request[r], q, label),
               q.admin = request[r].admin, GoOn(r, q),
               MayChange(q.current, request[r].next, request[r].admin)
        PROVE  Reads(r, Labels)
    <2>1. Ready(q)
      BY <1>2, <1>5 DEF Moved, Ready, ActorLabels, CheckedLabels, DeleteLabels, RoleLabels,
                        WritingLabels, AssignLabels
    <2>2. QED BY <1>5, <2>1 DEF GoOn, Moved, Reads, Requests
  <1>6. CASE AssignRead(r)
    <2>1. PICK label \in WritingLabels :
            GoOn(r, Looking(request[r], label, members[request[r].user]))
      <3>1. CASE Removes(members[request[r].user], request[r].next)
        BY <1>6, <3>1 DEF AssignRead, WritingLabels, Looking
      <3>2. CASE ~Removes(members[request[r].user], request[r].next)
        BY <1>6, <3>2 DEF AssignRead, WritingLabels, Looking
      <3>3. QED BY <3>1, <3>2
    <2>2. MayChange(members[request[r].user], request[r].next, request[r].admin)
      BY <1>6 DEF AssignRead
    <2>3. QED BY <1>1, <1>3, <1>4, <1>5, <2>1, <2>2, LookingType
  <1>7. CASE AssignCount(r)
    <2>1. MayChange(request[r].current, request[r].next, request[r].admin)
      BY <1>1, <1>7 DEF AssignCount, At, Ready, WritingLabels
    <2>2. "assign.sweep" \in WritingLabels
      BY DEF WritingLabels
    <2>3. GoOn(r, Counting(request[r], "assign.sweep"))
      BY <1>7 DEF AssignCount, Counting
    <2>4. QED BY <1>1, <1>4, <1>5, <2>1, <2>2, <2>3, CountingType
  <1>8. CASE AssignSweep(r)
    <2>1. MayChange(request[r].current, request[r].next, request[r].admin)
      BY <1>1, <1>8 DEF AssignSweep, At, Ready, WritingLabels
    <2>2. "assign.commit" \in WritingLabels
      BY DEF WritingLabels
    <2>3. GoOn(r, Clearing(request[r], "assign.commit", members[request[r].user]))
      BY <1>8 DEF AssignSweep, Clearing
    <2>4. QED BY <1>1, <1>3, <1>4, <1>5, <2>1, <2>2, <2>3, ClearingType
  <1>9. QED BY <1>6, <1>7, <1>8

-----------------------------------------------------------------------------
(* Commits. *)

Trimmed(i, X, K) == [i EXCEPT !.sweptRoles = X, !.sweptKeys = K]

(* and after another transaction deleted rows first.                       *)
LEMMA TrimmedType ==
  ASSUME NEW i \in Requests, NEW X \in SUBSET Role, NEW K \in SUBSET Permission
  PROVE  /\ Moved(i, Trimmed(i, X, K), i.pc)
         /\ Trimmed(i, X, K).admin = i.admin
         /\ Trimmed(i, X, K).actor = i.actor
         /\ Trimmed(i, X, K).current = i.current
  BY DEF Trimmed, Moved, Requests

(* A commit ends its handler and leaves the others what they are about. *)
LEMMA CommitReady ==
  ASSUME Inv, NEW r \in Request, Commit(r)
  PROVE  request' \in [Request -> Requests] /\ HandlersReady'
  <1> DEFINE X(q) == IF q.user = request[r].user THEN q.sweptRoles \ request[r].sweptRoles
                     ELSE q.sweptRoles
             K(q) == IF q.role = request[r].role THEN q.sweptKeys \ request[r].sweptKeys
                     ELSE q.sweptKeys
  <1>1. request' = [s \in Request |->
          IF s = r THEN IdleRequest ELSE Trimmed(request[s], X(request[s]), K(request[s]))]
    BY DEF Commit, Trimmed
  <1>2. ASSUME NEW s \in Request
        PROVE  request'[s] \in Requests /\ Ready(request[s])'
    <2>1. CASE s = r
      <3>1. request'[s] = IdleRequest
        BY <1>1, <2>1
      <3>2. request'[s].pc = "idle"
        BY <3>1 DEF IdleRequest
      <3>3. QED BY <3>1, <3>2, IdleRequestType
              DEF Ready, ActorLabels, CheckedLabels, DeleteLabels, RoleLabels,
                  WritingLabels, AssignLabels
    <2>2. CASE s # r
      <3> DEFINE i == request[s]
      <3>1. i \in Requests /\ Ready(i)
        BY DEF Inv, TypeOK, HandlersReady
      <3>2. X(i) \in SUBSET Role /\ K(i) \in SUBSET Permission
        BY <3>1 DEF Requests
      <3>3. request'[s] = Trimmed(i, X(i), K(i))
        BY <1>1, <2>2
      <3> HIDE DEF X, K
      <3>4. /\ Moved(i, request'[s], i.pc)
            /\ request'[s].admin = i.admin /\ request'[s].actor = i.actor
            /\ request'[s].current = i.current
        BY <3>1, <3>2, <3>3, TrimmedType
      <3>5. QED BY <3>1, <3>4 DEF Ready, Moved
    <2>3. QED BY <2>1, <2>2
  <1>3. request' \in [Request -> Requests]
    BY <1>1, <1>2
  <1>4. QED BY <1>2, <1>3 DEF HandlersReady

(* A role appears.                                                         *)
LEMMA CreateCommitKeeps ==
  ASSUME Inv, NEW r \in Request, CreateCommit(r)
  PROVE  Inv'
  <1> DEFINE x == request[r].role
             keys == request[r].keys
  <1>1. CASE x \notin fresh
    BY <1>1, RollbackReads, ReadKeeps DEF CreateCommit
  <1>2. CASE x \in fresh
    <2>1. /\ fresh' = fresh \ {x}
          /\ grants' = [grants EXCEPT ![x] = keys]
          /\ Vouch(r, x) /\ Commit(r) /\ NoEffects
          /\ UNCHANGED <<deleted, members>>
      BY <1>2 DEF CreateCommit
    <2>2. request[r] \in Requests /\ Ready(request[r])
      BY DEF Inv, TypeOK, HandlersReady
    <2>3. x \in Role /\ keys \subseteq Permission /\ CanDelegate(keys, request[r].admin)
      BY <2>2 DEF CreateCommit, At, Ready, RoleLabels, CheckedLabels, Requests
    <2>4. request' \in [Request -> Requests] /\ HandlersReady'
      BY <2>1, CommitReady
    <2>5. vouched' \in [Role -> SUBSET Restricted] /\ RestrictedVouched'
      BY <2>1, <2>3 DEF Inv, TypeOK, RestrictedVouched, Vouch, CanDelegate
    <2>6. bumped' = {} /\ logged' \in [User -> (SUBSET Role) \X (SUBSET Role)]
      BY <2>1, NothingLoggedType DEF NoEffects, LogNothing
    <2>7. TypeOK'
      BY <2>1, <2>3, <2>4, <2>5, <2>6 DEF Inv, TypeOK
    <2>8. (fresh \intersect deleted = {})'
      BY <2>1 DEF Inv
    <2>9. RowsResolve'
      <3>1. Present' = Present \union {x}
        BY <1>2, <2>1, <2>3 DEF Present, Inv
      <3>2. QED BY <2>1, <3>1 DEF Inv, TypeOK, RowsResolve
    <2>10. QED BY <2>4, <2>5, <2>7, <2>8, <2>9 DEF Inv
  <1>3. QED BY <1>1, <1>2

(* The permissions of a role are replaced.                                 *)
LEMMA ReplaceCommitKeeps ==
  ASSUME Inv, NEW r \in Request, ReplaceCommit(r)
  PROVE  Inv'
  <1> DEFINE x == request[r].role
             keys == request[r].keys
             kept == grants[x] \ request[r].sweptKeys
  <1>1. CASE Rollback(r)
    BY <1>1, RollbackReads, ReadKeeps
  <1>2. CASE ~Rollback(r)
    <2>1. /\ keys # {} => x \in Present
          /\ grants' = [grants EXCEPT ![x] = kept \union keys]
          /\ Bump(request[r].holders) /\ LogNothing
          /\ Vouch(r, x) /\ Commit(r)
          /\ UNCHANGED <<fresh, deleted, members>>
      BY <1>2 DEF ReplaceCommit
    <2>2. request[r] \in Requests /\ Ready(request[r])
      BY DEF Inv, TypeOK, HandlersReady
    <2>3. /\ x \in Role /\ keys \subseteq Permission
          /\ CanDelegate(keys, request[r].admin)
          /\ request[r].holders \subseteq User
      BY <2>2 DEF ReplaceCommit, At, Ready, RoleLabels, CheckedLabels, Requests
    <2>4. kept \subseteq grants[x] /\ grants[x] \subseteq Permission
      BY <2>3 DEF Inv, TypeOK
    <2>5. request' \in [Request -> Requests] /\ HandlersReady'
      BY <2>1, CommitReady
    <2> HIDE DEF kept
    <2>6. vouched' \in [Role -> SUBSET Restricted] /\ RestrictedVouched'
      BY <2>1, <2>3, <2>4 DEF Inv, TypeOK, RestrictedVouched, Vouch, CanDelegate
    <2>7. bumped' \subseteq User /\ logged' \in [User -> (SUBSET Role) \X (SUBSET Role)]
      BY <2>1, <2>3, NothingLoggedType DEF Bump, LogNothing
    <2>8. TypeOK'
      BY <2>1, <2>3, <2>4, <2>5, <2>6, <2>7 DEF Inv, TypeOK
    <2>9. (fresh \intersect deleted = {})'
      BY <2>1 DEF Inv
    <2>10. RowsResolve'
      <3>1. Present' = Present
        BY <2>1 DEF Present
      <3>2. QED BY <2>1, <2>3, <2>4, <3>1 DEF Inv, TypeOK, RowsResolve
    <2>11. QED BY <2>1, <2>5, <2>6, <2>8, <2>9, <2>10 DEF Inv
  <1>3. QED BY <1>1, <1>2

(* A role and its rows disappear.                                          *)
LEMMA DeleteCommitKeeps ==
  ASSUME Inv, NEW r \in Request, DeleteCommit(r)
  PROVE  Inv'
  <1> DEFINE x == request[r].role
  <1>1. CASE x \notin Present
    BY <1>1, RollbackReads, ReadKeeps DEF DeleteCommit
  <1>2. CASE x \in Present
    <2>1. /\ deleted' = deleted \union {x}
          /\ grants' = [grants EXCEPT ![x] = {}]
          /\ members' = [u \in User |-> members[u] \ {x}]
          /\ Bump(request[r].holders) /\ LogNothing /\ Commit(r)
          /\ UNCHANGED <<fresh, vouched>>
      BY <1>2 DEF DeleteCommit, CascadeMembers
    <2>2. request[r] \in Requests
      BY DEF Inv, TypeOK
    <2>3. x \in Role /\ x \notin fresh /\ request[r].holders \subseteq User
      BY <1>2, <2>2 DEF Present, Requests
    <2>4. request' \in [Request -> Requests] /\ HandlersReady'
      BY <2>1, CommitReady
    <2>5. bumped' \subseteq User /\ logged' \in [User -> (SUBSET Role) \X (SUBSET Role)]
      BY <2>1, <2>3, NothingLoggedType DEF Bump, LogNothing
    <2>6. TypeOK'
      BY <2>1, <2>3, <2>4, <2>5 DEF Inv, TypeOK
    <2>7. RestrictedVouched'
      BY <2>1, <2>3 DEF Inv, TypeOK, RestrictedVouched
    <2>8. (fresh \intersect deleted = {})'
      BY <2>1, <2>3 DEF Inv
    <2>9. RowsResolve'
      <3>1. Present' = Present \ {x}
        BY <2>1 DEF Present
      <3>2. QED BY <2>1, <2>3, <3>1 DEF Inv, TypeOK, RowsResolve
    <2>10. QED BY <2>4, <2>6, <2>7, <2>8, <2>9 DEF Inv
  <1>3. QED BY <1>1, <1>2

(* The roles of a user are replaced.                                       *)
LEMMA AssignCommitKeeps ==
  ASSUME Inv, NEW r \in Request, AssignCommit(r)
  PROVE  Inv'
  <1> DEFINE u == request[r].user
             next == request[r].next
             kept == members[u] \ request[r].sweptRoles
  <1>1. CASE ~Insertable(kept, next)
    BY <1>1, RollbackReads, ReadKeeps DEF AssignCommit
  <1>2. CASE Insertable(kept, next)
    <2>1. /\ members' = [members EXCEPT ![u] = kept \union next]
          /\ Bump({u})
          /\ logged' = [NothingLogged EXCEPT ![u] = Log(request[r].current, next)]
          /\ Commit(r)
          /\ UNCHANGED <<fresh, deleted, grants, vouched>>
      BY <1>2 DEF AssignCommit
    <2>2. request[r] \in Requests /\ Ready(request[r])
      BY DEF Inv, TypeOK, HandlersReady
    <2>3. /\ u \in User /\ next \subseteq Role /\ request[r].current \subseteq Role
      BY <2>2 DEF AssignCommit, At, Ready, AssignLabels, WritingLabels, Requests
    <2>4. kept \subseteq members[u] /\ members[u] \subseteq Role /\ next \subseteq Present
      BY <1>2, <2>3 DEF Inv, TypeOK, Insertable
    <2>5. request' \in [Request -> Requests] /\ HandlersReady'
      BY <2>1, CommitReady
    <2> HIDE DEF kept
    <2>6. logged' \in [User -> (SUBSET Role) \X (SUBSET Role)]
      <3>1. Log(request[r].current, next) \in (SUBSET Role) \X (SUBSET Role)
        BY <2>3 DEF Log
      <3>2. QED BY <2>1, <2>3, <3>1, NothingLoggedType
    <2>7. bumped' \subseteq User
      BY <2>1, <2>3 DEF Bump
    <2>8. members' \in [User -> SUBSET Role]
      BY <2>1, <2>3, <2>4 DEF Inv, TypeOK
    <2>9. TypeOK'
      BY <2>1, <2>5, <2>6, <2>7, <2>8 DEF Inv, TypeOK
    <2>11. RestrictedVouched' /\ (fresh \intersect deleted = {})'
      BY <2>1 DEF Inv, RestrictedVouched
    <2>12. RowsResolve'
      <3>1. Present' = Present
        BY <2>1 DEF Present
      <3>2. QED BY <2>1, <2>3, <2>4, <3>1 DEF Inv, TypeOK, RowsResolve
    <2>13. QED BY <2>5, <2>9, <2>11, <2>12 DEF Inv
  <1>3. QED BY <1>1, <1>2

(* The invariant is inductive. *)
LEMMA NextInv == Inv /\ [Next]_vars => Inv'
  <1> SUFFICES ASSUME Inv, [Next]_vars PROVE Inv'
    OBVIOUS
  <1>1. ASSUME NEW r \in Request, NEW a \in User, Start(r, a) PROVE Inv'
    BY <1>1, StartReads, ReadKeeps
  <1>2. ASSUME NEW r \in Request, Statement(r) PROVE Inv'
    BY <1>2, ActorReads, RoleReads, HoldersReads, AssignReads, ReadKeeps, CreateCommitKeeps,
       ReplaceCommitKeeps, DeleteCommitKeeps, AssignCommitKeeps DEF Statement
  <1>3. ASSUME NEW r \in Request, Abandon(r) PROVE Inv'
    BY <1>3, RollbackReads, ReadKeeps DEF Abandon
  <1>4. CASE UNCHANGED vars
    <2>1. HandlersReady'
      BY <1>4 DEF Inv, HandlersReady, vars
    <2>2. QED BY <1>4, <2>1 DEF Inv, TypeOK, RestrictedVouched, RowsResolve, Present,
                vars, tables, effects, history
  <1>5. QED BY <1>1, <1>2, <1>3, <1>4 DEF Next

(* The inductive invariant holds throughout. *)
THEOREM Invariance == Spec => []Inv
  BY InitInv, NextInv, PTL DEF Spec

(* Tables, records and effects keep their types: in particular only keys   *)
(* of the registry are ever stored.                                        *)
THEOREM TypeCorrect == Spec => []TypeOK
  BY Invariance, PTL DEF Inv

(* No role ever confers a role-management permission that no super         *)
(* administrator gave it, although replacements of one role may mix.       *)
THEOREM DelegationSafety == Spec => []RestrictedVouched
  BY Invariance, PTL DEF Inv

-----------------------------------------------------------------------------
(* Requests that follow one another: nobody changes what a handler has     *)
(* read before it writes.                                                  *)

Late(q) ==
  /\ q.pc \in {"assign.sweep", "assign.commit"}
       => SuperAdmin \in q.next \/ Others(q.user) # {}
  /\ q.pc \in WritingLabels => q.current = members[q.user]
  /\ q.pc = "assign.commit" => q.sweptRoles = members[q.user]
  /\ q.pc \in {"replace.commit", "delete.commit"} => q.holders = Holders(q.role)

ReadsCurrent == \A r \in Request : Late(request[r])

AloneInv == alone => Sequential /\ AlwaysAnAdministrator /\ ReadsCurrent

(* What a step owes to permissionVersion and to the audit log.             *)
Recorded ==
  \A u \in User : /\ Effective(u) # Effective(u)' => u \in bumped'
                  /\ deleted' = deleted => Changed(u) = logged'[u]

Kept == AlwaysAnAdministrator' /\ ReadsCurrent' /\ Recorded

(* A step that only reads owes nothing, and leaves what the other handlers *)
(* have read as it was.                                                    *)
LEMMA AloneRead ==
  ASSUME Inv, AlwaysAnAdministrator, ReadsCurrent,
         NEW r \in Request, Reads(r, Labels), Late(request[r])'
  PROVE  Kept
  <1>1. UNCHANGED <<grants, members>> /\ logged' = NothingLogged
    BY DEF Reads, tables, NoEffects, LogNothing
  <1>2. ASSUME NEW s \in Request PROVE Late(request[s])'
    <2>1. CASE s = r
      BY <2>1
    <2>2. CASE s # r
      <3>1. request'[s] = request[s]
        BY <2>2 DEF Reads, Inv, TypeOK
      <3>2. QED BY <1>1, <3>1 DEF ReadsCurrent, Late, Others, Holders
    <2>3. QED BY <2>1, <2>2
  <1>3. Recorded
    BY <1>1 DEF Recorded, Effective, Changed, NothingLogged
  <1>4. QED BY <1>1, <1>2, <1>3 DEF Kept, ReadsCurrent, AlwaysAnAdministrator, Holders

(* A step to a statement before the last reads.                            *)
LEMMA AloneBefore ==
  ASSUME Inv, AlwaysAnAdministrator, ReadsCurrent, NEW r \in Request, Reads(r, Before)
  PROVE  Kept
  <1>1. request'[r].pc \in Before /\ Reads(r, Labels)
    BY DEF Reads, Before, Inv, TypeOK
  <1>2. Late(request[r])'
    BY <1>1 DEF Late, Before, LateLabels, WritingLabels
  <1>3. QED BY <1>1, <1>2, AloneRead

(* Who holds the role, as its own transaction reads it.                    *)
LEMMA AloneHolders ==
  ASSUME Inv, AlwaysAnAdministrator, ReadsCurrent,
         NEW r \in Request, ReplaceHolders(r) \/ DeleteHolders(r)
  PROVE  Kept
  <1>1. /\ Reads(r, Labels)
        /\ request'[r].pc \in {"replace.commit", "delete.commit"}
        /\ request'[r].role = request[r].role
        /\ request'[r].holders = Holders(request[r].role)
    BY HoldersReads
  <1>2. UNCHANGED members
    BY <1>1 DEF Reads, tables
  <1>3. Late(request[r])'
    BY <1>1, <1>2 DEF Late, WritingLabels, Holders
  <1>4. QED BY <1>1, <1>3, AloneRead

(* The checks of an assignment. *)
LEMMA AloneAssign ==
  ASSUME Inv, AlwaysAnAdministrator, ReadsCurrent, NEW r \in Request,
         AssignRead(r) \/ AssignCount(r) \/ AssignSweep(r)
  PROVE  Kept
  <1>1. request[r] \in Requests /\ Ready(request[r]) /\ Late(request[r])
    BY DEF Inv, TypeOK, HandlersReady, ReadsCurrent
  <1>2. request[r].user \in User
    BY <1>1 DEF AssignRead, AssignCount, AssignSweep, At, Ready, AssignLabels, WritingLabels
  <1>3. members[request[r].user] \in SUBSET Role
    BY <1>2 DEF Inv, TypeOK
  <1>4. WritingLabels \subseteq Labels
    BY DEF WritingLabels, Labels
  <1>5. ASSUME NEW q, NEW label \in WritingLabels, Moved(request[r], q, label), GoOn(r, q),
               label # "assign.count" =>
                 SuperAdmin \in request[r].next \/ Others(request[r].user) # {},
               q.current = members[request[r].user],
               label = "assign.commit" => q.sweptRoles = members[request[r].user]
        PROVE  Kept
    <2>1. request'[r] = q /\ UNCHANGED members
      BY <1>5 DEF GoOn, tables, Inv, TypeOK
    <2>2. Late(request[r])'
      BY <1>5, <2>1 DEF Late, Moved, Others, Holders, WritingLabels
    <2>3. QED BY <1>5, <2>2, AssignReads, AloneRead
  <1>6. CASE AssignRead(r)
    <2> DEFINE before == members[request[r].user]
    <2>1. CASE Removes(before, request[r].next)
      <3>1. GoOn(r, Looking(request[r], "assign.count", before))
        BY <1>6, <2>1 DEF AssignRead, Looking
      <3>2. "assign.count" \in WritingLabels
        BY DEF WritingLabels
      <3>3. QED BY <1>1, <1>3, <1>4, <1>5, <3>1, <3>2, LookingType
    <2>2. CASE ~Removes(before, request[r].next)
      <3>1. GoOn(r, Looking(request[r], "assign.sweep", before))
        BY <1>6, <2>2 DEF AssignRead, Looking
      <3>2. SuperAdmin \in request[r].next \/ Others(request[r].user) # {}
        BY <1>2, <2>2 DEF Removes, Others, Holders, AlwaysAnAdministrator
      <3>3. "assign.sweep" \in WritingLabels
        BY DEF WritingLabels
      <3>4. QED BY <1>1, <1>3, <1>4, <1>5, <3>1, <3>2, <3>3, LookingType
    <2>3. QED BY <2>1, <2>2
  <1>7. CASE AssignCount(r)
    <2>1. GoOn(r, Counting(request[r], "assign.sweep")) /\ Others(request[r].user) # {}
      BY <1>7 DEF AssignCount, Counting
    <2>2. "assign.sweep" \in WritingLabels
      BY DEF WritingLabels
    <2>3. request[r].current = members[request[r].user]
      BY <1>1, <1>7 DEF AssignCount, At, Late, WritingLabels
    <2>4. QED BY <1>1, <1>4, <1>5, <2>1, <2>2, <2>3, CountingType
  <1>8. CASE AssignSweep(r)
    <2>1. GoOn(r, Clearing(request[r], "assign.commit", members[request[r].user]))
      BY <1>8 DEF AssignSweep, Clearing
    <2>2. /\ SuperAdmin \in request[r].next \/ Others(request[r].user) # {}
          /\ request[r].current = members[request[r].user]
      BY <1>1, <1>8 DEF AssignSweep, At, Late, WritingLabels
    <2>3. "assign.commit" \in WritingLabels
      BY DEF WritingLabels
    <2>4. QED BY <1>1, <1>3, <1>4, <1>5, <2>1, <2>2, <2>3, ClearingType
  <1>9. QED BY <1>6, <1>7, <1>8

(* After a commit no request is under way.                                 *)
LEMMA AloneCommit ==
  ASSUME Sequential, Inv, NEW r \in Request, ~Idle(r), Commit(r)
  PROVE  ReadsCurrent'
  <1> SUFFICES ASSUME NEW s \in Request PROVE Late(request[s])'
    BY DEF ReadsCurrent
  <1>1. request'[s].pc = "idle"
    <2>1. CASE s = r
      BY <2>1 DEF Commit, IdleRequest
    <2>2. CASE s # r
      <3>1. request[s].pc = "idle" /\ request[s] \in Requests
        BY <2>2 DEF Sequential, Busy, Idle, Inv, TypeOK
      <3>2. request'[s].pc = request[s].pc
        BY <2>2, <3>1 DEF Commit, Requests
      <3>3. QED BY <3>1, <3>2
    <2>3. QED BY <2>1, <2>2
  <1>2. QED BY <1>1 DEF Late, WritingLabels

(* A role that appears belongs to nobody yet.                              *)
LEMMA AloneCreate ==
  ASSUME Sequential, Inv, AlwaysAnAdministrator, ReadsCurrent,
         NEW r \in Request, CreateCommit(r)
  PROVE  Kept
  <1> DEFINE x == request[r].role
  <1>1. CASE x \notin fresh
    BY <1>1, RollbackReads, AloneBefore DEF CreateCommit
  <1>2. CASE x \in fresh
    <2>1. /\ grants' = [grants EXCEPT ![x] = request[r].keys]
          /\ Commit(r) /\ logged' = NothingLogged
          /\ UNCHANGED members
      BY <1>2 DEF CreateCommit, NoEffects, LogNothing
    <2>2. ~Idle(r)
      BY DEF CreateCommit, At, Idle
    <2>3. ReadsCurrent'
      BY <2>1, <2>2, AloneCommit
    <2>4. ASSUME NEW u \in User PROVE Effective(u)' = Effective(u)
      <3>1. x \notin members[u] /\ members[u] \subseteq Role
        BY <1>2 DEF Inv, RowsResolve, Present
      <3>2. \A y \in members[u] : grants'[y] = grants[y]
        BY <2>1, <3>1 DEF Inv, TypeOK
      <3>3. QED BY <2>1, <3>2 DEF Effective
    <2>5. Recorded
      BY <2>1, <2>4 DEF Recorded, Changed, NothingLogged
    <2>6. QED BY <2>1, <2>3, <2>5 DEF Kept, AlwaysAnAdministrator, Holders
  <1>3. QED BY <1>1, <1>2

(* Those whose permissions a replacement changes are those it read.        *)
LEMMA AloneReplace ==
  ASSUME Sequential, Inv, AlwaysAnAdministrator, ReadsCurrent,
         NEW r \in Request, ReplaceCommit(r)
  PROVE  Kept
  <1> DEFINE x == request[r].role
  <1>1. CASE Rollback(r)
    BY <1>1, RollbackReads, AloneBefore
  <1>2. CASE ~Rollback(r)
    <2>1. PICK K : /\ grants' = [grants EXCEPT ![x] = K]
                   /\ Bump(request[r].holders) /\ logged' = NothingLogged /\ Commit(r)
                   /\ UNCHANGED members
      BY <1>2 DEF ReplaceCommit, LogNothing
    <2>2. ~Idle(r) /\ request[r].holders = Holders(x)
      BY DEF ReplaceCommit, At, Idle, ReadsCurrent, Late
    <2>3. ReadsCurrent'
      BY <2>1, <2>2, AloneCommit
    <2>4. ASSUME NEW u \in User, u \notin bumped' PROVE Effective(u)' = Effective(u)
      <3>1. x \notin members[u] /\ members[u] \subseteq Role
        BY <2>1, <2>2, <2>4 DEF Bump, Holders, Inv, TypeOK
      <3>2. \A y \in members[u] : grants'[y] = grants[y]
        BY <2>1, <3>1 DEF Inv, TypeOK
      <3>3. QED BY <2>1, <3>2 DEF Effective
    <2>5. Recorded
      BY <2>1, <2>4 DEF Recorded, Changed, NothingLogged
    <2>6. QED BY <2>1, <2>3, <2>5 DEF Kept, AlwaysAnAdministrator, Holders
  <1>3. QED BY <1>1, <1>2

(* Those who lose something by a deletion are those it read; SUPER_ADMIN   *)
(* is never deleted.                                                       *)
LEMMA AloneDelete ==
  ASSUME Sequential, Inv, AlwaysAnAdministrator, ReadsCurrent,
         NEW r \in Request, DeleteCommit(r)
  PROVE  Kept
  <1> DEFINE x == request[r].role
  <1>1. CASE x \notin Present
    BY <1>1, RollbackReads, AloneBefore DEF DeleteCommit
  <1>2. CASE x \in Present
    <2>1. /\ deleted' = deleted \union {x}
          /\ grants' = [grants EXCEPT ![x] = {}]
          /\ members' = [u \in User |-> members[u] \ {x}]
          /\ Bump(request[r].holders) /\ Commit(r)
      BY <1>2 DEF DeleteCommit, CascadeMembers
    <2>2. ~Idle(r) /\ request[r].holders = Holders(x) /\ x # SuperAdmin
      BY DEF DeleteCommit, At, Idle, ReadsCurrent, Late, Inv, HandlersReady, Ready,
             DeleteLabels
    <2>3. ReadsCurrent'
      BY <2>1, <2>2, AloneCommit
    <2>4. AlwaysAnAdministrator'
      BY <2>1, <2>2 DEF AlwaysAnAdministrator, Holders
    <2>5. ASSUME NEW u \in User, u \notin bumped' PROVE Effective(u)' = Effective(u)
      <3>1. x \notin members[u] /\ members[u] \subseteq Role
        BY <2>1, <2>2, <2>5 DEF Bump, Holders, Inv, TypeOK
      <3>2. members'[u] = members[u] /\ \A y \in members[u] : grants'[y] = grants[y]
        BY <2>1, <3>1 DEF Inv, TypeOK
      <3>3. QED BY <3>2 DEF Effective
    <2>6. deleted' # deleted
      BY <1>2, <2>1 DEF Present
    <2>7. QED BY <2>3, <2>4, <2>5, <2>6 DEF Kept, Recorded
  <1>3. QED BY <1>1, <1>2

(* An assignment replaces exactly the roles it read and logs the           *)
(* difference; its user stays a super administrator or there is another.   *)
LEMMA AloneReassign ==
  ASSUME Sequential, Inv, AlwaysAnAdministrator, ReadsCurrent,
         NEW r \in Request, AssignCommit(r)
  PROVE  Kept
  <1> DEFINE u == request[r].user
             next == request[r].next
  <1>1. CASE Rollback(r)
    BY <1>1, RollbackReads, AloneBefore
  <1>2. CASE ~Rollback(r)
    <2>1. /\ Commit(r) /\ Bump({u})
          /\ members' = [members EXCEPT ![u] =
               (members[u] \ request[r].sweptRoles) \union next]
          /\ logged' = [NothingLogged EXCEPT ![u] = Log(request[r].current, next)]
          /\ UNCHANGED grants
      BY <1>2 DEF AssignCommit
    <2>2. u \in User
      BY DEF AssignCommit, At, Inv, HandlersReady, Ready, AssignLabels, WritingLabels
    <2>3. /\ SuperAdmin \in next \/ Others(u) # {}
          /\ request[r].current = members[u] /\ request[r].sweptRoles = members[u]
      BY DEF AssignCommit, At, ReadsCurrent, Late, WritingLabels
    <2>4. members' = [members EXCEPT ![u] = next]
      BY <2>1, <2>3
    <2>5. ReadsCurrent'
      <3>1. ~Idle(r)
        BY DEF AssignCommit, At, Idle
      <3>2. QED BY <2>1, <3>1, AloneCommit
    <2>6. AlwaysAnAdministrator'
      <3>1. CASE SuperAdmin \in next
        BY <2>2, <2>4, <3>1 DEF Inv, TypeOK, AlwaysAnAdministrator, Holders
      <3>2. CASE Others(u) # {}
        BY <2>2, <2>4, <3>2 DEF Inv, TypeOK, AlwaysAnAdministrator, Holders, Others
      <3>3. QED BY <2>3, <3>1, <3>2
    <2>7. ASSUME NEW v \in User
          PROVE  /\ Effective(v) # Effective(v)' => v \in bumped'
                 /\ Changed(v) = logged'[v]
      <3>1. CASE v = u
        <4>1. members'[v] = next /\ v \in bumped'
          BY <2>1, <2>2, <2>4, <3>1 DEF Bump, Inv, TypeOK
        <4>2. logged'[v] = <<next \ members[v], members[v] \ next>>
          BY <2>1, <2>2, <2>3, <3>1 DEF NothingLogged, Log
        <4>3. QED BY <4>1, <4>2 DEF Changed
      <3>2. CASE v # u
        <4>1. members'[v] = members[v] /\ logged'[v] = <<{}, {}>>
          BY <2>1, <2>4, <3>2 DEF NothingLogged, Inv, TypeOK
        <4>2. QED BY <2>1, <4>1 DEF Effective, Changed
      <3>3. QED BY <3>1, <3>2
    <2>8. QED BY <2>5, <2>6, <2>7 DEF Kept, Recorded
  <1>3. QED BY <1>1, <1>2

(* So every step of requests that follow one another is recorded, and      *)
(* leaves an administrator.                                                *)
LEMMA AloneStep ==
  ASSUME Sequential, Inv, AlwaysAnAdministrator, ReadsCurrent, Next
  PROVE  Kept
  <1>1. ASSUME NEW r \in Request, NEW a \in User, Start(r, a) PROVE Kept
    BY <1>1, StartReads, AloneBefore
  <1>2. ASSUME NEW r \in Request, Statement(r) PROVE Kept
    BY <1>2, ActorReads, RoleReads, AloneBefore, AloneHolders, AloneAssign, AloneCreate,
       AloneReplace, AloneDelete, AloneReassign DEF Statement
  <1>3. ASSUME NEW r \in Request, Abandon(r) PROVE Kept
    BY <1>3, RollbackReads, AloneBefore DEF Abandon
  <1>4. QED BY <1>1, <1>2, <1>3 DEF Next

MCStep == Next /\ UNCHANGED alone /\ (alone => Sequential')

(* The strengthened invariant starts out true.                             *)
LEMMA AloneInit == MCInit => Inv /\ AloneInv
  <1> SUFFICES ASSUME MCInit PROVE Inv /\ AloneInv
    OBVIOUS
  <1>1. Inv /\ AlwaysAnAdministrator
    BY InitInv DEF MCInit, Init, AlwaysAnAdministrator
  <1>2. \A r \in Request : request[r].pc = "idle"
    BY DEF MCInit, Init, IdleRequest
  <1>3. Sequential /\ ReadsCurrent
    BY <1>2 DEF Sequential, Busy, Idle, ReadsCurrent, Late, WritingLabels
  <1>4. QED BY <1>1, <1>3 DEF AloneInv

(* and stays true; what a lone request's step owes comes with it.          *)
LEMMA AloneNext ==
  ASSUME Inv, AloneInv, [MCStep]_<<vars, alone>>
  PROVE  Inv' /\ AloneInv' /\ (alone => Recorded \/ UNCHANGED <<vars, alone>>)
  <1>1. Inv'
    BY NextInv DEF MCStep
  <1>2. CASE MCStep
    <2>1. alone => Kept
      BY <1>2, AloneStep DEF MCStep, AloneInv
    <2>2. alone' = alone /\ (alone => Sequential')
      BY <1>2 DEF MCStep
    <2>3. QED BY <1>1, <2>1, <2>2 DEF AloneInv, Kept
  <1>3. CASE UNCHANGED <<vars, alone>>
    <2>1. AloneInv'
      BY <1>3 DEF AloneInv, Sequential, Busy, Idle, AlwaysAnAdministrator, ReadsCurrent, Late,
                  Others, Holders, vars, tables
    <2>2. QED BY <1>1, <1>3, <2>1
  <1>4. QED BY <1>2, <1>3

(* The strengthened invariant holds throughout. *)
THEOREM AloneInvariance == MCSpec => [](Inv /\ AloneInv)
  <1>1. Inv /\ AloneInv /\ [MCStep]_<<vars, alone>> => (Inv /\ AloneInv)'
    BY AloneNext
  <1>2. QED BY <1>1, AloneInit, PTL DEF MCSpec, MCStep

(* If requests do not overlap, somebody always is a super administrator:   *)
(* the count that RolesService takes before its transaction is enough.     *)
THEOREM AdministratorSafety == MCSpec => []AdministratorRemains
  <1>1. Inv /\ AloneInv => AdministratorRemains
    BY DEF AloneInv, AdministratorRemains
  <1>2. QED BY <1>1, AloneInvariance, PTL

(* If requests do not overlap, permissionVersion is bumped for everybody   *)
(* whose effective permissions change, and the audit log names exactly the *)
(* assignments that came and went.                                         *)
THEOREM RecordSafety == MCSpec => ChangesRecorded
  <1>1. Inv /\ AloneInv /\ [MCStep]_<<vars, alone>>
          => [alone => Recorded]_<<vars, alone>>
    BY AloneNext
  <1>2. QED BY <1>1, AloneInvariance, PTL DEF MCSpec, MCStep, ChangesRecorded, Recorded

-----------------------------------------------------------------------------
(* Who changes the roles of a user, whatever overlaps                      *)

(* What an assignment that is not rolled back writes, under which checks.  *)
LEMMA AssignmentWrites ==
  ASSUME Inv, NEW r \in Request, AssignCommit(r), ~Rollback(r)
  PROVE  /\ request[r].user \in User
         /\ AssignmentEnds(r, request[r].user)
         /\ MayChange(request[r].current, request[r].next, request[r].admin)
         /\ members' = [members EXCEPT ![request[r].user] =
               (members[request[r].user] \ request[r].sweptRoles) \union request[r].next]
         /\ bumped' = {request[r].user}
         /\ logged' = [NothingLogged EXCEPT ![request[r].user] =
                         Log(request[r].current, request[r].next)]
  <1>1. Ready(request[r]) /\ At(r, "assign.commit")
    BY DEF Inv, HandlersReady, AssignCommit
  <1>2. Commit(r) /\ Bump({request[r].user})
    BY DEF AssignCommit
  <1>3. Idle(r)'
    BY <1>2 DEF Commit, Idle, IdleRequest
  <1>4. QED BY <1>1, <1>2, <1>3
        DEF AssignCommit, AssignmentEnds, At, Ready, AssignLabels, WritingLabels, Bump

(* A user's roles change, or are logged to have changed, by the deletion   *)
(* of a role, which is never SUPER_ADMIN, or by an assignment.             *)
LEMMA MembersStep ==
  ASSUME Inv, Next, NEW u \in User, members'[u] # members[u] \/ logged'[u] # <<{}, {}>>
  PROVE  \/ \E x \in deleted' \ deleted :
              x # SuperAdmin /\ members'[u] = members[u] \ {x} /\ logged'[u] = <<{}, {}>>
         \/ \E r \in Request : AssignCommit(r) /\ ~Rollback(r) /\ request[r].user = u
  <1> DEFINE Goal ==
        \/ \E x \in deleted' \ deleted :
             x # SuperAdmin /\ members'[u] = members[u] \ {x} /\ logged'[u] = <<{}, {}>>
        \/ \E r \in Request : AssignCommit(r) /\ ~Rollback(r) /\ request[r].user = u
  <1>1. ASSUME NoEffects, UNCHANGED members PROVE FALSE
    BY <1>1 DEF NoEffects, LogNothing, NothingLogged
  <1>2. ASSUME NEW r \in Request, NEW L, Reads(r, L) PROVE FALSE
    BY <1>1, <1>2 DEF Reads, tables
  <1>3. ASSUME NEW r \in Request, Rollback(r) PROVE FALSE
    BY <1>1, <1>3 DEF Rollback, tables
  <1>4. ASSUME NEW r \in Request, CreateCommit(r) PROVE FALSE
    BY <1>1, <1>3, <1>4 DEF CreateCommit
  <1>5. ASSUME NEW r \in Request, ReplaceCommit(r) PROVE FALSE
    <2>1. UNCHANGED members /\ LogNothing
      BY <1>3, <1>5 DEF ReplaceCommit
    <2>2. QED BY <2>1 DEF LogNothing, NothingLogged
  <1>6. ASSUME NEW r \in Request, DeleteCommit(r) PROVE Goal
    <2> DEFINE x == request[r].role
    <2>1. /\ x \in Present
          /\ members' = [v \in User |-> members[v] \ {x}]
          /\ deleted' = deleted \union {x} /\ LogNothing
      BY <1>3, <1>6 DEF DeleteCommit, CascadeMembers
    <2>2. x # SuperAdmin
      BY <1>6 DEF DeleteCommit, At, Inv, HandlersReady, Ready, DeleteLabels
    <2>3. x \in deleted' \ deleted
      BY <2>1 DEF Present
    <2>4. members'[u] = members[u] \ {x} /\ logged'[u] = <<{}, {}>>
      BY <2>1 DEF LogNothing, NothingLogged
    <2>5. QED BY <2>2, <2>3, <2>4
  <1>7. ASSUME NEW r \in Request, AssignCommit(r) PROVE Goal
    <2>1. request[r].user = u
      <3> SUFFICES ASSUME request[r].user # u PROVE FALSE
        OBVIOUS
      <3>1. /\ members' = [members EXCEPT ![request[r].user] =
                  (members[request[r].user] \ request[r].sweptRoles) \union request[r].next]
            /\ logged' = [NothingLogged EXCEPT ![request[r].user] =
                            Log(request[r].current, request[r].next)]
        BY <1>3, <1>7, AssignmentWrites
      <3>2. members'[u] = members[u] /\ logged'[u] = <<{}, {}>>
        BY <3>1 DEF NothingLogged, Inv, TypeOK
      <3>3. QED BY <3>2
    <2>2. QED BY <1>3, <1>7, <2>1
  <1>8. ASSUME NEW r \in Request, Statement(r) PROVE Goal
    BY <1>2, <1>4, <1>5, <1>6, <1>7, <1>8, ActorReads, RoleReads, HoldersReads, AssignReads
    DEF Statement
  <1>9. QED BY <1>2, <1>3, <1>8, StartReads DEF Next, Abandon

(* What the invariants say of an assignment that commits while no other    *)
(* request is handled.                                                     *)
LEMMA LoneAssignment ==
  ASSUME AloneInv, alone, NEW r \in Request, AssignCommit(r)
  PROVE  /\ request[r].current = members[request[r].user]
         /\ request[r].sweptRoles = members[request[r].user]
  BY DEF AloneInv, ReadsCurrent, Late, WritingLabels, AssignCommit, At

(* A super administrator is made or unmade only by an assignment of a      *)
(* super administrator's, or, under overlap only, by one of a caller       *)
(* without the rank that puts back what it had read.                       *)
THEOREM RankSafety == MCSpec => RankGuarded
  <1>1. ASSUME Inv, AloneInv, MCStep, NEW u \in User, IsSuperAdmin(u)' # IsSuperAdmin(u)
        PROVE  \E r \in Request :
                 /\ AssignmentEnds(r, u)
                 /\ \/ request[r].admin
                    \/ ~alone /\ (IsSuperAdmin(u)' <=> SuperAdmin \in request[r].current)
    <2>1. PICK r \in Request : AssignCommit(r) /\ ~Rollback(r) /\ request[r].user = u
      BY <1>1, MembersStep DEF MCStep, IsSuperAdmin
    <2>2. /\ AssignmentEnds(r, u)
          /\ MayChange(request[r].current, request[r].next, request[r].admin)
          /\ members'[u] = (members[u] \ request[r].sweptRoles) \union request[r].next
      BY <1>1, <2>1, AssignmentWrites DEF Inv, TypeOK
    <2>3. ASSUME ~request[r].admin
          PROVE  ~alone /\ (IsSuperAdmin(u)' <=> SuperAdmin \in request[r].current)
      <3>1. SuperAdmin \in request[r].current <=> SuperAdmin \in request[r].next
        BY <2>2, <2>3 DEF MayChange, Grants, Removes
      <3>2. SuperAdmin \in members'[u] <=> SuperAdmin \in request[r].next
        BY <1>1, <2>2 DEF IsSuperAdmin
      <3>3. alone => request[r].current = members[u]
        BY <1>1, <2>1, LoneAssignment
      <3>4. QED BY <1>1, <3>1, <3>2, <3>3 DEF IsSuperAdmin
    <2>4. QED BY <2>2, <2>3
  <1>2. Inv /\ AloneInv /\ [MCStep]_<<vars, alone>> =>
          [\A u \in User :
             IsSuperAdmin(u)' # IsSuperAdmin(u) =>
               \E r \in Request :
                 /\ AssignmentEnds(r, u)
                 /\ \/ request[r].admin
                    \/ ~alone /\ (IsSuperAdmin(u)' <=> SuperAdmin \in request[r].current)
          ]_<<vars, alone>>
    BY <1>1
  <1>3. QED BY <1>2, AloneInvariance, PTL DEF MCSpec, MCStep, RankGuarded

(* A replacement of a user's roles happens with its log entries and its    *)
(* bump or not at all, and a lone one leaves exactly what was asked for.   *)
THEOREM ReplacementSafety == MCSpec => ReplacedWhole
  <1> DEFINE Whole(u) ==
        members'[u] # members[u] \/ logged'[u] # <<{}, {}>> =>
          \/ /\ \E x \in deleted' \ deleted : members'[u] = members[u] \ {x}
             /\ logged'[u] = <<{}, {}>>
          \/ \E r \in Request :
               LET others == members'[u] \ request[r].next
               IN /\ AssignmentEnds(r, u)
                  /\ request[r].next \subseteq members'[u] /\ u \in bumped'
                  /\ others \intersect request[r].sweptRoles = {}
                  /\ alone => others = {}
  <1>1. ASSUME Inv, AloneInv, MCStep, NEW u \in User PROVE Whole(u)
    <2> SUFFICES ASSUME members'[u] # members[u] \/ logged'[u] # <<{}, {}>>,
                        NEW r \in Request, AssignCommit(r), ~Rollback(r), request[r].user = u
                 PROVE  LET others == members'[u] \ request[r].next
                        IN /\ AssignmentEnds(r, u)
                           /\ request[r].next \subseteq members'[u] /\ u \in bumped'
                           /\ others \intersect request[r].sweptRoles = {}
                           /\ alone => others = {}
      BY <1>1, MembersStep DEF MCStep
    <2>1. /\ AssignmentEnds(r, u)
          /\ members'[u] = (members[u] \ request[r].sweptRoles) \union request[r].next
          /\ u \in bumped'
      BY <1>1, AssignmentWrites DEF Inv, TypeOK
    <2>2. alone => request[r].sweptRoles = members[u]
      BY <1>1, LoneAssignment
    <2>3. QED BY <2>1, <2>2
  <1>2. Inv /\ AloneInv /\ [MCStep]_<<vars, alone>> => [\A u \in User : Whole(u)]_<<vars, alone>>
    BY <1>1
  <1>3. QED BY <1>2, AloneInvariance, PTL DEF MCSpec, MCStep, ReplacedWhole

-----------------------------------------------------------------------------
(* Overlap.  Two removals may each count the other's user, and leave no    *)
(* super administrator; but the one who is left is safe from everybody who *)
(* has not looked yet.                                                     *)

DemotingLabels == {"assign.sweep", "assign.commit"}

(* The assignments that have passed the check of the last super            *)
(* administrator and will take the role from a user who has it.            *)
Demoting(u) ==
  {r \in Request : /\ request[r].pc \in DemotingLabels
                   /\ request[r].user = u /\ SuperAdmin \notin request[r].next}

(* While a user is the only super administrator nobody joins those who     *)
(* will take the role away, and nobody else takes it.                      *)
LastIsGuarded ==
  [][\A u \in User :
       Holders(SuperAdmin) = {u} =>
         /\ Demoting(u)' \subseteq Demoting(u)
         /\ Holders(SuperAdmin)' = {} => \E r \in Demoting(u) : AssignCommit(r)]_vars

(* What a step leaves of these assignments: a new one found another super  *)
(* administrator, or that its user is none.                                *)
FreshlyChecked(s) ==
  request'[s].pc \in DemotingLabels /\ SuperAdmin \notin request'[s].next =>
    \/ /\ request[s].pc \in DemotingLabels
       /\ request'[s].user = request[s].user /\ request'[s].next = request[s].next
    \/ Others(request'[s].user) # {}
    \/ request'[s].user \notin Holders(SuperAdmin)

(* A statement before the last reads checks nothing.                       *)
LEMMA BeforeChecks ==
  ASSUME Inv, NEW r \in Request, Reads(r, Before), NEW s \in Request
  PROVE  FreshlyChecked(s)
  <1>1. PICK q \in Requests : q.pc \in Before /\ request' = [request EXCEPT ![r] = q]
    BY DEF Reads
  <1>2. CASE s = r
    <2>1. request'[s].pc \in Before
      BY <1>1, <1>2 DEF Inv, TypeOK
    <2>2. QED BY <2>1 DEF FreshlyChecked, DemotingLabels, Before, LateLabels, WritingLabels
  <1>3. CASE s # r
    <2>1. request'[s] = request[s]
      BY <1>1, <1>3 DEF Inv, TypeOK
    <2>2. QED BY <2>1 DEF FreshlyChecked
  <1>4. QED BY <1>2, <1>3

(* Who holds a role is another question. *)
LEMMA HoldersChecks ==
  ASSUME Inv, NEW r \in Request, ReplaceHolders(r) \/ DeleteHolders(r), NEW s \in Request
  PROVE  FreshlyChecked(s)
  <1>1. Reads(r, Labels) /\ request'[r].pc \in {"replace.commit", "delete.commit"}
    BY HoldersReads
  <1>2. CASE s = r
    BY <1>1, <1>2 DEF FreshlyChecked, DemotingLabels
  <1>3. CASE s # r
    <2>1. request'[s] = request[s]
      BY <1>1, <1>3 DEF Reads, Inv, TypeOK
    <2>2. QED BY <2>1 DEF FreshlyChecked
  <1>4. QED BY <1>2, <1>3

(* The checks of an assignment. *)
LEMMA AssignChecks ==
  ASSUME Inv, NEW r \in Request, AssignRead(r) \/ AssignCount(r) \/ AssignSweep(r),
         NEW s \in Request
  PROVE  FreshlyChecked(s)
  <1>1. request[r] \in Requests /\ Ready(request[r])
    BY DEF Inv, TypeOK, HandlersReady
  <1>2. request[r].user \in User
    BY <1>1 DEF AssignRead, AssignCount, AssignSweep, At, Ready, AssignLabels, WritingLabels
  <1>3. members[request[r].user] \in SUBSET Role
    BY <1>2 DEF Inv, TypeOK
  <1>4. CASE s # r
    <2>1. request'[s] = request[s]
      BY <1>4, AssignReads DEF Reads, Inv, TypeOK
    <2>2. QED BY <2>1 DEF FreshlyChecked
  <1>5. ASSUME NEW q, NEW label, Moved(request[r], q, label), GoOn(r, q),
               label \in DemotingLabels =>
                 \/ request[r].pc \in DemotingLabels \/ SuperAdmin \in request[r].next
                 \/ Others(request[r].user) # {} \/ request[r].user \notin Holders(SuperAdmin)
        PROVE  FreshlyChecked(r)
    <2>1. request'[r] = q
      BY <1>5 DEF GoOn, Inv, TypeOK
    <2>2. QED BY <1>5, <2>1 DEF FreshlyChecked, Moved
  <1>6. CASE AssignRead(r)
    <2> DEFINE before == members[request[r].user]
    <2>1. CASE Removes(before, request[r].next)
      <3>1. GoOn(r, Looking(request[r], "assign.count", before)) /\ "assign.count" \in Labels
        BY <1>6, <2>1 DEF AssignRead, Looking, Labels
      <3>2. "assign.count" \notin DemotingLabels
        BY DEF DemotingLabels
      <3>3. FreshlyChecked(r)
        BY <1>1, <1>3, <1>5, <3>1, <3>2, LookingType
      <3>4. QED BY <1>4, <3>3
    <2>2. CASE ~Removes(before, request[r].next)
      <3>1. GoOn(r, Looking(request[r], "assign.sweep", before)) /\ "assign.sweep" \in Labels
        BY <1>6, <2>2 DEF AssignRead, Looking, Labels
      <3>2. SuperAdmin \in request[r].next \/ request[r].user \notin Holders(SuperAdmin)
        BY <2>2 DEF Removes, Holders
      <3>3. FreshlyChecked(r)
        BY <1>1, <1>3, <1>5, <3>1, <3>2, LookingType
      <3>4. QED BY <1>4, <3>3
    <2>3. QED BY <2>1, <2>2
  <1>7. CASE AssignCount(r)
    <2>1. GoOn(r, Counting(request[r], "assign.sweep")) /\ Others(request[r].user) # {}
      BY <1>7 DEF AssignCount, Counting
    <2>2. "assign.sweep" \in Labels
      BY DEF Labels
    <2>3. FreshlyChecked(r)
      BY <1>1, <1>5, <2>1, <2>2, CountingType
    <2>4. QED BY <1>4, <2>3
  <1>8. CASE AssignSweep(r)
    <2>1. GoOn(r, Clearing(request[r], "assign.commit", members[request[r].user]))
      BY <1>8 DEF AssignSweep, Clearing
    <2>2. request[r].pc \in DemotingLabels /\ "assign.commit" \in Labels
      BY <1>8 DEF AssignSweep, At, DemotingLabels, Labels
    <2>3. FreshlyChecked(r)
      BY <1>1, <1>3, <1>5, <2>1, <2>2, ClearingType
    <2>4. QED BY <1>4, <2>3
  <1>9. QED BY <1>6, <1>7, <1>8

(* A commit leaves the others where they are. *)
LEMMA CommitChecks ==
  ASSUME Inv, NEW r \in Request, Commit(r), NEW s \in Request
  PROVE  FreshlyChecked(s)
  <1>1. CASE s = r
    <2>1. request'[s].pc = "idle"
      BY <1>1 DEF Commit, IdleRequest
    <2>2. QED BY <2>1 DEF FreshlyChecked, DemotingLabels
  <1>2. CASE s # r
    <2>1. request[s] \in Requests
      BY DEF Inv, TypeOK
    <2>2. /\ request'[s].pc = request[s].pc /\ request'[s].user = request[s].user
          /\ request'[s].next = request[s].next
      BY <1>2, <2>1 DEF Commit, Requests
    <2>3. QED BY <2>2 DEF FreshlyChecked
  <1>3. QED BY <1>1, <1>2

(* So it is of every step. *)
LEMMA StepChecks ==
  ASSUME Inv, Next, NEW s \in Request
  PROVE  FreshlyChecked(s)
  <1>1. ASSUME NEW r \in Request, NEW a \in User, Start(r, a) PROVE FreshlyChecked(s)
    BY <1>1, StartReads, BeforeChecks
  <1>2. ASSUME NEW r \in Request, Rollback(r) PROVE FreshlyChecked(s)
    BY <1>2, RollbackReads, BeforeChecks
  <1>3. ASSUME NEW r \in Request,
               CreateCommit(r) \/ ReplaceCommit(r) \/ DeleteCommit(r) \/ AssignCommit(r)
        PROVE  FreshlyChecked(s)
    <2>1. Rollback(r) \/ Commit(r)
      BY <1>3 DEF CreateCommit, ReplaceCommit, DeleteCommit, AssignCommit
    <2>2. QED BY <1>2, <2>1, CommitChecks
  <1>4. ASSUME NEW r \in Request, Statement(r) PROVE FreshlyChecked(s)
    BY <1>3, <1>4, ActorReads, RoleReads, BeforeChecks, HoldersChecks, AssignChecks DEF Statement
  <1>5. ASSUME NEW r \in Request, Abandon(r) PROVE FreshlyChecked(s)
    BY <1>2, <1>5 DEF Abandon
  <1>6. QED BY <1>1, <1>4, <1>5 DEF Next

(* Only an assignment takes the role of super administrator away. *)
LEMMA TakenByAssignment ==
  ASSUME Inv, Next, NEW u \in User, SuperAdmin \in members[u], SuperAdmin \notin members'[u]
  PROVE  \E r \in Demoting(u) : AssignCommit(r)
  <1>1. ASSUME NEW r \in Request, NEW L, Reads(r, L) PROVE FALSE
    BY <1>1 DEF Reads, tables
  <1>2. ASSUME NEW r \in Request, Rollback(r) PROVE FALSE
    BY <1>2 DEF Rollback, tables
  <1>3. ASSUME NEW r \in Request, CreateCommit(r) \/ ReplaceCommit(r) PROVE FALSE
    <2>1. UNCHANGED members
      BY <1>2, <1>3 DEF CreateCommit, ReplaceCommit
    <2>2. QED BY <2>1
  <1>4. ASSUME NEW r \in Request, DeleteCommit(r) PROVE FALSE
    <2>1. members' = [v \in User |-> members[v] \ {request[r].role}]
      BY <1>2, <1>4 DEF DeleteCommit, CascadeMembers
    <2>2. request[r].role # SuperAdmin
      BY <1>4 DEF DeleteCommit, At, Inv, HandlersReady, Ready, DeleteLabels
    <2>3. QED BY <2>1, <2>2
  <1>5. ASSUME NEW r \in Request, AssignCommit(r) PROVE \E q \in Demoting(u) : AssignCommit(q)
    <2>1. members' = [members EXCEPT ![request[r].user] =
                        (members[request[r].user] \ request[r].sweptRoles) \union request[r].next]
      BY <1>2, <1>5 DEF AssignCommit
    <2>2. request[r].user = u /\ SuperAdmin \notin request[r].next
      BY <2>1 DEF Inv, TypeOK
    <2>3. r \in Demoting(u)
      BY <1>5, <2>2 DEF AssignCommit, At, Demoting, DemotingLabels
    <2>4. QED BY <1>5, <2>3
  <1>6. ASSUME NEW r \in Request, Statement(r) PROVE \E q \in Demoting(u) : AssignCommit(q)
    BY <1>1, <1>3, <1>4, <1>5, <1>6, ActorReads, RoleReads, HoldersReads, AssignReads DEF Statement
  <1>7. QED BY <1>1, <1>2, <1>6, StartReads DEF Next, Abandon

(* The last super administrator loses the role only to a request that had  *)
(* passed the check of roles.service.ts before they were the last: what    *)
(* overlap makes of that check is over with the requests that overlapped.  *)
THEOREM OverlapIsBounded == Spec => LastIsGuarded
  <1>1. Inv /\ [Next]_vars =>
          [\A u \in User :
             Holders(SuperAdmin) = {u} =>
               /\ Demoting(u)' \subseteq Demoting(u)
               /\ Holders(SuperAdmin)' = {} => \E r \in Demoting(u) : AssignCommit(r)]_vars
    <2> SUFFICES ASSUME Inv, Next, NEW u \in User, Holders(SuperAdmin) = {u}
        PROVE  /\ Demoting(u)' \subseteq Demoting(u)
               /\ Holders(SuperAdmin)' = {} => \E r \in Demoting(u) : AssignCommit(r)
      OBVIOUS
    <2>1. ASSUME NEW s \in Demoting(u)' PROVE s \in Demoting(u)
      <3>1. /\ s \in Request /\ request'[s].pc \in DemotingLabels
            /\ request'[s].user = u /\ SuperAdmin \notin request'[s].next
        BY <2>1 DEF Demoting
      <3>2. FreshlyChecked(s)
        BY <3>1, StepChecks
      <3>3. Others(u) = {}
        BY DEF Others
      <3>4. QED BY <3>1, <3>2, <3>3 DEF FreshlyChecked, Demoting
    <2>2. ASSUME Holders(SuperAdmin)' = {} PROVE \E r \in Demoting(u) : AssignCommit(r)
      <3>1. SuperAdmin \in members[u] /\ SuperAdmin \notin members'[u]
        BY <2>2 DEF Holders
      <3>2. QED BY <3>1, TakenByAssignment
    <2>3. QED BY <2>1, <2>2
  <1>2. QED BY <1>1, Invariance, PTL DEF Spec, LastIsGuarded

=============================================================================
