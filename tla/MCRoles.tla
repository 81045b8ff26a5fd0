------------------------------ MODULE MCRoles ------------------------------
(* Instances of Roles for the model checker: either requests of any kind   *)
(* overlap, or they follow one another.                                    *)
EXTENDS Roles, FiniteSets, TLC

VARIABLE alone   \* whether a request starts only when no other is handled

Keys == Restricted \union {"users.read"}

(* What clients send: everything, nothing restricted, or an unknown key. *)
KeySets == {Keys, {"users.read"}, {"users.read", "users.fly"}}

Busy == {r \in Request : ~Idle(r)}

Sequential == \A r, q \in Busy : r = q

MCInit == Init /\ alone \in BOOLEAN

MCSpec == MCInit /\ [][Next /\ UNCHANGED alone /\ (alone => Sequential')]_<<vars, alone>>

(* "Don't allow removing the final SUPER_ADMIN in the system": as long as  *)
(* requests do not overlap, some account keeps the role over any sequence  *)
(* of assignments, deletions and permission changes.                       *)
AdministratorRemains == alone => AlwaysAnAdministrator

(* permissionVersion is bumped for every user whose effective permissions  *)
(* a request changes, through an assignment, a role's permissions or its   *)
(* deletion, and the audit log names exactly the assignments that came and *)
(* went.                                                                   *)
ChangesRecorded ==
  [][alone =>
       \A u \in User :
         /\ Effective(u) # Effective(u)' => u \in bumped'
         /\ deleted' = deleted => Changed(u) = logged'[u]]_<<vars, alone>>

(* The transaction of an assignment to user u ends, one way or the other.  *)
AssignmentEnds(r, u) == At(r, "assign.commit") /\ request[r].user = u /\ Idle(r)'

(* "Only a SUPER_ADMIN may grant or remove the SUPER_ADMIN role".  Not so  *)
(* when the rule is judged on roles read before the transaction.           *)
OnlySuperAdmins ==
  [][\A u \in User :
       IsSuperAdmin(u)' # IsSuperAdmin(u)
         => \E r \in Request : AssignmentEnds(r, u) /\ request[r].admin]_<<vars, alone>>

(* What is left of that rule whoever overlaps: a caller without the rank   *)
(* can only put a user's rank back to what it was when the caller's        *)
(* request read it, after somebody changed it since, so never while        *)
(* requests follow one another; and no deletion of a role or change of its *)
(* permissions makes or unmakes a super administrator.                     *)
RankGuarded ==
  [][\A u \in User :
       IsSuperAdmin(u)' # IsSuperAdmin(u) =>
         \E r \in Request :
           /\ AssignmentEnds(r, u)
           /\ \/ request[r].admin
              \/ ~alone /\ (IsSuperAdmin(u)' <=> SuperAdmin \in request[r].current)
    ]_<<vars, alone>>

(* Replacing a user's roles is one transaction: whatever fails or is       *)
(* abandoned half-way, nobody loses a role, has one logged or is bumped    *)
(* without the whole replacement.  Of the roles it found only those asked  *)
(* for again remain, and others only if overlapping requests gave them.    *)
ReplacedWhole ==
  [][\A u \in User :
       members'[u] # members[u] \/ logged'[u] # <<{}, {}>> =>
         \/ /\ \E x \in deleted' \ deleted : members'[u] = members[u] \ {x}
            /\ logged'[u] = <<{}, {}>>
         \/ \E r \in Request :
              LET others == members'[u] \ request[r].next
              IN /\ AssignmentEnds(r, u)
                 /\ request[r].next \subseteq members'[u] /\ u \in bumped'
                 /\ others \intersect request[r].sweptRoles = {}
                 /\ alone => others = {}
    ]_<<vars, alone>>

(* "Bump permissionVersion for every user assigned the given role", and    *)
(* for the user of an assignment.  Not so for a user who is given the role *)
(* after its holders were read.                                            *)
HoldersBumped ==
  [][\A u \in User : Effective(u) # Effective(u)' => u \in bumped']_<<vars, alone>>

Symmetry ==
  Permutations(User) \union Permutations(Role \ SystemRole) \union Permutations(Request)
=============================================================================
