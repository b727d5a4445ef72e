----------------------------- MODULE Organization -----------------------------
(***************************************************************************)
(* The Organization aggregate and the membership commands on it             *)
(* (internal/kernel/organization.go, membership.go, authorization.go): pure *)
(* operators from the memberships a transaction has read to what the        *)
(* command decides and writes.                                              *)
(***************************************************************************)
EXTENDS Integers

CONSTANTS
  Principal,   \* principals that call commands or are named by them
  Key,         \* idempotency keys, with the scope they are claimed in
  Command      \* [Key -> the command that callers send with the key]

Roles  == {"owner", "admin", "developer", "viewer"}
States == {"INVITED", "ACTIVE", "SUSPENDED", "REMOVED"}

NoMembership == [role |-> "none", state |-> "none"]
Membership   == [role : Roles, state : States] \cup {NoMembership}
Memberships  == [Principal -> Membership]
NoMembers    == [p \in Principal |-> NoMembership]

(* A command, its caller, whether the caller's token has the action's scope *)
(* and no other tenant, and the membership it names.                        *)
Commands == [kind : {"create", "invite", "accept", "changeRole", "suspend",
                     "remove"},
             actor : Principal, scoped : BOOLEAN, target : Principal,
             role : Roles]

ASSUME CommandAssumption == Command \in [Key -> Commands]

ActiveOwners(m) ==
  {p \in Principal : m[p] = [role |-> "owner", state |-> "ACTIVE"]}

IsLastMember(m, p) == {q \in Principal : m[q].role = "owner"} = {p}   \* mutant

(* The guard of ChangeMemberRole, SuspendMember and RemoveMember:           *)
(* activeOwnerCount() <= 1 and the target is an active owner.               *)
IsLastOwner(m, p) == ActiveOwners(m) = {p}

-----------------------------------------------------------------------------
(* AuthorizationPolicy.Check: the scope and an active membership whose role *)
(* has the action.  membership.invite and membership.manage are actions of  *)
(* owners and admins.                                                       *)
PolicyAllows(m, c) ==
  /\ c.scoped
  /\ m[c.actor].state = "ACTIVE"
  /\ m[c.actor].role \in {"owner", "admin"}

(* canManageTarget: an owner manages everyone; nobody else manages an owner *)
(* or gives the owner role.                                                 *)
CanManageTarget(m, c) ==
  \/ m[c.actor].role = "owner"
  \/ /\ m[c.target].role # "owner"
     /\ ~(c.kind = "changeRole" /\ c.role = "owner")

Authorized(m, c) ==
  CASE c.kind = "accept" -> c.scoped /\ m[c.actor].state = "INVITED"
    [] c.kind = "invite" -> PolicyAllows(m, c)
    [] OTHER             -> PolicyAllows(m, c) /\ CanManageTarget(m, c)

(* What the aggregate itself accepts.  Suspending a suspended member and    *)
(* removing a removed one succeed and change nothing.                       *)
Accepted(m, c) ==
  CASE c.kind = "accept"     -> m[c.actor].state = "INVITED"
    [] c.kind = "invite"     -> m[c.target].state \in {"none", "REMOVED"}
    [] c.kind = "changeRole" -> /\ m[c.target].state = "ACTIVE"
                                /\ c.role # "owner" => ~IsLastOwner(m, c.target)
    [] c.kind = "suspend"    -> /\ m[c.target].state \in {"ACTIVE", "SUSPENDED"}
                                /\ ~IsLastOwner(m, c.target)
    [] c.kind = "remove"     -> /\ m[c.target].state # "none"
                                /\ ~IsLastOwner(m, c.target)

(* What the command makes of the memberships.                               *)
Applied(m, c) ==
  CASE c.kind = "accept"     -> [m EXCEPT ![c.actor].state = "ACTIVE"]
    [] c.kind = "invite"     -> [m EXCEPT ![c.target] =
                                   [role |-> c.role, state |-> "INVITED"]]
    [] c.kind = "changeRole" -> [m EXCEPT ![c.target].role = c.role]
    [] c.kind = "suspend"    -> [m EXCEPT ![c.target].state = "SUSPENDED"]
    [] c.kind = "remove"     -> [m EXCEPT ![c.target].state = "REMOVED"]

(* NewOrganization: the creator is its active owner.                        *)
Founded(c) ==
  [NoMembers EXCEPT ![c.actor] = [role |-> "owner", state |-> "ACTIVE"]]
=============================================================================
