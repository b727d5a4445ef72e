--------------------------- MODULE MembershipLedger ---------------------------
(***************************************************************************)
(* What the kernel promises about memberships, as if every command were one *)
(* instant: a command that succeeds was authorised and acceptable at the    *)
(* moment it took effect, changed exactly its own membership, and took      *)
(* effect once for its idempotency key; a command that fails changed        *)
(* nothing.                                                                 *)
(***************************************************************************)
EXTENDS Organization

VARIABLES
  members,   \* [Principal -> membership]
  outcome    \* [Key -> how the command with that key ended, once it has]

ledgerVars == <<members, outcome>>

LedgerInit ==
  /\ members = NoMembers
  /\ outcome = [k \in Key |-> "none"]

End(k, how) ==
  /\ outcome[k] = "none"
  /\ outcome' = [outcome EXCEPT ![k] = how]

Create(k) ==
  /\ Command[k].kind = "create"
  /\ Command[k].scoped
  /\ members = NoMembers
  /\ End(k, "SUCCEEDED")
  /\ members' = Founded(Command[k])

Change(k) ==
  /\ Command[k].kind # "create"
  /\ Authorized(members, Command[k])
  /\ Accepted(members, Command[k])
  /\ End(k, "SUCCEEDED")
  /\ members' = Applied(members, Command[k])

Fail(k) == End(k, "FAILED") /\ UNCHANGED members

LedgerNext == \E k \in Key : Create(k) \/ Change(k) \/ Fail(k)

LedgerSpec == LedgerInit /\ [][LedgerNext]_ledgerVars
=============================================================================
