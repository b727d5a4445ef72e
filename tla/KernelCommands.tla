---------------------------- MODULE KernelCommands ----------------------------
(***************************************************************************)
(* The organization commands of the kernel service over its PostgreSQL      *)
(* store (internal/kernel/service.go, adapters/postgres/kernel/store.go).    *)
(* Every command is one READ COMMITTED transaction: it claims its           *)
(* idempotency key, reads the organization row, reads the membership rows   *)
(* with a second statement, decides, updates the row where its version is   *)
(* still the one read, writes back every membership it read, and commits    *)
(* together with the completed idempotency record.  Statements of           *)
(* concurrent transactions interleave; a transaction may be rolled back     *)
(* (error, cancelled context, crash) after any of them.  The memory store   *)
(* holds a mutex for the whole transaction: its behaviours are those in     *)
(* which nothing interleaves.                                               *)
(*                                                                         *)
(* One organization, that is one slug.  The operation, audit record and     *)
(* outbox events of a command are inserted, never updated, by the same      *)
(* transaction and read by none of these commands: a completed idempotency  *)
(* record stands for all of them.                                           *)
(***************************************************************************)
EXTENDS Organization

CONSTANT Worker   \* concurrent command executions

VARIABLES
  version,   \* committed organization row: its version, 0 when there is none
  members,   \* committed membership rows
  outcome,   \* [Key -> state of the operation its idempotency record names]
  tx         \* [Worker -> its open transaction]

vars == <<version, members, outcome, tx>>

Outcomes == {"none", "SUCCEEDED", "FAILED"}
NoTx == [pc |-> "idle", key |-> "none", version |-> 0, members |-> NoMembers]

ASSUME KeyAssumption == "none" \notin Key

TypeOK ==
  /\ version \in Nat
  /\ members \in Memberships
  /\ outcome \in [Key -> Outcomes]
  /\ tx \in [Worker -> [pc : {"idle", "claimed", "row", "read", "written"},
                        key : Key \cup {"none"}, version : Nat,
                        members : Memberships]]

Init ==
  /\ version = 0
  /\ members = NoMembers
  /\ outcome = [k \in Key |-> "none"]
  /\ tx = [w \in Worker |-> NoTx]

CommandOf(w) == Command[tx[w].key]

(* A transaction that has updated or inserted the organization row holds    *)
(* its lock: another one that writes the row waits until it ends.           *)
RowLocked == \E w \in Worker : tx[w].pc = "written"

-----------------------------------------------------------------------------
(* claimCommand.  INSERT .. ON CONFLICT DO NOTHING waits for a transaction  *)
(* that has inserted the same key; when the key is completed the caller     *)
(* gets the stored response and nothing else happens.                       *)
Claim(w, k) ==
  /\ tx[w].pc = "idle"
  /\ outcome[k] = "none"
  /\ \A v \in Worker : tx[v].pc # "idle" => tx[v].key # k
  /\ tx' = [tx EXCEPT ![w] = [NoTx EXCEPT !.pc = "claimed", !.key = k]]
  /\ UNCHANGED <<version, members, outcome>>

(* recordCommandFailure and the commit: the failed operation, its audit     *)
(* record and the completed idempotency record are all that is written.     *)
CommitFailure(w) ==
  /\ outcome' = [outcome EXCEPT ![tx[w].key] = "FAILED"]
  /\ tx' = [tx EXCEPT ![w] = NoTx]
  /\ UNCHANGED <<version, members>>

(* InsertOrganization.  A slug that is taken is CONFLICT: the memory store  *)
(* commits it as a failed command; in PostgreSQL the violated constraint    *)
(* has aborted the transaction, the statements of recordCommandFailure fail *)
(* too and nothing is recorded, which is Rollback.                          *)
InsertOrganization(w) ==
  /\ tx[w].pc = "claimed"
  /\ CommandOf(w).kind = "create"
  /\ CommandOf(w).scoped
  /\ ~RowLocked
  /\ IF version = 0
       THEN /\ tx' = [tx EXCEPT ![w].pc = "written", ![w].version = 1,
                                ![w].members = Founded(CommandOf(w))]
            /\ UNCHANGED <<version, members, outcome>>
       ELSE CommitFailure(w)

(* GetOrganization, first statement.                                        *)
ReadRow(w) ==
  /\ tx[w].pc = "claimed"
  /\ CommandOf(w).kind # "create"
  /\ IF version = 0
       THEN CommitFailure(w)
       ELSE /\ tx' = [tx EXCEPT ![w].pc = "row", ![w].version = version]
            /\ UNCHANGED <<version, members, outcome>>

(* GetOrganization, second statement: it has a snapshot of its own.         *)
ReadMembers(w) ==
  /\ tx[w].pc = "row"
  /\ tx' = [tx EXCEPT ![w].pc = "read", ![w].members = members]
  /\ UNCHANGED <<version, members, outcome>>

Allowed(w) == /\ Authorized(tx[w].members, CommandOf(w))
              /\ Accepted(tx[w].members, CommandOf(w))

(* The caller lacks the scope to create an organization, or the policy,     *)
(* canManageTarget or the aggregate refuses the command.                    *)
Refuse(w) ==
  /\ \/ /\ tx[w].pc = "claimed"
        /\ CommandOf(w).kind = "create"
        /\ ~CommandOf(w).scoped
     \/ /\ tx[w].pc = "read"
        /\ ~Allowed(w)
  /\ CommitFailure(w)

SaveUnchecked(w) ==    \* mutant
  LET after == Applied(tx[w].members, CommandOf(w)) IN
  /\ tx[w].pc = "read" /\ Allowed(w) /\ ~RowLocked
  /\ tx' = [tx EXCEPT ![w].pc = "written", ![w].members = after,
               ![w].version = IF after = tx[w].members
                                THEN version ELSE version + 1]
  /\ UNCHANGED <<version, members, outcome>>

SaveUntouched(w) ==    \* mutant
  /\ tx[w].pc = "read" /\ Allowed(w) /\ ~RowLocked
  /\ version = tx[w].version
  /\ tx' = [tx EXCEPT ![w].pc = "written",
               ![w].members = Applied(tx[w].members, CommandOf(w))]
  /\ UNCHANGED <<version, members, outcome>>

(* The aggregate counts a version for every mutation that changes it        *)
(* (touch); SaveOrganization updates the row where version = expectedVersion *)
(* and upserts all the memberships that were read.                          *)
Save(w) ==
  LET after == Applied(tx[w].members, CommandOf(w)) IN
  /\ tx[w].pc = "read"
  /\ Allowed(w)
  /\ ~RowLocked
  /\ IF version = tx[w].version
       THEN tx' = [tx EXCEPT ![w].pc = "written", ![w].members = after,
                     ![w].version = IF after = tx[w].members
                                      THEN version ELSE version + 1]
       ELSE tx' = [tx EXCEPT ![w] = NoTx]
  /\ UNCHANGED <<version, members, outcome>>

(* recordSuccessfulOperation, the events, the audit record, completeCommand *)
(* and the commit.                                                          *)
Commit(w) ==
  /\ tx[w].pc = "written"
  /\ version' = tx[w].version
  /\ members' = tx[w].members
  /\ outcome' = [outcome EXCEPT ![tx[w].key] = "SUCCEEDED"]
  /\ tx' = [tx EXCEPT ![w] = NoTx]

(* An error of any statement, a cancelled context, a lost connection or a   *)
(* crash before the commit: nothing of the transaction remains.             *)
Rollback(w) ==
  /\ tx[w].pc # "idle"
  /\ tx' = [tx EXCEPT ![w] = NoTx]
  /\ UNCHANGED <<version, members, outcome>>

Next ==
  \E w \in Worker :
    \/ \E k \in Key : Claim(w, k)
    \/ InsertOrganization(w) \/ ReadRow(w) \/ ReadMembers(w)
    \/ Refuse(w) \/ Save(w) \/ Commit(w) \/ Rollback(w)

Spec == Init /\ [][Next]_vars

-----------------------------------------------------------------------------
(* An organization always keeps an active owner, although two transactions  *)
(* may each take the role, the state or the membership of a different owner *)
(* after both have counted two.                                             *)
OwnerRemains == version > 0 => ActiveOwners(members) # {}

(* A transaction that has read the memberships at what is still the current *)
(* version has read the current memberships, although it read the row and   *)
(* the memberships with two statements and other commands commit between    *)
(* them: the compare-and-swap on the row protects all of its memberships.   *)
SnapshotsAreCurrent ==
  \A w \in Worker :
    (tx[w].pc = "read" /\ tx[w].version = version) => tx[w].members = members

(* The interleaved transactions take effect as if each command were one     *)
(* instant: a success was authorised and acceptable on the memberships it   *)
(* changed, happened once for its key, and overwrote no other command's     *)
(* change.                                                                  *)
Ledger == INSTANCE MembershipLedger
ImplementsLedger == Ledger!LedgerSpec
=============================================================================
