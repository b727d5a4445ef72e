------------------------ MODULE KernelCommands_proofs ------------------------
(***************************************************************************)
(* The organization commands of the kernel keep an active owner and         *)
(* implement the membership ledger, for every set of principals, keys,      *)
(* commands and concurrent transactions.                                    *)
(*                                                                         *)
(* The argument: the row of an organization changes its version whenever    *)
(* its memberships change, so a transaction that finds the version it has   *)
(* read has also read the memberships that are there now                    *)
(* (SnapshotsAreCurrent), and until it commits nobody else can change them, *)
(* because it holds the row (WritesAreCurrent).  What it commits is         *)
(* therefore the command applied to the committed memberships, which keeps  *)
(* an owner (AppliedKeepsAnOwner) and is a step of the ledger.              *)
(***************************************************************************)
EXTENDS KernelCommands, TLAPS

-----------------------------------------------------------------------------
(* The inductive invariant.                                                 *)

(* A transaction holds its key, which is not completed, alone.              *)
KeysAreHeld ==
  \A w \in Worker : tx[w].pc # "idle" =>
    /\ tx[w].key \in Key
    /\ outcome[tx[w].key] = "none"
    /\ \A v \in Worker : (v # w /\ tx[v].pc # "idle") => tx[v].key # tx[w].key

(* What a transaction that changes an organization has read is never newer  *)
(* than the committed row.                                                  *)
ReadsAreOld ==
  \A w \in Worker : tx[w].pc \in {"row", "read"} =>
    /\ Command[tx[w].key].kind # "create"
    /\ tx[w].version > 0
    /\ tx[w].version <= version

(* What a transaction is about to commit is its command applied to the      *)
(* committed memberships, and no other transaction has written the row.     *)
WritesAreCurrent ==
  \A w \in Worker : tx[w].pc = "written" =>
    /\ \A v \in Worker : tx[v].pc = "written" => v = w
    /\ \/ /\ Command[tx[w].key].kind = "create"
          /\ Command[tx[w].key].scoped
          /\ version = 0
          /\ tx[w].version = 1
          /\ tx[w].members = Founded(Command[tx[w].key])
       \/ /\ Command[tx[w].key].kind # "create"
          /\ version > 0
          /\ Authorized(members, Command[tx[w].key])
          /\ Accepted(members, Command[tx[w].key])
          /\ tx[w].members = Applied(members, Command[tx[w].key])
          /\ tx[w].version \in {version, version + 1}
          /\ tx[w].version = version => tx[w].members = members

Unfounded == version = 0 => members = NoMembers

IInv == /\ TypeOK
        /\ KeysAreHeld
        /\ ReadsAreOld
        /\ SnapshotsAreCurrent
        /\ WritesAreCurrent
        /\ Unfounded
        /\ OwnerRemains

-----------------------------------------------------------------------------
(* Facts about the aggregate.                                               *)

(* The memberships of a new organization are well formed and its creator is *)
(* an active owner.                                                         *)
LEMMA FoundedHasAnOwner ==
  ASSUME NEW c \in Commands
  PROVE  Founded(c) \in Memberships /\ ActiveOwners(Founded(c)) # {}
<1>1. c.actor \in Principal
  BY DEF Commands
<1>2. Founded(c) \in Memberships
  BY <1>1 DEF Founded, NoMembers, Memberships, Membership, NoMembership, Roles,
              States
<1>3. Founded(c)[c.actor] = [role |-> "owner", state |-> "ACTIVE"]
  BY <1>1 DEF Founded, NoMembers
<1> QED
  BY <1>1, <1>2, <1>3 DEF ActiveOwners

(* A command that the aggregate accepts yields well-formed memberships.     *)
LEMMA AppliedType ==
  ASSUME NEW m \in Memberships, NEW c \in Commands, c.kind # "create",
         Accepted(m, c)
  PROVE  Applied(m, c) \in Memberships
<1>1. /\ c.actor \in Principal /\ c.target \in Principal /\ c.role \in Roles
      /\ c.kind \in {"invite", "accept", "changeRole", "suspend", "remove"}
  BY DEF Commands
<1>2. \A p \in Principal : m[p].state # "none" =>
                             m[p] \in [role : Roles, state : States]
  BY DEF Memberships, Membership, NoMembership
<1>3. CASE c.kind = "accept"
  <2>1. Applied(m, c) = [m EXCEPT ![c.actor] = [m[c.actor] EXCEPT !.state = "ACTIVE"]]
    BY <1>3 DEF Applied
  <2>2. m[c.actor] \in [role : Roles, state : States]
    BY <1>1, <1>2, <1>3 DEF Accepted
  <2>3. [m[c.actor] EXCEPT !.state = "ACTIVE"] \in [role : Roles, state : States]
    BY <2>2 DEF States
  <2> QED  BY <1>1, <2>1, <2>3 DEF Memberships, Membership
<1>4. CASE c.kind = "invite"
  <2>1. Applied(m, c) = [m EXCEPT ![c.target] = [role |-> c.role, state |-> "INVITED"]]
    BY <1>4 DEF Applied
  <2>2. [role |-> c.role, state |-> "INVITED"] \in [role : Roles, state : States]
    BY <1>1 DEF States
  <2> QED  BY <1>1, <2>1, <2>2 DEF Memberships, Membership
<1>5. CASE c.kind = "changeRole"
  <2>1. Applied(m, c) = [m EXCEPT ![c.target] = [m[c.target] EXCEPT !.role = c.role]]
    BY <1>5 DEF Applied
  <2>2. m[c.target] \in [role : Roles, state : States]
    BY <1>1, <1>2, <1>5 DEF Accepted
  <2>3. [m[c.target] EXCEPT !.role = c.role] \in [role : Roles, state : States]
    BY <1>1, <2>2
  <2> QED  BY <1>1, <2>1, <2>3 DEF Memberships, Membership
<1>6. CASE c.kind = "suspend"
  <2>1. Applied(m, c) = [m EXCEPT ![c.target] = [m[c.target] EXCEPT !.state = "SUSPENDED"]]
    BY <1>6 DEF Applied
  <2>2. m[c.target] \in [role : Roles, state : States]
    BY <1>1, <1>2, <1>6 DEF Accepted
  <2>3. [m[c.target] EXCEPT !.state = "SUSPENDED"] \in [role : Roles, state : States]
    BY <2>2 DEF States
  <2> QED  BY <1>1, <2>1, <2>3 DEF Memberships, Membership
<1>7. CASE c.kind = "remove"
  <2>1. Applied(m, c) = [m EXCEPT ![c.target] = [m[c.target] EXCEPT !.state = "REMOVED"]]
    BY <1>7 DEF Applied
  <2>2. m[c.target] \in [role : Roles, state : States]
    BY <1>1, <1>2, <1>7 DEF Accepted
  <2>3. [m[c.target] EXCEPT !.state = "REMOVED"] \in [role : Roles, state : States]
    BY <2>2 DEF States
  <2> QED  BY <1>1, <2>1, <2>3 DEF Memberships, Membership
<1> QED
  BY <1>1, <1>3, <1>4, <1>5, <1>6, <1>7

(* A command that the aggregate accepts leaves an active owner when there   *)
(* was one: it touches one membership, and not the last owner's.            *)
LEMMA AppliedKeepsAnOwner ==
  ASSUME NEW m \in Memberships, NEW c \in Commands, c.kind # "create",
         Accepted(m, c), ActiveOwners(m) # {}
  PROVE  ActiveOwners(Applied(m, c)) # {}
<1> DEFINE owner == [role |-> "owner", state |-> "ACTIVE"]
<1>1. /\ c.actor \in Principal /\ c.target \in Principal
      /\ c.kind \in {"invite", "accept", "changeRole", "suspend", "remove"}
  BY DEF Commands
<1>2. PICK p \in Principal : m[p] = owner
  BY DEF ActiveOwners
<1>3. CASE c.kind = "accept"
  <2>1. p # c.actor
    BY <1>2, <1>3 DEF Accepted
  <2>2. Applied(m, c)[p] = owner
    BY <1>2, <1>3, <2>1 DEF Applied, Memberships
  <2> QED  BY <2>2 DEF ActiveOwners
<1>4. CASE c.kind = "invite"
  <2>1. p # c.target
    BY <1>2, <1>4 DEF Accepted
  <2>2. Applied(m, c)[p] = owner
    BY <1>2, <1>4, <2>1 DEF Applied, Memberships
  <2> QED  BY <2>2 DEF ActiveOwners
<1>5. CASE c.kind = "changeRole" /\ c.role = "owner"
  <2>1. Applied(m, c) = [m EXCEPT ![c.target] = [m[c.target] EXCEPT !.role = "owner"]]
    BY <1>5 DEF Applied
  <2>2. Applied(m, c)[p] = owner
    BY <1>1, <1>2, <2>1 DEF Memberships
  <2> QED  BY <2>2 DEF ActiveOwners
<1>6. CASE c.kind \in {"suspend", "remove"} \/ (c.kind = "changeRole" /\ c.role # "owner")
  <2>1. ActiveOwners(m) # {c.target}
    BY <1>6 DEF Accepted, IsLastOwner
  <2>2. PICK q \in Principal : m[q] = owner /\ q # c.target
    BY <1>2, <2>1 DEF ActiveOwners
  <2>3. Applied(m, c)[q] = owner
    BY <1>6, <2>2 DEF Applied, Memberships
  <2> QED  BY <2>3 DEF ActiveOwners
<1> QED
  BY <1>1, <1>3, <1>4, <1>5, <1>6

-----------------------------------------------------------------------------
(* The invariant holds initially.                                           *)
LEMMA InitIInv == Init => IInv
BY KeyAssumption DEF Init, IInv, TypeOK, KeysAreHeld, ReadsAreOld, SnapshotsAreCurrent,
   WritesAreCurrent, Unfounded, OwnerRemains, NoTx, NoMembers, Memberships,
   Membership, Outcomes

(* A step that ends a transaction and may complete its key, and commits     *)
(* nothing of the organization.                                             *)
Ends(w) ==
  /\ tx[w].pc # "idle"
  /\ tx' = [tx EXCEPT ![w] = NoTx]
  /\ \/ outcome' = outcome
     \/ outcome' = [outcome EXCEPT ![tx[w].key] = "FAILED"]
  /\ UNCHANGED <<version, members>>

(* Refusals, failures and rollbacks preserve the invariant.                 *)
LEMMA EndsIInv ==
  ASSUME IInv, NEW w \in Worker, Ends(w)
  PROVE  IInv'
<1> USE DEF IInv
<1>1. tx[w].key \in Key
  BY DEF KeysAreHeld, Ends
<1>2. TypeOK'
  BY <1>1 DEF TypeOK, Ends, NoTx, NoMembers, Memberships, Membership, Outcomes
<1>3. \A v \in Worker : tx'[v] = IF v = w THEN NoTx ELSE tx[v]
  BY DEF Ends, TypeOK
<1>4. KeysAreHeld'
  BY <1>1, <1>3 DEF KeysAreHeld, Ends, TypeOK, NoTx
<1>5. ReadsAreOld' /\ SnapshotsAreCurrent' /\ Unfounded' /\ OwnerRemains'
  BY <1>3 DEF ReadsAreOld, SnapshotsAreCurrent, Unfounded, OwnerRemains, Ends, NoTx
<1>6. WritesAreCurrent'
  BY <1>3 DEF WritesAreCurrent, Ends, NoTx
<1> QED
  BY <1>2, <1>4, <1>5, <1>6

(* Claiming a key preserves the invariant.                                  *)
LEMMA ClaimIInv ==
  ASSUME IInv, NEW w \in Worker, NEW k \in Key, Claim(w, k)
  PROVE  IInv'
<1> USE DEF IInv
<1>1. \A v \in Worker : tx'[v] = IF v = w
                         THEN [NoTx EXCEPT !.pc = "claimed", !.key = k] ELSE tx[v]
  BY DEF Claim, TypeOK
<1>2. TypeOK'
  BY DEF TypeOK, Claim, NoTx, NoMembers, Memberships, Membership
<1>3. KeysAreHeld'
  BY <1>1 DEF KeysAreHeld, Claim, NoTx
<1>4. ReadsAreOld' /\ SnapshotsAreCurrent' /\ Unfounded' /\ OwnerRemains'
  BY <1>1 DEF ReadsAreOld, SnapshotsAreCurrent, Unfounded, OwnerRemains, Claim, NoTx
<1>5. WritesAreCurrent'
  BY <1>1 DEF WritesAreCurrent, Claim, NoTx
<1> QED
  BY <1>2, <1>3, <1>4, <1>5

(* Reading the row preserves the invariant.                                 *)
LEMMA ReadRowIInv ==
  ASSUME IInv, NEW w \in Worker, ReadRow(w), version # 0
  PROVE  IInv'
<1> USE DEF IInv
<1> DEFINE read == [tx[w] EXCEPT !.pc = "row", !.version = version]
<1>1. \A v \in Worker : tx'[v] = IF v = w THEN read ELSE tx[v]
  BY DEF ReadRow, TypeOK
<1>2. TypeOK'
  BY DEF TypeOK, ReadRow
<1>3. /\ read.pc = "row" /\ read.key = tx[w].key /\ read.version = version
      /\ UNCHANGED <<version, members, outcome>>
  BY DEF ReadRow, TypeOK
<1> HIDE DEF read
<1>4. KeysAreHeld'
  BY <1>1, <1>3 DEF KeysAreHeld, ReadRow
<1>5. ReadsAreOld'
  BY <1>1, <1>3 DEF ReadsAreOld, ReadRow, CommandOf, TypeOK
<1>6. SnapshotsAreCurrent' /\ Unfounded' /\ OwnerRemains' /\ WritesAreCurrent'
  BY <1>1, <1>3 DEF SnapshotsAreCurrent, Unfounded, OwnerRemains, WritesAreCurrent
<1> QED
  BY <1>2, <1>4, <1>5, <1>6

(* Reading the memberships preserves the invariant.                         *)
LEMMA ReadMembersIInv ==
  ASSUME IInv, NEW w \in Worker, ReadMembers(w)
  PROVE  IInv'
<1> USE DEF IInv
<1> DEFINE read == [tx[w] EXCEPT !.pc = "read", !.members = members]
<1>1. \A v \in Worker : tx'[v] = IF v = w THEN read ELSE tx[v]
  BY DEF ReadMembers, TypeOK
<1>2. TypeOK'
  BY DEF TypeOK, ReadMembers
<1>3. /\ read.pc = "read" /\ read.key = tx[w].key /\ read.version = tx[w].version
      /\ read.members = members
      /\ UNCHANGED <<version, members, outcome>>
  BY DEF ReadMembers, TypeOK
<1> HIDE DEF read
<1>4. KeysAreHeld'
  <2>1. tx[w].pc # "idle"
    BY DEF ReadMembers
  <2>2. \A v \in Worker : tx'[v].key = tx[v].key
                         /\ (tx'[v].pc # "idle" => tx[v].pc # "idle")
    BY <1>1, <1>3, <2>1
  <2> QED  BY <1>3, <2>2 DEF KeysAreHeld
<1>5. ReadsAreOld'
  BY <1>1, <1>3 DEF ReadsAreOld, ReadMembers
<1>6. SnapshotsAreCurrent' /\ Unfounded' /\ OwnerRemains' /\ WritesAreCurrent'
  BY <1>1, <1>3 DEF SnapshotsAreCurrent, Unfounded, OwnerRemains, WritesAreCurrent
<1> QED
  BY <1>2, <1>4, <1>5, <1>6

(* Inserting the organization row preserves the invariant.                  *)
LEMMA InsertIInv ==
  ASSUME IInv, NEW w \in Worker, InsertOrganization(w), version = 0
  PROVE  IInv'
<1> USE DEF IInv
<1>1. CommandOf(w) \in Commands
  BY CommandAssumption DEF CommandOf, KeysAreHeld, InsertOrganization
<1> DEFINE insert == [tx[w] EXCEPT !.pc = "written", !.version = 1,
                                   !.members = Founded(CommandOf(w))]
<1>2. Founded(CommandOf(w)) \in Memberships
  BY <1>1, FoundedHasAnOwner
<1>3. tx' = [tx EXCEPT ![w] = insert] /\ UNCHANGED <<version, members, outcome>>
  BY DEF InsertOrganization
<1>4. insert \in [pc : {"idle", "claimed", "row", "read", "written"},
                  key : Key \cup {"none"}, version : Nat, members : Memberships]
  BY <1>2 DEF TypeOK
<1>5. TypeOK'
  BY <1>3, <1>4 DEF TypeOK
<1>6. \A v \in Worker : tx'[v] = IF v = w THEN insert ELSE tx[v]
  BY <1>3 DEF TypeOK
<1>7. /\ insert.pc = "written" /\ insert.key = tx[w].key /\ insert.version = 1
      /\ insert.members = Founded(Command[tx[w].key])
  BY DEF TypeOK, CommandOf
<1> HIDE DEF insert
<1>8. KeysAreHeld'
  BY <1>3, <1>6, <1>7 DEF KeysAreHeld, InsertOrganization
<1>9. ReadsAreOld' /\ SnapshotsAreCurrent' /\ Unfounded' /\ OwnerRemains'
  BY <1>3, <1>6, <1>7 DEF ReadsAreOld, SnapshotsAreCurrent, Unfounded, OwnerRemains
<1>10. WritesAreCurrent'
  BY <1>3, <1>6, <1>7 DEF WritesAreCurrent, InsertOrganization, RowLocked, CommandOf
<1> QED
  BY <1>5, <1>8, <1>9, <1>10

(* Updating the row at the version that was read preserves the invariant.   *)
LEMMA SaveIInv ==
  ASSUME IInv, NEW w \in Worker, Save(w), version = tx[w].version
  PROVE  IInv'
<1> USE DEF IInv
<1> DEFINE after == Applied(tx[w].members, CommandOf(w))
           saved == [tx[w] EXCEPT !.pc = "written", !.members = after,
                       !.version = IF after = tx[w].members
                                     THEN version ELSE version + 1]
<1>1. /\ tx[w].pc = "read" /\ tx[w].members = members /\ tx[w].key \in Key
      /\ CommandOf(w).kind # "create" /\ version > 0
  BY DEF Save, SnapshotsAreCurrent, KeysAreHeld, ReadsAreOld, CommandOf
<1>2. /\ CommandOf(w) \in Commands /\ members \in Memberships
      /\ Authorized(members, CommandOf(w)) /\ Accepted(members, CommandOf(w))
  BY <1>1, CommandAssumption DEF CommandOf, Save, Allowed, TypeOK
<1>3. after \in Memberships
  BY <1>1, <1>2, AppliedType
<1> HIDE DEF after
<1>4. tx' = [tx EXCEPT ![w] = saved] /\ UNCHANGED <<version, members, outcome>>
  BY DEF Save, after
<1>5. saved \in [pc : {"idle", "claimed", "row", "read", "written"},
                 key : Key \cup {"none"}, version : Nat, members : Memberships]
  <2>1. (IF after = tx[w].members THEN version ELSE version + 1) \in Nat
    BY DEF TypeOK
  <2> QED  BY <1>3, <2>1 DEF TypeOK
<1>6. TypeOK'
  BY <1>4, <1>5 DEF TypeOK
<1>7. \A v \in Worker : tx'[v] = IF v = w THEN saved ELSE tx[v]
  BY <1>4 DEF TypeOK
<1>8. /\ saved.pc = "written" /\ saved.key = tx[w].key /\ saved.members = after
      /\ saved.version \in {version, version + 1}
      /\ saved.version = version => after = members
  BY <1>1 DEF TypeOK
<1> HIDE DEF saved
<1>9. KeysAreHeld'
  BY <1>1, <1>4, <1>7, <1>8 DEF KeysAreHeld
<1>10. ReadsAreOld' /\ SnapshotsAreCurrent' /\ Unfounded' /\ OwnerRemains'
  BY <1>4, <1>7, <1>8 DEF ReadsAreOld, SnapshotsAreCurrent, Unfounded, OwnerRemains
<1>11. WritesAreCurrent'
  <2>1. after = Applied(members, Command[tx[w].key])
    BY <1>1 DEF after, CommandOf
  <2> QED
    BY <1>1, <1>2, <1>4, <1>7, <1>8, <2>1 DEF WritesAreCurrent, Save, RowLocked, CommandOf
<1> QED
  BY <1>6, <1>9, <1>10, <1>11

(* What a transaction commits is well formed, has an owner, and counts a    *)
(* version when it changes the memberships.                                 *)
LEMMA CommitFacts ==
  ASSUME IInv, NEW w \in Worker, tx[w].pc = "written"
  PROVE  /\ tx[w].version > 0 /\ tx[w].version >= version
         /\ tx[w].version = version => tx[w].members = members
         /\ ActiveOwners(tx[w].members) # {}
<1> USE DEF IInv
<1>1. Command[tx[w].key] \in Commands
  BY CommandAssumption DEF KeysAreHeld
<1>2. CASE Command[tx[w].key].kind = "create"
  BY <1>1, <1>2, FoundedHasAnOwner DEF WritesAreCurrent, TypeOK
<1>3. CASE Command[tx[w].key].kind # "create"
  <2>1. /\ version > 0 /\ Accepted(members, Command[tx[w].key])
        /\ tx[w].members = Applied(members, Command[tx[w].key])
        /\ tx[w].version \in {version, version + 1}
        /\ tx[w].version = version => tx[w].members = members
    BY <1>3 DEF WritesAreCurrent
  <2>2. members \in Memberships /\ ActiveOwners(members) # {}
    BY <2>1 DEF TypeOK, OwnerRemains
  <2>3. ActiveOwners(tx[w].members) # {}
    BY <1>1, <1>3, <2>1, <2>2, AppliedKeepsAnOwner
  <2> QED
    BY <2>1, <2>3 DEF TypeOK
<1> QED
  BY <1>2, <1>3

(* Committing preserves the invariant.                                      *)
LEMMA CommitIInv ==
  ASSUME IInv, NEW w \in Worker, Commit(w)
  PROVE  IInv'
<1> USE DEF IInv
<1>1. tx[w].pc = "written" /\ tx[w].key \in Key
  BY DEF Commit, KeysAreHeld
<1>2. /\ tx[w].version > 0 /\ tx[w].version >= version
      /\ tx[w].version = version => tx[w].members = members
      /\ ActiveOwners(tx[w].members) # {}
  BY <1>1, CommitFacts
<1>3. /\ version' = tx[w].version /\ members' = tx[w].members
      /\ outcome' = [outcome EXCEPT ![tx[w].key] = "SUCCEEDED"]
      /\ \A v \in Worker : tx'[v] = IF v = w THEN NoTx ELSE tx[v]
  BY DEF Commit, TypeOK
<1>4. TypeOK'
  BY <1>1 DEF TypeOK, Commit, NoTx, NoMembers, Memberships, Membership, Outcomes
<1>5. KeysAreHeld'
  <2>1. \A v \in Worker : tx'[v].pc # "idle" =>
          /\ v # w /\ tx'[v] = tx[v] /\ tx[v].key # tx[w].key
    BY <1>1, <1>3 DEF KeysAreHeld, NoTx
  <2>2. \A k \in Key : k # tx[w].key => outcome'[k] = outcome[k]
    BY <1>3 DEF TypeOK
  <2> QED  BY <2>1, <2>2 DEF KeysAreHeld
<1>6. ReadsAreOld' /\ SnapshotsAreCurrent'
  BY <1>2, <1>3 DEF ReadsAreOld, SnapshotsAreCurrent, TypeOK, NoTx
<1>7. Unfounded' /\ OwnerRemains'
  BY <1>2, <1>3 DEF Unfounded, OwnerRemains
<1>8. WritesAreCurrent'
  BY <1>1, <1>3 DEF WritesAreCurrent, NoTx
<1> QED
  BY <1>4, <1>5, <1>6, <1>7, <1>8

-----------------------------------------------------------------------------
(* Every step preserves the invariant.                                      *)
LEMMA NextIInv == IInv /\ [Next]_vars => IInv'
<1> SUFFICES ASSUME IInv, [Next]_vars PROVE IInv'
  OBVIOUS
<1>1. CASE UNCHANGED vars
  <2>1. /\ version' = version /\ members' = members /\ outcome' = outcome
        /\ tx' = tx
    BY <1>1 DEF vars
  <2>2. TypeOK' /\ KeysAreHeld' /\ ReadsAreOld' /\ SnapshotsAreCurrent' /\ Unfounded'
    BY <2>1 DEF IInv, TypeOK, KeysAreHeld, ReadsAreOld, SnapshotsAreCurrent, Unfounded
  <2>3. OwnerRemains' /\ WritesAreCurrent'
    BY <2>1 DEF IInv, OwnerRemains, WritesAreCurrent
  <2> QED  BY <2>2, <2>3 DEF IInv
<1>2. ASSUME NEW w \in Worker, NEW k \in Key, Claim(w, k) PROVE IInv'
  BY <1>2, ClaimIInv
<1>3. ASSUME NEW w \in Worker, InsertOrganization(w) PROVE IInv'
  <2>1. CASE version = 0
    BY <1>3, <2>1, InsertIInv
  <2>2. CASE version # 0
    BY <1>3, <2>2, EndsIInv DEF InsertOrganization, CommitFailure, Ends
  <2> QED  BY <2>1, <2>2
<1>4. ASSUME NEW w \in Worker, ReadRow(w) PROVE IInv'
  <2>1. CASE version # 0
    BY <1>4, <2>1, ReadRowIInv
  <2>2. CASE version = 0
    BY <1>4, <2>2, EndsIInv DEF ReadRow, CommitFailure, Ends
  <2> QED  BY <2>1, <2>2
<1>5. ASSUME NEW w \in Worker, ReadMembers(w) PROVE IInv'
  BY <1>5, ReadMembersIInv
<1>6. ASSUME NEW w \in Worker, Refuse(w) PROVE IInv'
  BY <1>6, EndsIInv DEF Refuse, CommitFailure, Ends
<1>7. ASSUME NEW w \in Worker, Save(w) PROVE IInv'
  <2>1. CASE version = tx[w].version
    BY <1>7, <2>1, SaveIInv
  <2>2. CASE version # tx[w].version
    BY <1>7, <2>2, EndsIInv DEF Save, Ends
  <2> QED  BY <2>1, <2>2
<1>8. ASSUME NEW w \in Worker, Commit(w) PROVE IInv'
  BY <1>8, CommitIInv
<1>9. ASSUME NEW w \in Worker, Rollback(w) PROVE IInv'
  BY <1>9, EndsIInv DEF Rollback, Ends
<1> QED
  BY <1>1, <1>2, <1>3, <1>4, <1>5, <1>6, <1>7, <1>8, <1>9 DEF Next

(* The inductive invariant holds in every reachable state.                  *)
THEOREM CommandsInvariance == Spec => []IInv
BY InitIInv, NextIInv, PTL DEF Spec

(* An organization keeps an active owner, whatever its commands and their   *)
(* transactions do concurrently.                                            *)
THEOREM AnOwnerRemains == Spec => []OwnerRemains
<1>1. IInv => OwnerRemains
  BY DEF IInv
<1> QED
  BY <1>1, CommandsInvariance, PTL

(* The version of the row vouches for the memberships read after it.        *)
THEOREM SnapshotsHold == Spec => [](TypeOK /\ SnapshotsAreCurrent)
<1>1. IInv => TypeOK /\ SnapshotsAreCurrent
  BY DEF IInv
<1> QED
  BY <1>1, CommandsInvariance, PTL

(* The ledger and the transactions speak of the same aggregate.             *)
LEMMA SameAggregate ==
  /\ Ledger!NoMembers = NoMembers
  /\ \A c : Ledger!Founded(c) = Founded(c)
  /\ \A m, c : /\ Ledger!Authorized(m, c) = Authorized(m, c)
              /\ Ledger!Accepted(m, c) = Accepted(m, c)
              /\ Ledger!Applied(m, c) = Applied(m, c)
<1>1. Ledger!NoMembers = NoMembers
  BY DEF Ledger!NoMembers, NoMembers, Ledger!NoMembership, NoMembership
<1>2. \A c : Ledger!Founded(c) = Founded(c)
  BY <1>1 DEF Ledger!Founded, Founded
<1>3. \A m, c : Ledger!PolicyAllows(m, c) = PolicyAllows(m, c)
  BY DEF Ledger!PolicyAllows, PolicyAllows
<1>4. \A m, c : Ledger!CanManageTarget(m, c) = CanManageTarget(m, c)
  BY DEF Ledger!CanManageTarget, CanManageTarget
<1>5. \A m, p : Ledger!IsLastOwner(m, p) = IsLastOwner(m, p)
  BY DEF Ledger!IsLastOwner, IsLastOwner, Ledger!ActiveOwners, ActiveOwners
<1>6. \A m, c : Ledger!Authorized(m, c) = Authorized(m, c)
  BY <1>3, <1>4 DEF Ledger!Authorized, Authorized
<1>7. \A m, c : Ledger!Accepted(m, c) = Accepted(m, c)
  BY <1>5 DEF Ledger!Accepted, Accepted
<1>8. \A m, c : Ledger!Applied(m, c) = Applied(m, c)
  BY DEF Ledger!Applied, Applied
<1> QED
  BY <1>1, <1>2, <1>6, <1>7, <1>8

(* The interleaved transactions implement the ledger of instantaneous       *)
(* commands.                                                                *)
THEOREM CommandsRefinement == Spec => ImplementsLedger
<1> USE DEF Ledger!ledgerVars
<1>1. Init => Ledger!LedgerInit
  BY SameAggregate DEF Init, Ledger!LedgerInit
<1>2. IInv /\ [Next]_vars => [Ledger!LedgerNext]_(Ledger!ledgerVars)
  <2> SUFFICES ASSUME IInv, [Next]_vars
               PROVE  Ledger!LedgerNext \/ UNCHANGED <<members, outcome>>
    OBVIOUS
  <2>1. ASSUME NEW w \in Worker, CommitFailure(w), tx[w].pc # "idle"
        PROVE  Ledger!LedgerNext
    BY <2>1 DEF CommitFailure, Ledger!LedgerNext, Ledger!Fail, Ledger!End, IInv,
                KeysAreHeld
  <2>2. ASSUME NEW w \in Worker, Commit(w)
        PROVE  Ledger!LedgerNext
    <3>1. /\ tx[w].pc = "written" /\ tx[w].key \in Key
          /\ outcome[tx[w].key] = "none"
          /\ members' = tx[w].members
          /\ outcome' = [outcome EXCEPT ![tx[w].key] = "SUCCEEDED"]
      BY <2>2 DEF Commit, IInv, KeysAreHeld
    <3>2. CASE Command[tx[w].key].kind = "create"
      <4>1. /\ Command[tx[w].key].scoped /\ members = NoMembers
            /\ members' = Founded(Command[tx[w].key])
        BY <3>1, <3>2 DEF IInv, WritesAreCurrent, Unfounded
      <4>2. Ledger!Create(tx[w].key)
        BY <3>1, <3>2, <4>1, SameAggregate DEF Ledger!Create, Ledger!End
      <4> QED  BY <3>1, <4>2 DEF Ledger!LedgerNext
    <3>3. CASE Command[tx[w].key].kind # "create"
      <4>1. /\ Authorized(members, Command[tx[w].key])
            /\ Accepted(members, Command[tx[w].key])
            /\ members' = Applied(members, Command[tx[w].key])
        BY <3>1, <3>3 DEF IInv, WritesAreCurrent
      <4>2. Ledger!Change(tx[w].key)
        BY <3>1, <3>3, <4>1, SameAggregate DEF Ledger!Change, Ledger!End
      <4> QED  BY <3>1, <4>2 DEF Ledger!LedgerNext
    <3> QED  BY <3>2, <3>3
  <2>3. CASE UNCHANGED vars
    BY <2>3 DEF vars
  <2>4. ASSUME NEW w \in Worker,
               \/ \E k \in Key : Claim(w, k)
               \/ ReadMembers(w) \/ Save(w) \/ Rollback(w)
        PROVE  UNCHANGED <<members, outcome>>
    BY <2>4 DEF Claim, ReadMembers, Save, Rollback
  <2>5. ASSUME NEW w \in Worker,
               InsertOrganization(w) \/ ReadRow(w) \/ Refuse(w)
        PROVE  \/ CommitFailure(w) /\ tx[w].pc # "idle"
               \/ UNCHANGED <<members, outcome>>
    BY <2>5 DEF InsertOrganization, ReadRow, Refuse
  <2> QED
    BY <2>1, <2>2, <2>3, <2>4, <2>5 DEF Next
<1> QED
  BY <1>1, <1>2, CommandsInvariance, PTL DEF Spec, ImplementsLedger, Ledger!LedgerSpec
=============================================================================
