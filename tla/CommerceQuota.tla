----------------------------- MODULE CommerceQuota -----------------------------
(***************************************************************************)
(* Quota reservations (Reserve, Commit and Release of                       *)
(* internal/commerce/application/service.go).  Reservations of one resource *)
(* are modelled; those of another are counted apart.                        *)
(*                                                                         *)
(* Reserve counts at the date the client names, or at a reading of the      *)
(* clock taken before its transaction, so at any date at all.  Commit reads *)
(* its reservation and then the clock inside a SERIALIZABLE transaction and *)
(* takes effect later: PostgreSQL aborts it when the row has changed        *)
(* meanwhile, and lets it pass when only the clock has.  The version of a   *)
(* row changes with its state, so comparing it is comparing the row.        *)
(***************************************************************************)
EXTENDS Commerce

CONSTANTS
  Key,        \* idempotency keys of reservations, one reservation for each
  Quantity,   \* quantities that are asked for
  Worker      \* concurrent Commit and Release transactions

ASSUME KeyAssumption == IsFiniteSet(Key)
ASSUME QuantityAssumption == Quantity \subseteq Nat \ {0}

VARIABLES
  quota,      \* [Tenant -> [Key -> the reservation's row]]
  call,       \* [Worker -> the row its transaction has read and what it will write]
  overlooked  \* ghost: the reservations some Reserve took for expired

quotaVars == <<quota, call, overlooked>>
allQuotaVars == <<commerceVars, quotaVars>>

NoReservation == [state |-> "none"]
Reservations ==
  [state : {"RESERVED", "COMMITTED", "RELEASED"}, quantity : Quantity, expires : Int]
NoCall == [state |-> "idle"]
Calls == [state : {"COMMITTED", "RELEASED"}, tenant : Tenant, key : Key,
          read : {r \in Reservations : r.state # "RELEASED"}]

QuotaTypeOK ==
  /\ CommerceTypeOK
  /\ quota \in [Tenant -> [Key -> Reservations \cup {NoReservation}]]
  /\ call \in [Worker -> Calls \cup {NoCall}]
  /\ overlooked \subseteq Tenant \X Key

QuotaInit ==
  /\ CommerceInit
  /\ quota = [t \in Tenant |-> [k \in Key |-> NoReservation]]
  /\ call = [w \in Worker |-> NoCall]
  /\ overlooked = {}

-----------------------------------------------------------------------------
(* Of the reservations of one tenant, those that hold their units.          *)
Held(rows) == {k \in Key : rows[k].state \in {"RESERVED", "COMMITTED"}}

CountedReserved(rows, at) == {k \in Held(rows) : at < rows[k].expires}    \* mutant

(* QuotaReservation.CountsAgainstLimit.                                     *)
Counted(rows, at) ==
  {k \in Held(rows) : rows[k].state = "COMMITTED" \/ at < rows[k].expires}

Expired(rows, at) ==
  {k \in Key : rows[k].state = "RESERVED" /\ rows[k].expires <= at}

(* The units of a set of reservations, one by one.                          *)
Units(rows, K) == UNION {{k} \X (1..rows[k].quantity) : k \in K}

(* activeQuota: int64 arithmetic that saturates, against a limit that is    *)
(* never negative, so the comparison is that of the integers.               *)
ActiveQuota(t, at) == Cardinality(Units(quota[t], Counted(quota[t], at)))

(* A key that has a reservation is answered with it, or refused when the    *)
(* request differs; neither changes anything.                               *)
Reserve(t, k, quantity, at, expires) ==
  /\ quota[t][k] = NoReservation
  /\ at < expires
  /\ AllowsAllocation(t, at)
  /\ quantity + ActiveQuota(t, at) <= SpecOf(t).limit
  /\ quota' = [quota EXCEPT ![t][k] =
                 [state |-> "RESERVED", quantity |-> quantity, expires |-> expires]]
  /\ overlooked' = overlooked \cup ({t} \X Expired(quota[t], at))
  /\ UNCHANGED <<commerceVars, call>>

(* transitionQuota up to its write: the row, then the clock.                *)
BeginCommit(w, t, k) ==
  /\ call[w] = NoCall
  /\ quota[t][k].state = "RESERVED"
  /\ now < quota[t][k].expires
  /\ call' = [call EXCEPT ![w] =
                [state |-> "COMMITTED", tenant |-> t, key |-> k, read |-> quota[t][k]]]
  /\ UNCHANGED <<commerceVars, quota, overlooked>>

BeginRelease(w, t, k) ==
  /\ call[w] = NoCall
  /\ k \in Held(quota[t])
  /\ call' = [call EXCEPT ![w] =
                [state |-> "RELEASED", tenant |-> t, key |-> k, read |-> quota[t][k]]]
  /\ UNCHANGED <<commerceVars, quota, overlooked>>

(* UpdateQuotaReservation and the commit; a transaction whose row is no     *)
(* longer the one it read is aborted, and tried again as another one.       *)
UpdateQuotaReservation(w) ==
  LET c == call[w] IN
  /\ c # NoCall
  /\ quota' = IF quota[c.tenant][c.key] = c.read
                THEN [quota EXCEPT ![c.tenant][c.key].state = c.state]
                ELSE quota
  /\ call' = [call EXCEPT ![w] = NoCall]
  /\ UNCHANGED <<commerceVars, overlooked>>

QuotaNext ==
  \/ CommerceNext /\ UNCHANGED quotaVars
  \/ \E t \in Tenant, k \in Key :
       \/ \E q \in Quantity, at, expires \in 0..MaxTime : Reserve(t, k, q, at, expires)
       \/ \E w \in Worker : BeginCommit(w, t, k) \/ BeginRelease(w, t, k)
  \/ \E w \in Worker : UpdateQuotaReservation(w)

QuotaSpec == QuotaInit /\ [][QuotaNext]_allQuotaVars

-----------------------------------------------------------------------------
Promised(t) == {k \in Held(quota[t]) : <<t, k>> \notin overlooked}

(* Reserve never promises more than the plan of the tenant's subscription   *)
(* has: what is reserved or committed stays within the limit, leaving out   *)
(* only what a Reserve found expired at its date.  A reservation of those   *)
(* may still be committed, by a transaction that read the clock before or   *)
(* when the date lay in the future, and is then held beyond the limit.      *)
QuotaHolds ==
  \A t \in Tenant :
    sub[t] # NoSubscription =>
      Cardinality(Units(quota[t], Promised(t))) <= SpecOf(t).limit

(* A released reservation, whose units may be another's by now, is not      *)
(* brought back by a Commit that has read it before.                        *)
ReleasedIsFinal ==
  [][\A t \in Tenant, k \in Key :
       quota[t][k].state = "RELEASED" => quota'[t][k] = quota[t][k]]_quota
=============================================================================
