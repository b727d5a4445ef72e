-------------------------- MODULE Commerce_proofs --------------------------
(***************************************************************************)
(* Proofs about CommerceQuota and CommerceUsage.  The plan of a              *)
(* subscription no longer changes, so a limit that a Reserve respected      *)
(* stays respected, and a failure that was charged for stays chargeable.    *)
(* Usage leaves plans and quotas as they are, so what is proved of quotas   *)
(* holds of commerce as a whole.                                            *)
(***************************************************************************)
EXTENDS CommerceUsage, FiniteSetTheorems, WellFoundedInduction, TLAPS

(* The rows of a tenant, as the type invariant knows them.                  *)
TenantRows == [Key -> Reservations \cup {NoReservation}]

LEMMA HeldRows ==
  ASSUME NEW rows \in TenantRows, NEW k \in Held(rows)
  PROVE  k \in Key /\ rows[k] \in Reservations
BY DEF TenantRows, Held, NoReservation

LEMMA ReservationQuantity ==
  ASSUME NEW r \in Reservations
  PROVE  r.quantity \in Int
<1>1. r.quantity \in Quantity BY DEF Reservations
<1>2. Quantity \subseteq Int BY QuantityAssumption
<1> QED BY <1>1, <1>2

LEMMA UnitsFinite ==
  ASSUME NEW rows \in TenantRows, NEW K \in SUBSET Held(rows)
  PROVE  IsFiniteSet(Units(rows, K))
<1> DEFINE U(k) == {k} \X (1..rows[k].quantity)
           S == {U(k) : k \in K}
           f == [k \in K |-> U(k)]
<1>1. IsFiniteSet(K)
  <2>1. K \in SUBSET Key BY DEF Held
  <2> QED BY <2>1, KeyAssumption, FS_Subset
<1>2. f \in Surjection(K, S)
  BY DEF Surjection
<1>3. IsFiniteSet(S)
  BY <1>1, <1>2, FS_Surjection
<1>4. ASSUME NEW T \in S PROVE IsFiniteSet(T)
  <2>1. PICK k \in K : T = U(k) OBVIOUS
  <2>2. rows[k] \in Reservations BY HeldRows
  <2>3. rows[k].quantity \in Int BY <2>2, ReservationQuantity
  <2>4. IsFiniteSet(1..rows[k].quantity) BY <2>3, FS_Interval
  <2>5. IsFiniteSet({k}) BY FS_Singleton
  <2> QED BY <2>1, <2>4, <2>5, FS_Product
<1>5. IsFiniteSet(UNION S) BY <1>3, <1>4, FS_UNION
<1> QED BY <1>5 DEF Units

(* Fewer reservations hold no more units.                                   *)
LEMMA UnitsMonotone ==
  ASSUME NEW rows \in TenantRows, NEW L \in SUBSET Held(rows),
         NEW other, NEW K \in SUBSET L,
         \A k \in K : other[k].quantity = rows[k].quantity
  PROVE  /\ IsFiniteSet(Units(other, K))
         /\ Cardinality(Units(other, K)) \in Nat
         /\ Cardinality(Units(rows, L)) \in Nat
         /\ Cardinality(Units(other, K)) <= Cardinality(Units(rows, L))
<1>1. IsFiniteSet(Units(rows, L)) BY UnitsFinite
<1>2. Units(other, K) \in SUBSET Units(rows, L)
  BY DEF Units
<1> QED BY <1>1, <1>2, FS_Subset, FS_CardinalityType

(* A new reservation adds its quantity to those that count.                 *)
LEMMA ReservedUnits ==
  ASSUME NEW rows \in TenantRows, NEW C \in SUBSET Held(rows), NEW k \in Key,
         NEW q \in Quantity, NEW other, other[k].quantity = q,
         NEW K \in SUBSET (C \cup {k}),
         \A j \in K \ {k} : other[j].quantity = rows[j].quantity
  PROVE  Cardinality(Units(other, K)) <= q + Cardinality(Units(rows, C))
<1> DEFINE new == {k} \X (1..q)
<1>1. IsFiniteSet(Units(rows, C)) /\ Cardinality(Units(rows, C)) \in Nat
  BY UnitsFinite, FS_CardinalityType
<1>2. q \in Nat BY QuantityAssumption
<1>3. IsFiniteSet(1..q) /\ Cardinality(1..q) = q
  BY <1>2, FS_Interval
<1>4. IsFiniteSet({k}) /\ Cardinality({k}) = 1 BY FS_Singleton
<1>5. IsFiniteSet(new) /\ Cardinality(new) = q
  <2>1. /\ IsFiniteSet({k} \X (1..q))
        /\ Cardinality({k} \X (1..q)) = Cardinality({k}) * Cardinality(1..q)
    BY <1>3, <1>4, FS_Product, Zenon
  <2> QED BY <2>1, <1>2, <1>3, <1>4
<1>6. /\ IsFiniteSet(new \cup Units(rows, C))
      /\ Cardinality(new \cup Units(rows, C))
           = Cardinality(new) + Cardinality(Units(rows, C))
               - Cardinality(new \cap Units(rows, C))
  BY <1>1, <1>5, FS_Union
<1>7. Cardinality(new \cap Units(rows, C)) \in Nat
  <2>1. new \cap Units(rows, C) \in SUBSET new OBVIOUS
  <2> QED BY <1>5, <2>1, FS_Subset, FS_CardinalityType
<1>8. Units(other, K) \in SUBSET (new \cup Units(rows, C))
  BY DEF Units
<1>9. /\ Cardinality(Units(other, K)) <= Cardinality(new \cup Units(rows, C))
      /\ IsFiniteSet(Units(other, K))
  BY <1>6, <1>8, FS_Subset
<1>10. Cardinality(Units(other, K)) \in Nat BY <1>9, FS_CardinalityType
<1> QED BY <1>1, <1>2, <1>5, <1>6, <1>7, <1>9, <1>10

-----------------------------------------------------------------------------
(* Subscriptions are of plans that have left the draft state.               *)
Pinned == \A t \in Tenant : sub[t] # NoSubscription =>
                              plan[sub[t].plan].state \in {"ACTIVE", "DISABLED"}

(* Accounts come with subscriptions, and reservations after them.           *)
Known == \A t \in Tenant : sub[t] = NoSubscription <=> account[t] = "none"

Owned == \A t \in Tenant :
  sub[t] = NoSubscription => \A k \in Key : quota[t][k] = NoReservation

QuotaInv == QuotaTypeOK /\ Pinned /\ Known /\ Owned /\ QuotaHolds

USE DEF NoPlan, NoSubscription, NoReservation, NoCall

LEMMA InitHolds == QuotaInit => QuotaInv
<1> SUFFICES ASSUME QuotaInit PROVE QuotaInv OBVIOUS
<1> USE DEF QuotaInit, CommerceInit
<1>1. QuotaTypeOK
  BY TimeAssumption DEF QuotaTypeOK, CommerceTypeOK, Plans, Subscriptions
<1>2. Pinned /\ Known /\ Owned /\ QuotaHolds
  BY DEF Pinned, Known, Owned, QuotaHolds
<1> QED BY <1>1, <1>2 DEF QuotaInv

-----------------------------------------------------------------------------
(* Type correctness, action by action.                                      *)
LEMMA CommerceTypes ==
  ASSUME QuotaTypeOK, Known, CommerceNext
  PROVE  CommerceTypeOK'
<1> USE DEF QuotaTypeOK, CommerceTypeOK
<1>1. CASE Tick
  BY <1>1, TimeAssumption DEF Tick
<1>2. ASSUME NEW p \in Plan, NEW s \in PlanSpec, CreatePlanVersion(p, s)
      PROVE  CommerceTypeOK'
  BY <1>2 DEF CreatePlanVersion, Plans, PlanStates
<1>3. ASSUME NEW p \in Plan, NEW s \in PlanSpec, ReplacePlanSpec(p, s)
      PROVE  CommerceTypeOK'
  BY <1>3 DEF ReplacePlanSpec, Plans, PlanStates
<1>4. ASSUME NEW p \in Plan, ActivatePlanVersion(p)
      PROVE  CommerceTypeOK'
  BY <1>4 DEF ActivatePlanVersion, Plans, PlanStates
<1>5. ASSUME NEW p \in Plan, DisablePlanVersion(p)
      PROVE  CommerceTypeOK'
  <2>1. plan[p] \in [state : PlanStates, spec : PlanSpec]
    BY <1>5 DEF DisablePlanVersion, Plans
  <2>2. [plan[p] EXCEPT !.state = "DISABLED"] \in Plans
    BY <2>1 DEF Plans, PlanStates
  <2> QED BY <1>5, <2>2 DEF DisablePlanVersion
<1>6. ASSUME NEW p \in Plan, NEW t \in Tenant, NEW state \in SubscriptionStates,
             NEW ends \in Trials, StartSubscription(t, p, state, ends)
      PROVE  CommerceTypeOK'
  BY <1>6 DEF StartSubscription, Subscriptions, AccountStates
<1>7. ASSUME NEW t \in Tenant, NEW to \in AccountStates, TransitionCommercial(t, to)
      PROVE  CommerceTypeOK'
  <2>1. account[t] # "none" BY <1>7 DEF TransitionCommercial, Transitions
  <2>2. sub[t] \in [state : SubscriptionStates, plan : Plan, trialEnds : Trials]
    BY <2>1 DEF Known, Subscriptions
  <2>3. [sub[t] EXCEPT !.state = to] \in Subscriptions
    BY <2>2 DEF Subscriptions, SubscriptionStates, AccountStates
  <2> QED BY <1>7, <2>3 DEF TransitionCommercial
<1> QED
  BY CommerceNext, <1>1, <1>2, <1>3, <1>4, <1>5, <1>6, <1>7 DEF CommerceNext

LEMMA QuotaTypes ==
  ASSUME QuotaTypeOK, Known, QuotaNext
  PROVE  QuotaTypeOK'
<1>1. CASE CommerceNext /\ UNCHANGED quotaVars
  BY <1>1, CommerceTypes DEF QuotaTypeOK, quotaVars
<1>2. ASSUME NEW t \in Tenant, NEW k \in Key, NEW q \in Quantity,
             NEW at \in 0..MaxTime, NEW expires \in 0..MaxTime,
             Reserve(t, k, q, at, expires)
      PROVE  QuotaTypeOK'
  <2>1. CommerceTypeOK' /\ call' = call
    BY <1>2 DEF Reserve, QuotaTypeOK, CommerceTypeOK, commerceVars
  <2>2. [state |-> "RESERVED", quantity |-> q, expires |-> expires] \in Reservations
    BY TimeAssumption DEF Reservations
  <2>3. quota' \in [Tenant -> [Key -> Reservations \cup {NoReservation}]]
    BY <1>2, <2>2 DEF Reserve, QuotaTypeOK
  <2>4. overlooked' \subseteq Tenant \X Key
    BY <1>2 DEF Reserve, QuotaTypeOK, Expired
  <2> QED BY <2>1, <2>3, <2>4 DEF QuotaTypeOK
<1>3. ASSUME NEW t \in Tenant, NEW k \in Key, NEW w \in Worker,
             BeginCommit(w, t, k) \/ BeginRelease(w, t, k)
      PROVE  QuotaTypeOK'
  <2>1. CommerceTypeOK' /\ quota' = quota /\ overlooked' = overlooked
    BY <1>3 DEF BeginCommit, BeginRelease, QuotaTypeOK, CommerceTypeOK, commerceVars
  <2>2. quota[t][k] \in Reservations /\ quota[t][k].state # "RELEASED"
    BY <1>3 DEF BeginCommit, BeginRelease, QuotaTypeOK, Held
  <2> DEFINE c(s) == [state |-> s, tenant |-> t, key |-> k, read |-> quota[t][k]]
  <2>3. \A s \in {"COMMITTED", "RELEASED"} : c(s) \in Calls
    BY <2>2 DEF Calls
  <2>4. \E s \in {"COMMITTED", "RELEASED"} : call' = [call EXCEPT ![w] = c(s)]
    BY <1>3 DEF BeginCommit, BeginRelease
  <2>5. call' \in [Worker -> Calls \cup {NoCall}]
    BY <2>3, <2>4 DEF QuotaTypeOK
  <2> QED BY <2>1, <2>5 DEF QuotaTypeOK
<1>4. ASSUME NEW w \in Worker, UpdateQuotaReservation(w)
      PROVE  QuotaTypeOK'
  <2> DEFINE c == call[w]
  <2>1. CommerceTypeOK' /\ overlooked' = overlooked
    BY <1>4 DEF UpdateQuotaReservation, QuotaTypeOK, CommerceTypeOK, commerceVars
  <2>2. c \in Calls
    BY <1>4 DEF UpdateQuotaReservation, QuotaTypeOK
  <2>3. [c.read EXCEPT !.state = c.state] \in Reservations
    BY <2>2 DEF Calls, Reservations
  <2>4. quota' \in [Tenant -> [Key -> Reservations \cup {NoReservation}]]
    BY <1>4, <2>2, <2>3 DEF UpdateQuotaReservation, QuotaTypeOK, Calls
  <2>5. call' \in [Worker -> Calls \cup {NoCall}]
    BY <1>4 DEF UpdateQuotaReservation, QuotaTypeOK
  <2> QED BY <2>1, <2>4, <2>5 DEF QuotaTypeOK
<1> QED BY QuotaNext, <1>1, <1>2, <1>3, <1>4 DEF QuotaNext

-----------------------------------------------------------------------------
(* Steps on plans, subscriptions and accounts leave the plan of a           *)
(* subscription its specification.                                          *)
Fixed == \A p \in Plan : plan[p].state \in {"ACTIVE", "DISABLED"} =>
                           /\ plan'[p].state \in {"ACTIVE", "DISABLED"}
                           /\ plan'[p].spec = plan[p].spec

LEMMA PlansFixed ==
  ASSUME QuotaTypeOK, CommerceNext
  PROVE  Fixed
<1> USE DEF QuotaTypeOK, CommerceTypeOK, Fixed
<1>1. CASE UNCHANGED plan
  BY <1>1
<1>2. ASSUME NEW p \in Plan, NEW s \in PlanSpec,
             CreatePlanVersion(p, s) \/ ReplacePlanSpec(p, s)
      PROVE  Fixed
  <2>1. plan[p].state \notin {"ACTIVE", "DISABLED"}
    BY <1>2 DEF CreatePlanVersion, ReplacePlanSpec
  <2>2. \A r \in Plan \ {p} : plan'[r] = plan[r]
    BY <1>2 DEF CreatePlanVersion, ReplacePlanSpec
  <2> QED BY <2>1, <2>2
<1>3. ASSUME NEW p \in Plan, ActivatePlanVersion(p) \/ DisablePlanVersion(p)
      PROVE  Fixed
  <2>1. plan[p] \in [state : PlanStates, spec : PlanSpec]
    BY <1>3 DEF ActivatePlanVersion, DisablePlanVersion, Plans
  <2>2. plan'[p].state \in {"ACTIVE", "DISABLED"} /\ plan'[p].spec = plan[p].spec
    BY <1>3, <2>1 DEF ActivatePlanVersion, DisablePlanVersion
  <2>3. \A r \in Plan \ {p} : plan'[r] = plan[r]
    BY <1>3 DEF ActivatePlanVersion, DisablePlanVersion
  <2> QED BY <2>2, <2>3
<1> QED
  BY CommerceNext, <1>1, <1>2, <1>3
  DEF CommerceNext, Tick, StartSubscription, TransitionCommercial

LEMMA SubscriptionsKept ==
  ASSUME QuotaTypeOK, Known, CommerceNext
  PROVE  /\ Known'
         /\ \A t \in Tenant :
              /\ sub[t] # NoSubscription =>
                   sub'[t] # NoSubscription /\ sub'[t].plan = sub[t].plan
              /\ sub[t] = NoSubscription /\ sub'[t] # NoSubscription =>
                   sub'[t].plan \in Plan /\ plan'[sub'[t].plan].state = "ACTIVE"
<1> USE DEF QuotaTypeOK, CommerceTypeOK
<1>1. CASE UNCHANGED <<sub, account>>
  BY <1>1 DEF Known
<1>2. ASSUME NEW p \in Plan, NEW t \in Tenant, NEW state \in SubscriptionStates,
             NEW ends \in Trials, StartSubscription(t, p, state, ends)
      PROVE  /\ Known'
             /\ \A u \in Tenant :
                  /\ sub[u] # NoSubscription => sub'[u] = sub[u]
                  /\ sub[u] = NoSubscription /\ sub'[u] # NoSubscription =>
                       sub'[u].plan = p /\ plan'[p].state = "ACTIVE"
  <2>1. /\ sub'[t] # NoSubscription /\ sub'[t].plan = p /\ account'[t] = "ACTIVE"
        /\ sub[t] = NoSubscription /\ plan' = plan /\ plan[p].state = "ACTIVE"
    BY <1>2 DEF StartSubscription
  <2>2. \A u \in Tenant \ {t} : sub'[u] = sub[u] /\ account'[u] = account[u]
    BY <1>2 DEF StartSubscription
  <2> QED BY <2>1, <2>2 DEF Known
<1>3. ASSUME NEW t \in Tenant, NEW to \in AccountStates, TransitionCommercial(t, to)
      PROVE  /\ Known'
             /\ \A u \in Tenant :
                  /\ sub'[u] = NoSubscription <=> sub[u] = NoSubscription
                  /\ sub[u] # NoSubscription => sub'[u].plan = sub[u].plan
  <2>1. account[t] # "none" /\ to # "none"
    BY <1>3 DEF TransitionCommercial, Transitions, AccountStates
  <2>2. sub[t] \in [state : SubscriptionStates, plan : Plan, trialEnds : Trials]
    BY <2>1 DEF Known, Subscriptions
  <2>3. /\ sub[t] # NoSubscription /\ sub'[t] # NoSubscription
        /\ sub'[t].plan = sub[t].plan
    BY <1>3, <2>1, <2>2 DEF TransitionCommercial, Known
  <2>4. account'[t] = to
    BY <1>3 DEF TransitionCommercial
  <2>5. \A u \in Tenant \ {t} : sub'[u] = sub[u] /\ account'[u] = account[u]
    BY <1>3 DEF TransitionCommercial
  <2> QED BY <2>1, <2>3, <2>4, <2>5 DEF Known
<1> QED
  BY CommerceNext, <1>1, <1>2, <1>3
  DEF CommerceNext, Tick, CreatePlanVersion, ReplacePlanSpec, ActivatePlanVersion,
      DisablePlanVersion

-----------------------------------------------------------------------------
LEMMA LimitIsNat ==
  ASSUME QuotaTypeOK, Pinned, NEW t \in Tenant, sub[t] # NoSubscription
  PROVE  SpecOf(t).limit \in Nat
<1>1. sub[t] \in [state : SubscriptionStates, plan : Plan, trialEnds : Trials]
  BY DEF QuotaTypeOK, CommerceTypeOK, Subscriptions
<1>2. plan[sub[t].plan] \in [state : PlanStates, spec : PlanSpec]
  BY <1>1 DEF Pinned, QuotaTypeOK, CommerceTypeOK, Plans
<1> QED BY <1>2, LimitAssumption DEF SpecOf

LEMMA RowsOfTenant ==
  ASSUME QuotaTypeOK, NEW t \in Tenant
  PROVE  quota[t] \in TenantRows /\ Promised(t) \in SUBSET Held(quota[t])
BY DEF QuotaTypeOK, TenantRows, Promised

(* A step that promises nothing new keeps a tenant within its limit.        *)
LEMMA PromiseKept ==
  ASSUME QuotaTypeOK, Pinned, QuotaHolds, NEW t \in Tenant, sub[t] # NoSubscription,
         SpecOf(t)' = SpecOf(t), Promised(t)' \subseteq Promised(t),
         \A k \in Promised(t)' : quota'[t][k].quantity = quota[t][k].quantity
  PROVE  (Cardinality(Units(quota[t], Promised(t))) <= SpecOf(t).limit)'
<1>1. quota[t] \in TenantRows /\ Promised(t) \in SUBSET Held(quota[t])
  BY RowsOfTenant
<1>2. /\ Cardinality(Units(quota[t], Promised(t)))' \in Nat
      /\ Cardinality(Units(quota[t], Promised(t))) \in Nat
      /\ Cardinality(Units(quota[t], Promised(t)))'
           <= Cardinality(Units(quota[t], Promised(t)))
  BY <1>1, UnitsMonotone
<1>3. Cardinality(Units(quota[t], Promised(t))) <= SpecOf(t).limit
  BY DEF QuotaHolds
<1>4. SpecOf(t).limit \in Nat BY LimitIsNat
<1> QED BY <1>2, <1>3, <1>4

(* A subscription of a tenant that has no reservation promises nothing.     *)
LEMMA NothingPromised ==
  ASSUME NEW t \in Tenant, (QuotaTypeOK /\ Pinned)', sub'[t] # NoSubscription,
         \A k \in Key : quota'[t][k] = NoReservation
  PROVE  (Cardinality(Units(quota[t], Promised(t))) <= SpecOf(t).limit)'
<1>1. Promised(t)' = {}
  BY DEF Promised, Held
<1>2. Units(quota'[t], {}) = {} BY DEF Units
<1>3. Cardinality({}) = 0 BY FS_EmptySet
<1>4. sub'[t] \in [state : SubscriptionStates, plan : Plan, trialEnds : Trials]
  BY DEF QuotaTypeOK, CommerceTypeOK, Subscriptions
<1>5. plan'[sub'[t].plan] \in [state : PlanStates, spec : PlanSpec]
  BY <1>4 DEF Pinned, QuotaTypeOK, CommerceTypeOK, Plans
<1>6. SpecOf(t)'.limit \in Nat BY <1>5, LimitAssumption DEF SpecOf
<1> QED BY <1>1, <1>2, <1>3, <1>6

(* What Reserve promises it has counted, and found within the limit.        *)
LEMMA ReserveHolds ==
  ASSUME QuotaInv, NEW t \in Tenant, NEW k \in Key, NEW q \in Quantity,
         NEW at \in 0..MaxTime, NEW expires \in 0..MaxTime,
         Reserve(t, k, q, at, expires)
  PROVE  (Cardinality(Units(quota[t], Promised(t))) <= SpecOf(t).limit)'
<1> DEFINE C == Counted(quota[t], at)
<1>1. quota[t] \in TenantRows /\ C \in SUBSET Held(quota[t])
  BY RowsOfTenant DEF QuotaInv, Counted
<1>2. /\ quota'[t][k].quantity = q
      /\ \A j \in Key \ {k} : quota'[t][j] = quota[t][j]
      /\ Expired(quota[t], at) \in SUBSET Key
      /\ overlooked' = overlooked \cup ({t} \X Expired(quota[t], at))
  BY DEF Reserve, QuotaInv, QuotaTypeOK, Expired
<1>3. \A j \in Promised(t)' : j \in Key /\ (j # k => j \in C)
  <2>1. SUFFICES ASSUME NEW j \in Promised(t)', j # k PROVE j \in Key /\ j \in C
    BY DEF Promised, Held
  <2>2. j \in Held(quota'[t]) /\ j \in Key /\ <<t, j>> \notin overlooked'
    BY <2>1 DEF Promised, Held
  <2>3. j \in Held(quota[t]) /\ j \notin Expired(quota[t], at)
    BY <2>1, <2>2, <1>2 DEF Held
  <2>4. quota[t][j] \in Reservations BY <2>3, HeldRows, RowsOfTenant DEF QuotaInv
  <2>5. quota[t][j].expires \in Int BY <2>4 DEF Reservations
  <2> QED BY <2>2, <2>3, <2>5, TimeAssumption DEF Expired, Counted, Held
<1>4. Cardinality(Units(quota'[t], Promised(t)')) <= q + Cardinality(Units(quota[t], C))
  <2>1. Promised(t)' \in SUBSET (C \cup {k}) BY <1>3
  <2>2. \A j \in Promised(t)' \ {k} : quota'[t][j].quantity = quota[t][j].quantity
    BY <1>2, <1>3
  <2> QED BY <1>1, <1>2, <2>1, <2>2, ReservedUnits
<1>5. /\ q + Cardinality(Units(quota[t], C)) <= SpecOf(t).limit
      /\ SpecOf(t)' = SpecOf(t)
  BY DEF Reserve, ActiveQuota, SpecOf, commerceVars
<1>6. SpecOf(t).limit \in Nat
  <2>1. sub[t] # NoSubscription
    BY DEF Reserve, AllowsAllocation, QuotaInv, Known
  <2> QED BY <2>1, LimitIsNat DEF QuotaInv
<1>7. /\ Cardinality(Units(quota[t], C)) \in Nat
      /\ q \in Nat
  BY <1>1, UnitsFinite, FS_CardinalityType, QuantityAssumption
<1>8. Cardinality(Units(quota'[t], Promised(t)')) \in Nat
  <2>1. QuotaTypeOK' BY QuotaTypes DEF QuotaInv, QuotaNext
  <2>2. quota'[t] \in TenantRows /\ Promised(t)' \in SUBSET Held(quota'[t])
    BY <2>1 DEF QuotaTypeOK, TenantRows, Promised
  <2> QED BY <2>2, UnitsFinite, FS_CardinalityType
<1> QED BY <1>4, <1>5, <1>6, <1>7, <1>8

(* The other steps on reservations: nothing of a reservation that is still  *)
(* held changes but its state.                                              *)
LEMMA CallsKeepPromises ==
  ASSUME QuotaTypeOK, NEW w \in Worker,
         \/ \E t \in Tenant, k \in Key : BeginCommit(w, t, k) \/ BeginRelease(w, t, k)
         \/ UpdateQuotaReservation(w)
  PROVE  /\ UNCHANGED <<commerceVars, overlooked>>
         /\ \A t \in Tenant, k \in Key :
              /\ quota'[t][k].state # "none" =>
                   /\ quota'[t][k].quantity = quota[t][k].quantity
                   /\ k \in Held(quota'[t]) => k \in Held(quota[t])
              /\ quota[t][k] = NoReservation => quota'[t][k] = NoReservation
              /\ quota[t][k].state = "RELEASED" => quota'[t][k] = quota[t][k]
<1>1. CASE \E t \in Tenant, k \in Key : BeginCommit(w, t, k) \/ BeginRelease(w, t, k)
  BY <1>1 DEF BeginCommit, BeginRelease, Held
<1>2. CASE UpdateQuotaReservation(w)
  <2> DEFINE c == call[w]
  <2>1. c \in Calls
    BY <1>2 DEF UpdateQuotaReservation, QuotaTypeOK
  <2>2. /\ c.tenant \in Tenant /\ c.key \in Key /\ c.read \in Reservations
        /\ c.read.state \in {"RESERVED", "COMMITTED"}
    BY <2>1 DEF Calls, Reservations
  <2>3. CASE quota[c.tenant][c.key] # c.read
    BY <1>2, <2>3 DEF UpdateQuotaReservation, Held
  <2>4. CASE quota[c.tenant][c.key] = c.read
    <3>1. /\ quota[c.tenant][c.key].state \in {"RESERVED", "COMMITTED"}
          /\ quota[c.tenant][c.key] \in Reservations
      BY <2>2, <2>4
    <3>2. /\ quota'[c.tenant][c.key] = [quota[c.tenant][c.key] EXCEPT !.state = c.state]
          /\ \A t \in Tenant, k \in Key :
               t # c.tenant \/ k # c.key => quota'[t][k] = quota[t][k]
      BY <1>2, <2>2, <2>4 DEF UpdateQuotaReservation, QuotaTypeOK
    <3>3. quota'[c.tenant][c.key].quantity = quota[c.tenant][c.key].quantity
      BY <3>1, <3>2 DEF Reservations
    <3>4. UNCHANGED <<commerceVars, overlooked>>
      BY <1>2 DEF UpdateQuotaReservation
    <3>5. quota[c.tenant][c.key].state # "none" /\ c.key \in Held(quota[c.tenant])
      BY <2>2, <3>1 DEF Held
    <3>6. \A t \in Tenant, k \in Key :
            (t # c.tenant \/ k # c.key) /\ k \in Held(quota'[t]) => k \in Held(quota[t])
      BY <3>2 DEF Held
    <3>7. quota[c.tenant][c.key] # NoReservation /\ quota[c.tenant][c.key].state # "RELEASED"
      BY <3>1
    <3>8. ASSUME NEW t \in Tenant, NEW k \in Key
          PROVE  /\ quota'[t][k].state # "none" =>
                      /\ quota'[t][k].quantity = quota[t][k].quantity
                      /\ k \in Held(quota'[t]) => k \in Held(quota[t])
                 /\ quota[t][k] = NoReservation => quota'[t][k] = NoReservation
                 /\ quota[t][k].state = "RELEASED" => quota'[t][k] = quota[t][k]
      <4>1. CASE t = c.tenant /\ k = c.key BY <4>1, <3>3, <3>5, <3>7
      <4>2. CASE t # c.tenant \/ k # c.key BY <4>2, <3>2, <3>6
      <4> QED BY <4>1, <4>2
    <3> QED BY <3>4, <3>8
  <2> QED BY <2>3, <2>4
<1> QED BY <1>1, <1>2

LEMMA NextHolds ==
  ASSUME QuotaInv, QuotaNext
  PROVE  QuotaInv'
<1> USE DEF QuotaInv
<1>1. QuotaTypeOK' BY QuotaTypes
<1>2. CASE CommerceNext /\ UNCHANGED quotaVars
  <2>1. Fixed BY <1>2, PlansFixed
  <2>2. /\ Known'
        /\ \A t \in Tenant :
             /\ sub[t] # NoSubscription =>
                  sub'[t] # NoSubscription /\ sub'[t].plan = sub[t].plan
             /\ sub[t] = NoSubscription /\ sub'[t] # NoSubscription =>
                  sub'[t].plan \in Plan /\ plan'[sub'[t].plan].state = "ACTIVE"
    BY <1>2, SubscriptionsKept
  <2>3. \A t \in Tenant : sub[t] # NoSubscription => sub[t].plan \in Plan
    BY DEF QuotaTypeOK, CommerceTypeOK, Subscriptions
  <2>4. Pinned'
    BY <2>1, <2>2, <2>3 DEF Fixed, Pinned
  <2>5. Owned'
    BY <1>2, <2>2 DEF Owned, quotaVars
  <2>6. ASSUME NEW t \in Tenant, sub'[t] # NoSubscription
        PROVE  (Cardinality(Units(quota[t], Promised(t))) <= SpecOf(t).limit)'
    <3>1. CASE sub[t] # NoSubscription
      <4>1. SpecOf(t)' = SpecOf(t)
        BY <3>1, <2>1, <2>2, <2>3 DEF SpecOf, Fixed, Pinned
      <4>2. Promised(t)' \subseteq Promised(t) /\ quota' = quota
        BY <1>2 DEF Promised, quotaVars
      <4> QED BY <3>1, <4>1, <4>2, PromiseKept
    <3>2. CASE sub[t] = NoSubscription
      <4>1. \A k \in Key : quota'[t][k] = NoReservation
        BY <3>2, <1>2 DEF Owned, quotaVars
      <4> QED BY <1>1, <2>4, <2>6, <4>1, NothingPromised
    <3> QED BY <3>1, <3>2
  <2> QED BY <1>1, <2>2, <2>4, <2>5, <2>6 DEF QuotaHolds
<1>3. ASSUME UNCHANGED commerceVars
      PROVE  /\ Pinned' /\ Known'
             /\ \A t \in Tenant : SpecOf(t)' = SpecOf(t) /\ sub'[t] = sub[t]
  BY <1>3 DEF Pinned, Known, SpecOf, commerceVars
<1>4. ASSUME NEW t \in Tenant, NEW k \in Key, NEW q \in Quantity,
             NEW at \in 0..MaxTime, NEW expires \in 0..MaxTime,
             Reserve(t, k, q, at, expires)
      PROVE  QuotaInv'
  <2>1. UNCHANGED commerceVars /\ account[t] # "none"
    BY <1>4 DEF Reserve, AllowsAllocation
  <2>2. \A u \in Tenant \ {t} : quota'[u] = quota[u]
    BY <1>4 DEF Reserve, QuotaTypeOK
  <2>3. Owned'
    BY <1>3, <2>1, <2>2 DEF Owned, Known
  <2>4. ASSUME NEW u \in Tenant, sub'[u] # NoSubscription
        PROVE  (Cardinality(Units(quota[u], Promised(u))) <= SpecOf(u).limit)'
    <3>1. CASE u = t BY <1>4, <3>1, ReserveHolds
    <3>2. CASE u # t
      <4>1. Promised(u)' \subseteq Promised(u)
        BY <1>4, <2>2, <3>2 DEF Promised, Reserve
      <4> QED BY <1>3, <2>1, <2>2, <2>4, <3>2, <4>1, PromiseKept
    <3> QED BY <3>1, <3>2
  <2> QED BY <1>1, <1>3, <2>1, <2>3, <2>4 DEF QuotaHolds
<1>5. ASSUME NEW w \in Worker,
             \/ \E t \in Tenant, k \in Key : BeginCommit(w, t, k) \/ BeginRelease(w, t, k)
             \/ UpdateQuotaReservation(w)
      PROVE  QuotaInv'
  <2>1. /\ UNCHANGED <<commerceVars, overlooked>>
        /\ \A t \in Tenant, k \in Key :
             /\ quota'[t][k].state # "none" =>
                  /\ quota'[t][k].quantity = quota[t][k].quantity
                  /\ k \in Held(quota'[t]) => k \in Held(quota[t])
             /\ quota[t][k] = NoReservation => quota'[t][k] = NoReservation
    BY <1>5, CallsKeepPromises
  <2>2. Owned'
    BY <1>3, <2>1 DEF Owned
  <2>3. ASSUME NEW t \in Tenant, sub'[t] # NoSubscription
        PROVE  (Cardinality(Units(quota[t], Promised(t))) <= SpecOf(t).limit)'
    <3>1. \A k \in Promised(t)' :
            k \in Promised(t) /\ quota'[t][k].quantity = quota[t][k].quantity
      BY <2>1 DEF Promised, Held
    <3> QED BY <1>3, <2>1, <2>3, <3>1, PromiseKept
  <2> QED BY <1>1, <1>3, <2>1, <2>2, <2>3 DEF QuotaHolds
<1> QED BY QuotaNext, <1>2, <1>4, <1>5 DEF QuotaNext

(* Stuttering.                                                              *)
LEMMA StutterHolds ==
  ASSUME QuotaInv, UNCHANGED allQuotaVars
  PROVE  QuotaInv'
BY DEF QuotaInv, allQuotaVars, quotaVars, commerceVars, QuotaTypeOK, CommerceTypeOK,
       Pinned, Known, Owned, QuotaHolds, Promised, SpecOf

(* Every reachable state satisfies the invariant.                           *)
THEOREM QuotaInvariant == QuotaSpec => []QuotaInv
<1>1. QuotaInit => QuotaInv BY InitHolds
<1>2. QuotaInv /\ [QuotaNext]_allQuotaVars => QuotaInv'
  BY NextHolds, StutterHolds
<1> QED BY <1>1, <1>2, PTL DEF QuotaSpec

(* What Reserve promises stays within the limit of the tenant's plan, for   *)
(* any tenants, plans, dates and concurrent transactions                    *)
(* (service.go, Reserve and transitionQuota).                               *)
THEOREM PromisesAreWithinLimits == QuotaSpec => []QuotaHolds
<1>1. QuotaInv => QuotaHolds BY DEF QuotaInv
<1> QED BY <1>1, QuotaInvariant, PTL

LEMMA ReleasedStays ==
  ASSUME QuotaInv, QuotaNext, NEW t \in Tenant, NEW k \in Key,
         quota[t][k].state = "RELEASED"
  PROVE  quota'[t][k] = quota[t][k]
<1>1. CASE CommerceNext /\ UNCHANGED quotaVars
  BY <1>1 DEF quotaVars
<1>2. ASSUME NEW u \in Tenant, NEW j \in Key, NEW q \in Quantity,
             NEW at \in 0..MaxTime, NEW expires \in 0..MaxTime,
             Reserve(u, j, q, at, expires)
      PROVE  quota'[t][k] = quota[t][k]
  BY <1>2 DEF Reserve, QuotaInv, QuotaTypeOK
<1>3. ASSUME NEW w \in Worker,
             \/ \E u \in Tenant, j \in Key : BeginCommit(w, u, j) \/ BeginRelease(w, u, j)
             \/ UpdateQuotaReservation(w)
      PROVE  quota'[t][k] = quota[t][k]
  BY <1>3, CallsKeepPromises DEF QuotaInv
<1> QED BY QuotaNext, <1>1, <1>2, <1>3 DEF QuotaNext

(* A released reservation stays as it is, whatever concurrent transactions  *)
(* have read before (service.go, transitionQuota; store.go,                 *)
(* UpdateQuotaReservation).                                                 *)
THEOREM ReleasesAreFinal == QuotaSpec => ReleasedIsFinal
<1>1. QuotaInv /\ [QuotaNext]_allQuotaVars =>
        [\A t \in Tenant, k \in Key :
           quota[t][k].state = "RELEASED" => quota'[t][k] = quota[t][k]]_quota
  BY ReleasedStays DEF allQuotaVars, quotaVars
<1> QED BY <1>1, QuotaInvariant, PTL DEF QuotaSpec, ReleasedIsFinal


-----------------------------------------------------------------------------
(* The whole of commerce implements its quotas: usage shares their store    *)
(* and leaves them alone (service.go, appendUsageTx).                       *)
THEOREM UsageKeepsQuotas == Spec => QuotaSpec
<1>1. Init => QuotaInit
  BY DEF Init
<1>2. [Next]_vars => [QuotaNext]_allQuotaVars
  BY DEF Next, AppendEvent, RecordBuildUsage, ReconcileUsage, vars
<1> QED BY <1>1, <1>2, PTL DEF Spec, QuotaSpec

(* With usage recorded beside it, Reserve still promises within the limit   *)
(* of the tenant's plan (service.go, Reserve and transitionQuota).          *)
THEOREM CommercePromises == Spec => []QuotaHolds
BY UsageKeepsQuotas, PromisesAreWithinLimits, PTL

(* With usage recorded beside it, a released reservation stays released     *)
(* (service.go, transitionQuota; store.go, UpdateQuotaReservation).         *)
THEOREM CommerceReleases == Spec => ReleasedIsFinal
BY UsageKeepsQuotas, ReleasesAreFinal, PTL

-----------------------------------------------------------------------------
(* Sequences of events and the sets of their elements.                      *)
LEMMA EventsOfBoth ==
  ASSUME NEW S, NEW a, a \in Seq(S), NEW b, b \in Seq(S)
  PROVE  a \o b \in Seq(S) /\ ToSet(a \o b) = ToSet(a) \cup ToSet(b)
<1>1. a \in Seq(S) /\ b \in Seq(S)
  OBVIOUS
<1>2. /\ a \o b \in Seq(S) /\ Len(a \o b) = Len(a) + Len(b)
      /\ \A i \in 1..Len(a) : (a \o b)[i] = a[i]
      /\ \A i \in 1..Len(b) : (a \o b)[Len(a) + i] = b[i]
  BY <1>1
<1>3. /\ DOMAIN a = 1..Len(a) /\ DOMAIN b = 1..Len(b) /\ Len(a) \in Nat /\ Len(b) \in Nat
      /\ DOMAIN (a \o b) = 1..Len(a) + Len(b)
  BY <1>1, <1>2
<1>4. ToSet(a \o b) \subseteq ToSet(a) \cup ToSet(b)
  <2>1. SUFFICES ASSUME NEW i \in 1..Len(a) + Len(b)
                 PROVE  (a \o b)[i] \in ToSet(a) \cup ToSet(b)
    BY <1>3 DEF ToSet
  <2>2. CASE i <= Len(a)
    BY <1>2, <1>3, <2>2 DEF ToSet
  <2>3. CASE i > Len(a)
    <3>1. i - Len(a) \in 1..Len(b) /\ Len(a) + (i - Len(a)) = i
      BY <1>3, <2>3
    <3>2. (a \o b)[i] = b[i - Len(a)]
      BY <1>2, <3>1
    <3>3. QED
      BY <1>3, <3>1, <3>2 DEF ToSet
  <2>4. QED
    BY <1>3, <2>2, <2>3
<1>5. ToSet(a) \subseteq ToSet(a \o b)
  <2>1. SUFFICES ASSUME NEW i \in 1..Len(a)
                 PROVE  a[i] \in ToSet(a \o b)
    BY <1>3 DEF ToSet
  <2>2. i \in 1..Len(a) + Len(b)
    BY <1>3
  <2>3. QED
    BY <1>2, <1>3, <2>2 DEF ToSet
<1>6. ToSet(b) \subseteq ToSet(a \o b)
  <2>1. SUFFICES ASSUME NEW i \in 1..Len(b)
                 PROVE  b[i] \in ToSet(a \o b)
    BY <1>3 DEF ToSet
  <2>2. Len(a) + i \in 1..Len(a) + Len(b)
    BY <1>3
  <2>3. QED
    BY <1>2, <1>3, <2>2 DEF ToSet
<1>7. QED
  BY <1>2, <1>4, <1>5, <1>6

(* An event that is there or not.                                           *)
LEMMA OneOrNone ==
  ASSUME NEW E, NEW c \in BOOLEAN, NEW e, c => e \in E
  PROVE  /\ (IF c THEN <<e>> ELSE <<>>) \in Seq(E)
         /\ Len(IF c THEN <<e>> ELSE <<>>) \in {0, 1}
         /\ ToSet(IF c THEN <<e>> ELSE <<>>) = IF c THEN {e} ELSE {}
<1>1. CASE c
  <2>1. <<e>> \in Seq(E) /\ Len(<<e>>) = 1 /\ DOMAIN <<e>> = {1} /\ <<e>>[1] = e
    BY <1>1
  <2>2. QED
    BY <1>1, <2>1 DEF ToSet
<1>2. CASE ~c
  <2>1. <<>> \in Seq(E) /\ Len(<<>>) = 0 /\ DOMAIN <<>> = {}
    OBVIOUS
  <2>2. QED
    BY <1>2, <2>1 DEF ToSet
<1>3. QED
  BY <1>1, <1>2

LEMMA EventsOfFour ==
  ASSUME NEW S, NEW p, p \in Seq(S), NEW q, q \in Seq(S), NEW r, r \in Seq(S),
         NEW s, s \in Seq(S)
  PROVE  /\ p \o q \o r \o s \in Seq(S)
         /\ ToSet(p \o q \o r \o s) = ToSet(p) \cup ToSet(q) \cup ToSet(r) \cup ToSet(s)
<1>1. PICK a : a = p \o q
  OBVIOUS
<1>2. a \in Seq(S) /\ ToSet(a) = ToSet(p) \cup ToSet(q)
  BY <1>1, EventsOfBoth
<1>3. PICK b : b = a \o r
  OBVIOUS
<1>4. b \in Seq(S) /\ ToSet(b) = ToSet(a) \cup ToSet(r)
  BY <1>2, <1>3, EventsOfBoth
<1>5. PICK c : c = b \o s
  OBVIOUS
<1>6. c \in Seq(S) /\ ToSet(c) = ToSet(b) \cup ToSet(s)
  BY <1>4, <1>5, EventsOfBoth
<1>7. QED
  BY <1>1, <1>2, <1>3, <1>4, <1>5, <1>6

(* The event at a place of a transaction, unless it is there already.       *)
NewEvent(ledger, events, i) ==
  IF i \in DOMAIN events /\ events[i] \notin ToSet(ledger) THEN <<events[i]>> ELSE <<>>

NewAt(ledger, events, i) == {events[j] : j \in {i} \cap DOMAIN events} \ ToSet(ledger)

LEMMA EventIsNew ==
  ASSUME NEW S, NEW ledger, NEW events, events \in Seq(S), NEW i
  PROVE  /\ NewEvent(ledger, events, i) \in Seq(S)
         /\ ToSet(NewEvent(ledger, events, i))
              = NewAt(ledger, events, i)
<1>1. \A j \in DOMAIN events : events[j] \in S
  OBVIOUS
<1>2. /\ NewEvent(ledger, events, i) \in Seq(S)
      /\ ToSet(NewEvent(ledger, events, i))
           = IF i \in DOMAIN events /\ events[i] \notin ToSet(ledger)
               THEN {events[i]} ELSE {}
  <2>1. PICK c \in BOOLEAN : c <=> i \in DOMAIN events /\ events[i] \notin ToSet(ledger)
    OBVIOUS
  <2>2. c => events[i] \in S
    BY <1>1, <2>1
  <2>3. QED
    BY <2>1, <2>2, OneOrNone DEF NewEvent
<1>3. QED
  BY <1>2 DEF NewAt

(* Up to three events, of which some are new.                               *)
LEMMA EventsAdded ==
  ASSUME NEW S, NEW ledger, ledger \in Seq(S), NEW events, events \in Seq(S),
         Len(events) <= 3
  PROVE  /\ ledger \o NewEvent(ledger, events, 1) \o NewEvent(ledger, events, 2)
                  \o NewEvent(ledger, events, 3) \in Seq(S)
         /\ ToSet(ledger \o NewEvent(ledger, events, 1) \o NewEvent(ledger, events, 2)
                         \o NewEvent(ledger, events, 3))
              = ToSet(ledger) \cup ToSet(events)
<1> DEFINE At(i) == NewAt(ledger, events, i)
<1>1. PICK n1, n2, n3 : /\ n1 = NewEvent(ledger, events, 1)
                        /\ n2 = NewEvent(ledger, events, 2)
                        /\ n3 = NewEvent(ledger, events, 3)
  OBVIOUS
<1>2. /\ n1 \in Seq(S) /\ ToSet(n1) = At(1)
      /\ n2 \in Seq(S) /\ ToSet(n2) = At(2)
      /\ n3 \in Seq(S) /\ ToSet(n3) = At(3)
  BY <1>1, EventIsNew
<1> HIDE DEF At
<1>3. /\ ledger \o n1 \o n2 \o n3 \in Seq(S)
      /\ ToSet(ledger \o n1 \o n2 \o n3)
           = ToSet(ledger) \cup ToSet(n1) \cup ToSet(n2) \cup ToSet(n3)
  BY <1>2, EventsOfFour
<1>4. DOMAIN events \subseteq {1, 2, 3}
  <2>1. DOMAIN events = 1..Len(events) /\ Len(events) \in Nat
    OBVIOUS
  <2>2. QED
    BY <2>1
<1>5. ToSet(events) \ ToSet(ledger) = At(1) \cup At(2) \cup At(3)
  BY <1>4 DEF At, NewAt, ToSet
<1>6. QED
  BY <1>1, <1>2, <1>3, <1>5

(* A report has up to three events, all of them of its build.               *)
LEMMA EventsOfReport ==
  ASSUME NEW r
  PROVE  /\ EventsOf(r) \in Seq(ToSet(EventsOf(r)))
         /\ Len(EventsOf(r)) <= 3
<1> DEFINE EventOf(m) == [key |-> <<"build", r.key, m>>, resource |-> r.build, meter |-> m,
                     kind |-> "STANDARD", quantity |-> r.values[m], start |-> r.started,
                     end |-> r.finished, occurred |-> r.finished, outcome |-> r.outcome]
           Charged(m) == IF m \in DOMAIN r.values /\ r.values[m] # 0
                           THEN <<EventOf(m)>> ELSE <<>>
           E == {EventOf(1), EventOf(2), EventOf(3)}
<1>1. ASSUME NEW m \in {1, 2, 3}
      PROVE  Charged(m) \in Seq(E) /\ Len(Charged(m)) \in {0, 1}
  <2>1. PICK e : e = EventOf(m)
    OBVIOUS
  <2>2. e \in E
    BY <2>1
  <2>3. QED
    BY <2>1, <2>2, OneOrNone
<1>2. EventsOf(r) = Charged(1) \o Charged(2) \o Charged(3)
  BY DEF EventsOf
<1> HIDE DEF Charged, E
<1>3. /\ Charged(1) \o Charged(2) \o Charged(3) \in Seq(E)
      /\ Len(Charged(1) \o Charged(2) \o Charged(3)) <= 3
  <2>1. ASSUME NEW a \in Seq(E), NEW b \in Seq(E), NEW c \in Seq(E),
               Len(a) \in {0, 1}, Len(b) \in {0, 1}, Len(c) \in {0, 1}
        PROVE  a \o b \o c \in Seq(E) /\ Len(a \o b \o c) <= 3
    <3>1. PICK d : d = a \o b
      OBVIOUS
    <3>2. d \in Seq(E) /\ Len(d) = Len(a) + Len(b)
      BY <3>1
    <3>3. d \o c \in Seq(E) /\ Len(d \o c) = Len(d) + Len(c)
      BY <3>2
    <3>4. Len(d) + Len(c) <= 3
      <4>0. 0 <= 1 /\ 1 <= 1
        OBVIOUS
      <4>1. Len(a) <= 1 /\ Len(b) <= 1 /\ Len(c) <= 1
        BY <2>1, <4>0
      <4>2. Len(a) \in Nat /\ Len(b) \in Nat /\ Len(c) \in Nat
        OBVIOUS
      <4>3. QED
        BY <3>2, <4>1, <4>2
    <3>5. QED
      BY <3>1, <3>3, <3>4
  <2>2. QED
    BY <1>1, <2>1
<1>4. PICK events : events = EventsOf(r)
  OBVIOUS
<1>5. events \in Seq(E) /\ Len(events) <= 3
  BY <1>2, <1>3, <1>4
<1>6. events \in Seq(ToSet(events))
  <2>1. \A i \in 1..Len(events) : events[i] \in ToSet(events)
    BY <1>5 DEF ToSet
  <2>2. QED
    BY <1>5, <2>1
<1>7. QED
  BY <1>4, <1>5, <1>6

-----------------------------------------------------------------------------
(* What a ledger is made of.                                                *)
BuildEntries == UNION {ToSet(EventsOf(r)) : r \in Report}
Corrections ==
  UNION {{Correction(c, n) : n \in -MaxInt - 1 .. MaxInt} : c \in Command}
Entries == Event \cup BuildEntries \cup Corrections

LedgerTypeOK == usage \in [Tenant -> Seq(Entries)]

(* The ledger of a tenant begins with its subscription.                     *)
Opened == \A t \in Tenant : sub[t] = NoSubscription => usage[t] = <<>>

UsageInv == LedgerTypeOK /\ Opened /\ BuildsAreCharged

LEMMA SequencesWiden ==
  ASSUME NEW S, NEW T, T \subseteq S, NEW q, q \in Seq(T)
  PROVE  q \in Seq(S)
OBVIOUS

(* What each transaction appends.                                           *)
LEMMA EntriesAppended ==
  /\ \A e \in Event : <<e>> \in Seq(Entries) /\ Len(<<e>>) <= 3 /\ ToSet(<<e>>) = {e}
  /\ \A r \in Report : EventsOf(r) \in Seq(Entries) /\ Len(EventsOf(r)) <= 3
  /\ \A c \in Command, n \in -MaxInt - 1 .. MaxInt :
       /\ <<Correction(c, n)>> \in Seq(Entries) /\ Len(<<Correction(c, n)>>) <= 3
       /\ ToSet(<<Correction(c, n)>>) = {Correction(c, n)}
<1>1. ASSUME NEW e \in Entries
      PROVE  <<e>> \in Seq(Entries) /\ Len(<<e>>) <= 3 /\ ToSet(<<e>>) = {e}
  <2>1. <<e>> \in Seq(Entries) /\ Len(<<e>>) = 1 /\ DOMAIN <<e>> = {1} /\ <<e>>[1] = e
    OBVIOUS
  <2>2. QED
    BY <2>1 DEF ToSet
<1>2. ASSUME NEW r \in Report
      PROVE  EventsOf(r) \in Seq(Entries) /\ Len(EventsOf(r)) <= 3
  <2>1. PICK events : events = EventsOf(r)
    OBVIOUS
  <2>2. events \in Seq(ToSet(events)) /\ Len(events) <= 3
    BY <2>1, EventsOfReport
  <2>3. ToSet(events) \subseteq BuildEntries
    BY <2>1 DEF BuildEntries
  <2>4. QED
    BY <2>1, <2>2, <2>3, SequencesWiden DEF Entries
<1>3. ASSUME NEW c \in Command, NEW n \in -MaxInt - 1 .. MaxInt
      PROVE  Correction(c, n) \in Entries
  <2>1. Correction(c, n) \in Corrections
    BY DEF Corrections
  <2>2. QED
    BY <2>1 DEF Entries
<1>4. Event \subseteq Entries
  BY DEF Entries
<1>5. QED
  BY <1>1, <1>2, <1>3, <1>4

(* A transaction of the ledger adds its events to those of its tenant.      *)
LEMMA LedgerGrows ==
  ASSUME LedgerTypeOK, NEW t \in Tenant, NEW events, events \in Seq(Entries),
         Len(events) <= 3, AppendUsageTx(t, events)
  PROVE  /\ LedgerTypeOK'
         /\ sub[t] # NoSubscription
         /\ Recorded(t)' = Recorded(t) \cup ToSet(events)
         /\ \A u \in Tenant \ {t} : usage'[u] = usage[u] /\ Recorded(u)' = Recorded(u)
<1>1. PICK ledger : ledger = usage[t]
  OBVIOUS
<1>2. PICK after : after = ledger \o NewEvent(ledger, events, 1)
                                  \o NewEvent(ledger, events, 2)
                                  \o NewEvent(ledger, events, 3)
  OBVIOUS
<1>3. ledger \in Seq(Entries)
  BY <1>1 DEF LedgerTypeOK
<1>4. after \in Seq(Entries) /\ ToSet(after) = ToSet(ledger) \cup ToSet(events)
  BY <1>2, <1>3, EventsAdded
<1>5. sub[t] # NoSubscription /\ usage' = [usage EXCEPT ![t] = after]
  BY <1>1, <1>2 DEF AppendUsageTx, NewEvent, Recorded
<1>6. /\ usage' \in [Tenant -> Seq(Entries)] /\ usage'[t] = after
      /\ \A u \in Tenant \ {t} : usage'[u] = usage[u]
  BY <1>4, <1>5 DEF LedgerTypeOK
<1>7. QED
  BY <1>1, <1>4, <1>5, <1>6 DEF LedgerTypeOK, Recorded

(* The specification of a subscription's plan stays.                        *)
LEMMA SpecsKept ==
  ASSUME QuotaInv, QuotaNext, NEW t \in Tenant
  PROVE  /\ sub[t] # NoSubscription => sub'[t] # NoSubscription
         /\ sub[t] # NoSubscription => SpecOf(t)' = SpecOf(t)
<1>1. CASE CommerceNext
  <2>1. Fixed
    BY <1>1, PlansFixed DEF QuotaInv
  <2>2. sub[t] # NoSubscription =>
          sub'[t] # NoSubscription /\ sub'[t].plan = sub[t].plan
    BY <1>1, SubscriptionsKept DEF QuotaInv
  <2>3. sub[t] # NoSubscription => sub[t].plan \in Plan
    BY DEF QuotaInv, QuotaTypeOK, CommerceTypeOK, Subscriptions
  <2>4. QED
    BY <2>1, <2>2, <2>3 DEF QuotaInv, Pinned, Fixed, SpecOf
<1>2. CASE UNCHANGED commerceVars
  BY <1>2 DEF commerceVars, SpecOf
<1>3. QED
  BY <1>1, <1>2
  DEF QuotaNext, Reserve, BeginCommit, BeginRelease, UpdateQuotaReservation

(* A build that was charged for stays so.                                   *)
ChargedFor(t, e) ==
  \E r \in Report :
    /\ e \in ToSet(EventsOf(r))
    /\ ToSet(EventsOf(r)) \subseteq Recorded(t)
    /\ r.outcome # "PLATFORM_FAILED"
    /\ r.outcome = "USER_FAILED" => SpecOf(t).chargeFailures

LEMMA ChargesKept ==
  ASSUME NEW t \in Tenant, NEW e, ChargedFor(t, e), SpecOf(t)' = SpecOf(t),
         Recorded(t) \subseteq Recorded(t)'
  PROVE  ChargedFor(t, e)'
<1>1. PICK r \in Report :
        /\ e \in ToSet(EventsOf(r))
        /\ ToSet(EventsOf(r)) \subseteq Recorded(t)
        /\ r.outcome # "PLATFORM_FAILED"
        /\ r.outcome = "USER_FAILED" => SpecOf(t).chargeFailures
  BY DEF ChargedFor
<1>2. PICK charged : charged = ToSet(EventsOf(r))
  OBVIOUS
<1>3. /\ charged \subseteq Recorded(t)'
      /\ r.outcome = "USER_FAILED" => (SpecOf(t).chargeFailures)'
  BY <1>1, <1>2
<1>4. QED
  BY <1>1, <1>2, <1>3 DEF ChargedFor

LEMMA BuildsAreChargedFor ==
  BuildsAreCharged <=> \A t \in Tenant : \A e \in Recorded(t) :
                         e.key[1] = "build" => ChargedFor(t, e)
BY DEF BuildsAreCharged, ChargedFor

(* A transaction whose events are none of a build, or are those of one      *)
(* chargeable report, leaves every build charged for.                       *)
LEMMA AppendKeepsCharges ==
  ASSUME UsageInv, UNCHANGED allQuotaVars, NEW t \in Tenant,
         NEW events, events \in Seq(Entries), Len(events) <= 3, AppendUsageTx(t, events),
         \A e \in ToSet(events) : e.key[1] = "build" => ChargedFor(t, e)'
  PROVE  UsageInv'
<1>1. /\ LedgerTypeOK'
      /\ sub[t] # NoSubscription
      /\ Recorded(t)' = Recorded(t) \cup ToSet(events)
      /\ \A u \in Tenant \ {t} : usage'[u] = usage[u] /\ Recorded(u)' = Recorded(u)
  BY LedgerGrows DEF UsageInv
<1>2. sub' = sub /\ \A u \in Tenant : SpecOf(u)' = SpecOf(u)
  BY DEF allQuotaVars, commerceVars, SpecOf
<1>3. Opened'
  BY <1>1, <1>2 DEF UsageInv, Opened
<1>4. BuildsAreCharged'
  <2>1. SUFFICES ASSUME NEW u \in Tenant, NEW e \in Recorded(u)', e.key[1] = "build"
                 PROVE  ChargedFor(u, e)'
    BY BuildsAreChargedFor DEF BuildsAreCharged, ChargedFor
  <2>2. CASE e \in Recorded(u)
    <3>1. ChargedFor(u, e)
      BY <2>1, <2>2, BuildsAreChargedFor DEF UsageInv
    <3>2. Recorded(u) \subseteq Recorded(u)'
      BY <1>1
    <3>3. QED
      BY <1>2, <3>1, <3>2, ChargesKept
  <2>3. CASE e \notin Recorded(u)
    BY <1>1, <2>1, <2>3
  <2>4. QED
    BY <2>2, <2>3
<1>5. QED
  BY <1>1, <1>3, <1>4 DEF UsageInv

(* The ledger's invariant, over that of the quotas.                         *)
LEMMA UsageInit == Init => UsageInv
<1>1. SUFFICES ASSUME Init PROVE UsageInv
  OBVIOUS
<1>2. usage = [t \in Tenant |-> <<>>]
  BY <1>1 DEF Init
<1>3. LedgerTypeOK /\ Opened
  BY <1>2 DEF LedgerTypeOK, Opened
<1>4. BuildsAreCharged
  <2>1. ToSet(<<>>) = {}
    BY DEF ToSet
  <2>2. QED
    BY <1>2, <2>1 DEF BuildsAreCharged, Recorded
<1>5. QED
  BY <1>3, <1>4 DEF UsageInv

LEMMA QuotasKeepUsage ==
  ASSUME QuotaInv, UsageInv, [QuotaNext]_allQuotaVars, UNCHANGED usage
  PROVE  UsageInv'
<1>1. /\ LedgerTypeOK'
      /\ \A t \in Tenant : usage'[t] = usage[t] /\ Recorded(t)' = Recorded(t)
  BY DEF UsageInv, LedgerTypeOK, Recorded
<1>2. ASSUME NEW t \in Tenant
      PROVE  /\ sub[t] # NoSubscription => sub'[t] # NoSubscription
             /\ sub[t] # NoSubscription => SpecOf(t)' = SpecOf(t)
  <2>1. CASE QuotaNext
    BY <2>1, SpecsKept
  <2>2. CASE UNCHANGED allQuotaVars
    BY <2>2 DEF allQuotaVars, commerceVars, SpecOf
  <2>3. QED
    BY <2>1, <2>2
<1>3. Opened'
  BY <1>1, <1>2 DEF UsageInv, Opened
<1>4. BuildsAreCharged'
  <2>1. SUFFICES ASSUME NEW t \in Tenant, NEW e \in Recorded(t)', e.key[1] = "build"
                 PROVE  ChargedFor(t, e)'
    BY BuildsAreChargedFor DEF BuildsAreCharged, ChargedFor
  <2>2. e \in Recorded(t)
    BY <1>1, <2>1
  <2>3. sub[t] # NoSubscription
    <3>1. ToSet(<<>>) = {}
      BY DEF ToSet
    <3>2. QED
      BY <2>2, <3>1 DEF UsageInv, Opened, Recorded
  <2>4. ChargedFor(t, e)
    BY <2>1, <2>2, BuildsAreChargedFor DEF UsageInv
  <2>5. QED
    BY <1>1, <1>2, <2>3, <2>4, ChargesKept
<1>5. QED
  BY <1>1, <1>3, <1>4 DEF UsageInv

LEMMA UsageStep ==
  ASSUME QuotaInv, UsageInv, [Next]_vars
  PROVE  UsageInv'
<1>1. CASE [QuotaNext]_allQuotaVars /\ UNCHANGED usageVars
  BY <1>1, QuotasKeepUsage DEF usageVars
<1>2. ASSUME NEW t \in Tenant, NEW e \in Event, AppendEvent(t, e)
      PROVE  UsageInv'
  <2>1. <<e>> \in Seq(Entries) /\ Len(<<e>>) <= 3 /\ ToSet(<<e>>) = {e}
    BY EntriesAppended
  <2>2. e.key[1] # "build"
    BY EventAssumption
  <2>3. \A f \in ToSet(<<e>>) : f.key[1] = "build" => ChargedFor(t, f)'
    BY <2>1, <2>2
  <2>4. QED
    BY <1>2, <2>1, <2>3, AppendKeepsCharges DEF AppendEvent
<1>3. ASSUME NEW t \in Tenant, NEW r \in Report, RecordBuildUsage(t, r)
      PROVE  UsageInv'
  <2>1. EventsOf(r) \in Seq(Entries) /\ Len(EventsOf(r)) <= 3
    BY EntriesAppended
  <2>2. AppendUsageTx(t, EventsOf(r)) /\ UNCHANGED allQuotaVars /\ Chargeable(t, r)
    BY <1>3 DEF RecordBuildUsage
  <2>3. ToSet(EventsOf(r)) \subseteq Recorded(t)'
    BY <2>1, <2>2, LedgerGrows DEF UsageInv
  <2>4. /\ r.outcome # "PLATFORM_FAILED"
        /\ r.outcome = "USER_FAILED" => SpecOf(t).chargeFailures
    BY <2>2 DEF Chargeable
  <2>5. SpecOf(t)' = SpecOf(t)
    BY <2>2 DEF allQuotaVars, commerceVars, SpecOf
  <2>6. ASSUME NEW f \in ToSet(EventsOf(r))
        PROVE  ChargedFor(t, f)'
    <3>1. PICK charged : charged = ToSet(EventsOf(r))
      OBVIOUS
    <3>2. r.outcome = "USER_FAILED" => (SpecOf(t).chargeFailures)'
      BY <2>4, <2>5
    <3>3. QED
      BY <2>3, <2>4, <2>6, <3>1, <3>2 DEF ChargedFor
  <2>7. QED
    BY <2>1, <2>2, <2>6, AppendKeepsCharges
<1>4. ASSUME NEW t \in Tenant, NEW c \in Command, NEW order \in ListUsage(t),
             ReconcileUsage(t, c, order)
      PROVE  UsageInv'
  <2>1. PICK n \in -MaxInt - 1 .. MaxInt : AppendUsageTx(t, <<Correction(c, n)>>)
    <3>1. PICK d :
            d = Int64(c.observed - SumOf(Quantities(t, order,
                                                    {e \in Recorded(t) : Within(e, c)}),
                                         Len(usage[t])).value)
      OBVIOUS
    <3>2. d.ok /\ AppendUsageTx(t, <<Correction(c, d.value)>>)
      BY <1>4, <3>1 DEF ReconcileUsage
    <3>3. d.value \in -MaxInt - 1 .. MaxInt
      BY <3>1, <3>2 DEF Int64, InRange, Overflow
    <3>4. QED
      BY <3>2, <3>3
  <2>2. /\ <<Correction(c, n)>> \in Seq(Entries) /\ Len(<<Correction(c, n)>>) <= 3
        /\ ToSet(<<Correction(c, n)>>) = {Correction(c, n)}
    BY EntriesAppended
  <2>3. Correction(c, n).key[1] # "build"
    BY DEF Correction
  <2>4. \A f \in ToSet(<<Correction(c, n)>>) :
          f.key[1] = "build" => ChargedFor(t, f)'
    BY <2>2, <2>3
  <2>5. UNCHANGED allQuotaVars
    BY <1>4 DEF ReconcileUsage
  <2>6. QED
    BY <2>1, <2>2, <2>4, <2>5, AppendKeepsCharges
<1>5. QED
  <2>1. CASE UNCHANGED vars
    BY <1>1, <2>1 DEF vars
  <2>2. CASE Next
    BY <1>1, <1>2, <1>3, <1>4, <2>2 DEF Next
  <2>3. QED
    BY <2>1, <2>2

(* What a ledger holds of a build comes from whole chargeable reports, for  *)
(* any events, reports and commands, and whatever happens to plans and      *)
(* subscriptions (service.go, RecordBuildUsage and appendUsageTx).          *)
THEOREM BuildsCharged == Spec => []BuildsAreCharged
<1>1. Spec => []QuotaInv
  BY UsageKeepsQuotas, QuotaInvariant, PTL
<1>2. Init => UsageInv
  BY UsageInit
<1>3. QuotaInv /\ UsageInv /\ [Next]_vars => UsageInv'
  BY UsageStep
<1>4. UsageInv => BuildsAreCharged
  BY DEF UsageInv
<1>5. QED
  BY <1>1, <1>2, <1>3, <1>4, PTL DEF Spec

-----------------------------------------------------------------------------
(* Induction over numbers, without a predicate as a parameter: a set of     *)
(* numbers that holds 0 and every successor holds them all.                 *)
LEMMA NumbersOrdered == IsWellFoundedOn({p \in Nat \X Nat : p[1] < p[2]}, Nat)
BY NatLessThanWellFounded, Zenon DEF OpToRel

LEMMA LeastNumber ==
  ASSUME NEW T, T \in SUBSET Nat, T # {}
  PROVE  \E m \in T : \A n \in T : m <= n
<1>1. PICK m \in T : \A n \in T : ~(<<n, m>> \in {p \in Nat \X Nat : p[1] < p[2]})
  BY NumbersOrdered, WFMin, Zenon
<1>2. \A n \in T : ~(n < m)
  BY <1>1
<1>3. QED
  BY <1>2

LEMMA NumberInduction ==
  ASSUME NEW T, 0 \in T, \A n \in Nat : n \in T => n + 1 \in T
  PROVE  Nat \subseteq T
<1>1. SUFFICES ASSUME Nat \ T # {} PROVE FALSE
  OBVIOUS
<1>2. PICK m \in Nat \ T : \A n \in Nat \ T : m <= n
  BY <1>1, LeastNumber
<1>3. m - 1 \in Nat /\ m - 1 \notin Nat \ T
  BY <1>2
<1>4. QED
  BY <1>3

(* The states of a loop of n rounds over a set of states.                   *)
Loops(f, S, start, n, step) ==
  /\ f \in [0..n -> S]
  /\ f[0] = start
  /\ \A i \in 1..n : f[i] = step[<<f[i - 1], i>>]

LEMMA LoopRuns ==
  ASSUME NEW S, NEW start \in S, NEW n \in Nat, NEW step \in [S \X (1..n) -> S]
  PROVE  \E f : Loops(f, S, start, n, step)
<1> DEFINE Run(f, k) == f[0] = start /\ \A i \in 1..k : f[i] = step[<<f[i - 1], i>>]
           T == {k \in Nat : k <= n => \E f \in [0..k -> S] : Run(f, k)}
<1>1. 0 \in T
  <2>1. [i \in 0..0 |-> start] \in [0..0 -> S] /\ Run([i \in 0..0 |-> start], 0)
    OBVIOUS
  <2>2. QED
    BY <2>1
<1>2. ASSUME NEW k \in Nat, k \in T
      PROVE  k + 1 \in T
  <2>1. SUFFICES ASSUME k + 1 <= n PROVE \E f \in [0..k + 1 -> S] : Run(f, k + 1)
    OBVIOUS
  <2>2. PICK f \in [0..k -> S] : Run(f, k)
    BY <1>2, <2>1
  <2>3. PICK last : last = step[<<f[k], k + 1>>]
    OBVIOUS
  <2>4. last \in S
    <3>1. <<f[k], k + 1>> \in S \X (1..n)
      BY <2>1, <2>2
    <3>2. QED
      BY <2>3, <3>1
  <2>5. PICK g : g = [i \in 0..k + 1 |-> IF i = k + 1 THEN last ELSE f[i]]
    OBVIOUS
  <2>6. g \in [0..k + 1 -> S]
    BY <2>2, <2>4, <2>5
  <2>7. g[0] = start
    BY <2>2, <2>5
  <2>8. ASSUME NEW i \in 1..k + 1
        PROVE  g[i] = step[<<g[i - 1], i>>]
    <3>1. CASE i = k + 1
      <4>1. i - 1 = k /\ k # k + 1 /\ k \in 0..k + 1 /\ k + 1 \in 0..k + 1
        BY <3>1
      <4>2. g[i] = last /\ g[i - 1] = f[k]
        BY <2>5, <3>1, <4>1
      <4>3. QED
        BY <2>3, <3>1, <4>1, <4>2
    <3>2. CASE i # k + 1
      <4>1. i \in 1..k /\ i - 1 \in 0..k /\ i - 1 # k + 1
        BY <3>2
      <4>2. f[i] = step[<<f[i - 1], i>>]
        BY <2>2, <4>1
      <4>3. g[i] = f[i] /\ g[i - 1] = f[i - 1]
        BY <2>5, <4>1
      <4>4. QED
        BY <4>2, <4>3
    <3>3. QED
      BY <3>1, <3>2
  <2>9. QED
    BY <2>6, <2>7, <2>8
<1>3. n \in T
  <2> HIDE DEF T
  <2>1. QED
    BY <1>1, <1>2, NumberInduction
<1>4. QED
  BY <1>3 DEF Loops

-----------------------------------------------------------------------------
(* Exact sums.                                                              *)
Adds(s, f, n) ==
  /\ s \in [0..n -> Int]
  /\ s[0] = 0
  /\ \A i \in 1..n : s[i] = s[i - 1] + f[i]

LEMMA TotalAdds ==
  ASSUME NEW n \in Nat, NEW f, \A i \in 1..n : f[i] \in Int
  PROVE  \E s : Adds(s, f, n) /\ Total(f, n) = s[n]
<1>1. PICK step : step = [p \in Int \X (1..n) |-> p[1] + f[p[2]]]
  OBVIOUS
<1>2. step \in [Int \X (1..n) -> Int] /\ 0 \in Int
  BY <1>1
<1>3. PICK r : Loops(r, Int, 0, n, step)
  BY <1>2, LoopRuns
<1>4. ASSUME NEW i \in 1..n
      PROVE  r[i] = r[i - 1] + f[i]
  <2>1. <<r[i - 1], i>> \in Int \X (1..n)
    BY <1>3 DEF Loops
  <2>2. QED
    BY <1>1, <1>3, <2>1 DEF Loops
<1>5. r = [i \in 0..n |-> IF i = 0 THEN 0 ELSE r[i - 1] + f[i]]
  BY <1>3, <1>4 DEF Loops
<1>6. PICK s : /\ s = [i \in 0..n |-> IF i = 0 THEN 0 ELSE s[i - 1] + f[i]]
               /\ Total(f, n) = s[n]
  BY <1>5 DEF Total
<1>7. s[0] = 0 /\ \A i \in 1..n : s[i] = s[i - 1] + f[i]
  BY <1>6
<1> DEFINE T == {k \in Nat : k <= n => s[k] \in Int}
<1>8. \A k \in 0..n : s[k] \in Int
  <2>1. ASSUME NEW k \in Nat, k \in T
        PROVE  k + 1 \in T
    <3>1. SUFFICES ASSUME k + 1 <= n PROVE s[k + 1] \in Int
      OBVIOUS
    <3>2. s[k + 1] = s[k] + f[k + 1] /\ s[k] \in Int /\ f[k + 1] \in Int
      BY <1>7, <2>1, <3>1
    <3>3. QED
      BY <3>2
  <2>2. 0 \in T
    BY <1>7
  <2>3. Nat \subseteq T
    <3> HIDE DEF T
    <3>1. QED
      BY <2>1, <2>2, NumberInduction
  <2>4. QED
    BY <2>3
<1>9. s \in [0..n -> Int]
  BY <1>6, <1>8
<1>10. QED
  BY <1>6, <1>7, <1>9 DEF Adds

LEMMA AddsAgree ==
  ASSUME NEW n \in Nat, NEW f, NEW g, \A i \in 1..n : f[i] = g[i],
         NEW r, Adds(r, f, n), NEW s, NEW m \in Nat, n <= m, Adds(s, g, m)
  PROVE  r[n] = s[n]
<1> DEFINE T == {k \in Nat : k <= n => r[k] = s[k]}
<1>1. 0 \in T
  BY DEF Adds
<1>2. ASSUME NEW k \in Nat, k \in T
      PROVE  k + 1 \in T
  <2>1. SUFFICES ASSUME k + 1 <= n PROVE r[k + 1] = s[k + 1]
    OBVIOUS
  <2>2. k + 1 \in 1..n /\ k + 1 \in 1..m /\ (k + 1) - 1 = k
    BY <2>1
  <2>3. r[k + 1] = r[k] + f[k + 1] /\ s[k + 1] = s[k] + g[k + 1]
    BY <2>2 DEF Adds
  <2>4. QED
    BY <1>2, <2>1, <2>2, <2>3
<1>3. n \in T
  <2> HIDE DEF T
  <2>1. QED
    BY <1>1, <1>2, NumberInduction
<1>4. QED
  BY <1>3

(* A sum is made of the sum before it and the last number.                  *)
LEMMA TotalNext ==
  ASSUME NEW n \in Nat, NEW f, \A i \in 1..n + 1 : f[i] \in Int
  PROVE  /\ Total(f, n) \in Int
         /\ Total(f, n + 1) = Total(f, n) + f[n + 1]
<1>1. PICK s : Adds(s, f, n + 1) /\ Total(f, n + 1) = s[n + 1]
  BY TotalAdds
<1>2. PICK r : Adds(r, f, n) /\ Total(f, n) = r[n]
  BY TotalAdds
<1>3. r[n] = s[n]
  BY <1>1, <1>2, AddsAgree
<1>4. r[n] \in Int /\ s[n + 1] = s[n] + f[n + 1]
  BY <1>1, <1>2 DEF Adds
<1>5. QED
  BY <1>1, <1>2, <1>3, <1>4

LEMMA TotalNone == ASSUME NEW f PROVE Total(f, 0) = 0
<1>1. PICK s : Adds(s, f, 0) /\ Total(f, 0) = s[0]
  BY TotalAdds
<1>2. QED
  BY <1>1 DEF Adds

LEMMA TotalInt ==
  ASSUME NEW n \in Nat, NEW f, \A i \in 1..n : f[i] \in Int
  PROVE  Total(f, n) \in Int
<1>1. PICK s : Adds(s, f, n) /\ Total(f, n) = s[n]
  BY TotalAdds
<1>2. QED
  BY <1>1 DEF Adds

LEMMA TotalSame ==
  ASSUME NEW n \in Nat, NEW f, NEW g,
         \A i \in 1..n : f[i] \in Int /\ f[i] = g[i]
  PROVE  Total(f, n) = Total(g, n)
<1>1. PICK r : Adds(r, f, n) /\ Total(f, n) = r[n]
  BY TotalAdds
<1>2. PICK s : Adds(s, g, n) /\ Total(g, n) = s[n]
  BY TotalAdds
<1>3. QED
  BY <1>1, <1>2, AddsAgree

LEMMA TotalNatural ==
  ASSUME NEW n \in Nat, NEW f, \A i \in 1..n : f[i] \in Nat
  PROVE  Total(f, n) \in Nat
<1> DEFINE T == {k \in Nat : k <= n => Total(f, k) \in Nat}
<1>1. 0 \in T
  BY TotalNone
<1>2. ASSUME NEW k \in Nat, k \in T
      PROVE  k + 1 \in T
  <2>1. SUFFICES ASSUME k + 1 <= n PROVE Total(f, k + 1) \in Nat
    OBVIOUS
  <2>2. \A i \in 1..k + 1 : f[i] \in Int
    BY <2>1
  <2>3. Total(f, k + 1) = Total(f, k) + f[k + 1]
    BY <2>2, TotalNext
  <2>4. QED
    BY <1>2, <2>1, <2>3
<1>3. n \in T
  <2> HIDE DEF T
  <2>1. QED
    BY <1>1, <1>2, NumberInduction
<1>4. QED
  BY <1>3

(* Putting another number into one place changes the sum by the difference. *)
LEMMA TotalChanged ==
  ASSUME NEW n \in Nat, NEW f \in [1..n -> Int], NEW p \in 1..n, NEW v \in Int
  PROVE  Total([f EXCEPT ![p] = v], n) = Total(f, n) - f[p] + v
<1>1. PICK g : g = [f EXCEPT ![p] = v]
  OBVIOUS
<1>2. g \in [1..n -> Int] /\ g[p] = v /\ \A i \in 1..n \ {p} : g[i] = f[i]
  BY <1>1
<1> DEFINE T == {k \in Nat : k <= n => Total(g, k) = IF k < p THEN Total(f, k)
                                                   ELSE Total(f, k) - f[p] + v}
<1>3. 0 \in T
  BY TotalNone
<1>4. ASSUME NEW k \in Nat, k \in T
      PROVE  k + 1 \in T
  <2>1. SUFFICES ASSUME k + 1 <= n
                 PROVE  Total(g, k + 1) = IF k + 1 < p THEN Total(f, k + 1)
                                          ELSE Total(f, k + 1) - f[p] + v
    OBVIOUS
  <2>2. \A i \in 1..k + 1 : f[i] \in Int /\ g[i] \in Int
    BY <1>2, <2>1
  <2>3. /\ Total(f, k) \in Int /\ Total(f, k + 1) = Total(f, k) + f[k + 1]
        /\ Total(g, k + 1) = Total(g, k) + g[k + 1]
    BY <2>2, TotalNext
  <2>4. Total(g, k) = IF k < p THEN Total(f, k) ELSE Total(f, k) - f[p] + v
    BY <1>4, <2>1
  <2>5. k + 1 \in 1..n /\ f[k + 1] \in Int /\ f[p] \in Int
    BY <2>1
  <2>6. CASE k + 1 = p
    BY <1>2, <2>3, <2>4, <2>5, <2>6
  <2>7. CASE k + 1 # p
    <3>1. g[k + 1] = f[k + 1] /\ (k < p <=> k + 1 < p)
      BY <1>2, <2>5, <2>7
    <3>2. QED
      BY <2>3, <2>4, <2>5, <3>1
  <2>8. QED
    BY <2>6, <2>7
<1>5. n \in T
  <2> HIDE DEF T
  <2>1. QED
    BY <1>3, <1>4, NumberInduction
<1>6. QED
  BY <1>1, <1>5

LEMMA BijectionMeans ==
  ASSUME NEW S, NEW T, NEW b
  PROVE  b \in Bijection(S, T) <=>
           /\ b \in [S -> T]
           /\ \A i, j \in S : b[i] = b[j] => i = j
           /\ \A m \in T : \E i \in S : b[i] = m
BY DEF Bijection, Injection, Surjection, IsInjective

(* A sum does not depend on the order.                                      *)
Permuted(f, order, n) == [i \in 1..n |-> f[order[i]]]

OrderFree(k) ==
  \A f \in [1..k -> Int], order \in Bijection(1..k, 1..k) :
    Total(Permuted(f, order, k), k) = Total(f, k)

(* A bijection that takes the last place from elsewhere is one of the       *)
(* places before it, and two changes.                                       *)
LEMMA PermutedNext ==
  ASSUME NEW k \in Nat, NEW g \in [1..k + 1 -> Int],
         NEW o \in Bijection(1..k + 1, 1..k + 1), OrderFree(k)
  PROVE  Total(Permuted(g, o, k + 1), k + 1) = Total(g, k + 1)
<1>0. PICK h : h = Permuted(g, o, k + 1)
  OBVIOUS
<1>1. /\ o \in [1..k + 1 -> 1..k + 1]
      /\ \A i, j \in 1..k + 1 : o[i] = o[j] => i = j
      /\ \A m \in 1..k + 1 : \E i \in 1..k + 1 : o[i] = m
  <2>1. PICK S : S = 1..k + 1
    OBVIOUS
  <2>2. o \in Bijection(S, S)
    BY <2>1
  <2>3. /\ o \in [S -> S]
        /\ \A i, j \in S : o[i] = o[j] => i = j
        /\ \A m \in S : \E i \in S : o[i] = m
    BY <2>2, BijectionMeans
  <2>4. QED
    BY <2>1, <2>3
<1>2. PICK p \in 1..k + 1 : o[p] = k + 1
  <2>1. k + 1 \in 1..k + 1
    OBVIOUS
  <2>2. QED
    BY <1>1, <2>1
<1>3. /\ h \in [1..k + 1 -> Int] /\ h[p] = g[k + 1]
      /\ \A i \in 1..k + 1 : h[i] = g[o[i]]
  BY <1>0, <1>1, <1>2 DEF Permuted
<1>4. PICK v : v = h[k + 1]
  OBVIOUS
<1>5. k + 1 \in 1..k + 1 /\ v \in Int
  BY <1>3, <1>4
<1>6. PICK q : q = [h EXCEPT ![p] = v]
  OBVIOUS
<1>7. q \in [1..k + 1 -> Int] /\ Total(q, k + 1) = Total(h, k + 1) - g[k + 1] + v
  <2>1. q \in [1..k + 1 -> Int]
    BY <1>3, <1>5, <1>6
  <2>2. k + 1 \in Nat
    OBVIOUS
  <2>3. Total([h EXCEPT ![p] = v], k + 1) = Total(h, k + 1) - h[p] + v
    BY <1>3, <1>5, <2>2, TotalChanged
  <2>4. QED
    BY <1>3, <1>6, <2>1, <2>3
<1>8. Total(q, k + 1) = Total(q, k) + v /\ Total(q, k) \in Int
  <2>1. q[k + 1] = v
    BY <1>3, <1>4, <1>5, <1>6
  <2>2. \A i \in 1..k + 1 : q[i] \in Int
    BY <1>7
  <2>3. QED
    BY <2>1, <2>2, TotalNext
<1>9. PICK e : e = [i \in 1..k |-> IF i = p THEN o[k + 1] ELSE o[i]]
  OBVIOUS
<1>10. e \in Bijection(1..k, 1..k)
  <2>1. ASSUME NEW i \in 1..k
        PROVE  e[i] \in 1..k
    <3>1. CASE i = p
      <4>1. o[k + 1] # k + 1 /\ o[k + 1] \in 1..k + 1
        BY <1>1, <1>2, <1>5, <3>1
      <4>2. PICK x : x = o[k + 1]
        OBVIOUS
      <4>3. e[i] = x
        BY <1>9, <3>1, <4>2
      <4>4. x \in 1..k
        BY <4>1, <4>2
      <4>5. QED
        BY <4>3, <4>4
    <3>2. CASE i # p
      <4>1. i \in 1..k + 1
        OBVIOUS
      <4>2. o[i] # k + 1 /\ o[i] \in 1..k + 1
        BY <1>1, <1>2, <3>2, <4>1
      <4>3. e[i] = o[i]
        BY <1>9, <3>2
      <4>4. QED
        BY <4>2, <4>3
    <3>3. QED
      BY <3>1, <3>2
  <2>2. ASSUME NEW i \in 1..k, NEW j \in 1..k, e[i] = e[j]
        PROVE  i = j
    <3>1. i \in 1..k + 1 /\ j \in 1..k + 1 /\ i # k + 1 /\ j # k + 1
      OBVIOUS
    <3>2. /\ e[i] = IF i = p THEN o[k + 1] ELSE o[i]
          /\ e[j] = IF j = p THEN o[k + 1] ELSE o[j]
      BY <1>9
    <3>3. QED
      BY <1>1, <1>5, <2>2, <3>1, <3>2
  <2>3. ASSUME NEW m \in 1..k
        PROVE  \E i \in 1..k : e[i] = m
    <3>1. PICK i \in 1..k + 1 : o[i] = m
      BY <1>1
    <3>2. CASE i = k + 1
      <4>1. p # k + 1
        <5>1. m # k + 1
          OBVIOUS
        <5>2. QED
          BY <1>2, <3>1, <3>2, <5>1
      <4>2. p \in 1..k /\ e[p] = m
        BY <1>9, <3>1, <3>2, <4>1
      <4>3. QED
        BY <4>2
    <3>3. CASE i # k + 1
      <4>1. i # p /\ i \in 1..k
        BY <1>2, <3>1, <3>3
      <4>2. e[i] = m
        BY <1>9, <3>1, <4>1
      <4>3. QED
        BY <4>1, <4>2
    <3>4. QED
      BY <3>2, <3>3
  <2>4. e \in [1..k -> 1..k]
    BY <1>9, <2>1
  <2>5. QED
    BY <2>2, <2>3, <2>4, BijectionMeans
<1>11. PICK f1 : f1 = [i \in 1..k |-> g[i]]
  OBVIOUS
<1>12. f1 \in [1..k -> Int] /\ Total(f1, k) = Total(g, k)
  <2>1. f1 \in [1..k -> Int] /\ \A i \in 1..k : f1[i] \in Int /\ f1[i] = g[i]
    BY <1>11
  <2>2. QED
    BY <2>1, TotalSame
<1>13. Total(Permuted(f1, e, k), k) = Total(g, k)
  BY <1>10, <1>12 DEF OrderFree
<1>14. Total(q, k) = Total(Permuted(f1, e, k), k)
  <2>1. ASSUME NEW i \in 1..k
        PROVE  q[i] \in Int /\ q[i] = Permuted(f1, e, k)[i]
    <3>1. q[i] \in Int /\ i \in 1..k + 1
      BY <1>7
    <3>2. e[i] \in 1..k
      <4>1. e \in [1..k -> 1..k]
        BY <1>10, BijectionMeans
      <4>2. QED
        BY <4>1
    <3>3. Permuted(f1, e, k)[i] = g[e[i]]
      BY <1>11, <3>2 DEF Permuted
    <3>4. CASE i = p
      <4>1. q[i] = v /\ e[i] = o[k + 1] /\ v = g[o[k + 1]]
        BY <1>3, <1>4, <1>5, <1>6, <1>9, <3>4
      <4>2. QED
        BY <3>1, <3>3, <4>1
    <3>5. CASE i # p
      <4>1. q[i] = h[i] /\ e[i] = o[i] /\ h[i] = g[o[i]]
        BY <1>3, <1>6, <1>9, <3>1, <3>5
      <4>2. QED
        BY <3>1, <3>3, <4>1
    <3>6. QED
      BY <3>4, <3>5
  <2>2. QED
    BY <2>1, TotalSame
<1>15. Total(g, k + 1) = Total(g, k) + g[k + 1] /\ Total(g, k) \in Int
  BY TotalNext
<1>16. Total(h, k + 1) \in Int /\ g[k + 1] \in Int
  <2>1. \A i \in 1..k + 1 : h[i] \in Int
    BY <1>3
  <2>2. QED
    BY <1>5, <2>1, TotalInt
<1>17. QED
  <2>1. PICK a, b, c, d : /\ a = Total(h, k + 1) /\ b = Total(g, k + 1)
                          /\ c = Total(q, k + 1) /\ d = Total(q, k)
    OBVIOUS
  <2>2. c = a - g[k + 1] + v /\ c = d + v /\ b = d + g[k + 1]
    BY <1>7, <1>8, <1>13, <1>14, <1>15, <2>1
  <2>3. a \in Int /\ g[k + 1] \in Int /\ v \in Int /\ d \in Int
    BY <1>5, <1>8, <1>16, <2>1
  <2>4. a = b
    BY <2>2, <2>3
  <2>5. QED
    BY <1>0, <2>1, <2>4

LEMMA TotalPermuted ==
  ASSUME NEW n \in Nat, NEW f \in [1..n -> Int], NEW order \in Bijection(1..n, 1..n)
  PROVE  Total(Permuted(f, order, n), n) = Total(f, n)
<1> DEFINE T == {k \in Nat : OrderFree(k)}
<1>1. 0 \in T
  BY TotalNone DEF OrderFree
<1>2. ASSUME NEW k \in Nat, k \in T
      PROVE  k + 1 \in T
  <2>1. OrderFree(k)
    BY <1>2
  <2>2. ASSUME NEW g \in [1..k + 1 -> Int], NEW o \in Bijection(1..k + 1, 1..k + 1)
        PROVE  Total(Permuted(g, o, k + 1), k + 1) = Total(g, k + 1)
    BY <2>1, PermutedNext
  <2>3. OrderFree(k + 1)
    BY <2>2 DEF OrderFree
  <2>4. QED
    BY <2>3
<1>3. n \in T
  <2> HIDE DEF T
  <2>1. QED
    BY <1>1, <1>2, NumberInduction
<1>4. QED
  BY <1>3 DEF OrderFree

-----------------------------------------------------------------------------
(* Sums whose additions are checked (safeAdd): one that stays in range is   *)
(* the exact sum.                                                           *)
Sums == [ok : BOOLEAN, value : -MaxInt - 1 .. MaxInt]

LEMMA Int64Typed ==
  ASSUME NEW n \in Int
  PROVE  Int64(n) \in Sums /\ (Int64(n).ok => Int64(n).value = n)
BY BoundsAssumption DEF Int64, InRange, Overflow, Sums

LEMMA SafeAddTyped ==
  ASSUME NEW a \in Sums, NEW n \in Int
  PROVE  /\ SafeAdd(a, n) \in Sums
         /\ SafeAdd(a, n).ok => a.ok /\ SafeAdd(a, n).value = a.value + n
<1>1. a.value \in Int /\ a.ok \in BOOLEAN
  BY BoundsAssumption DEF Sums
<1>2. CASE a.ok
  <2>1. SafeAdd(a, n) = Int64(a.value + n) /\ a.value + n \in Int
    BY <1>1, <1>2 DEF SafeAdd
  <2>2. QED
    BY <1>2, <2>1, Int64Typed
<1>3. CASE ~a.ok
  BY <1>3 DEF SafeAdd
<1>4. QED
  BY <1>2, <1>3

LEMMA SumIsTotal ==
  ASSUME NEW n \in Nat, NEW f, \A i \in 1..n : f[i] \in Int
  PROVE  /\ SumOf(f, n) \in Sums
         /\ SumOf(f, n).ok => SumOf(f, n).value = Total(f, n)
<1>1. PICK step : step = [p \in Sums \X (1..n) |-> SafeAdd(p[1], f[p[2]])]
  OBVIOUS
<1>2. step \in [Sums \X (1..n) -> Sums]
  <2>1. ASSUME NEW p \in Sums \X (1..n)
        PROVE  SafeAdd(p[1], f[p[2]]) \in Sums
    <3>1. p[1] \in Sums /\ f[p[2]] \in Int
      OBVIOUS
    <3>2. QED
      BY <3>1, SafeAddTyped
  <2>2. QED
    BY <1>1, <2>1
<1>3. Int64(0) \in Sums
  BY Int64Typed
<1>4. PICK r : Loops(r, Sums, Int64(0), n, step)
  BY <1>2, <1>3, LoopRuns
<1>5. ASSUME NEW i \in 1..n
      PROVE  r[i] = SafeAdd(r[i - 1], f[i])
  <2>1. <<r[i - 1], i>> \in Sums \X (1..n) /\ r[i] = step[<<r[i - 1], i>>]
    BY <1>4 DEF Loops
  <2>2. QED
    BY <1>1, <2>1
<1>6. r = [i \in 0..n |-> IF i = 0 THEN Int64(0) ELSE SafeAdd(r[i - 1], f[i])]
  BY <1>4, <1>5 DEF Loops
<1>7. PICK s : /\ s = [i \in 0..n |-> IF i = 0 THEN Int64(0) ELSE SafeAdd(s[i - 1], f[i])]
               /\ SumOf(f, n) = s[n]
  BY <1>6 DEF SumOf
<1>8. s[0] = Int64(0) /\ \A i \in 1..n : s[i] = SafeAdd(s[i - 1], f[i])
  BY <1>7
<1> DEFINE Holds(k) == /\ s[k] \in Sums
                       /\ s[k].ok => s[k].value = Total(f, k)
           T == {k \in Nat : k <= n => Holds(k)}
<1>9. 0 \in T
  BY <1>8, Int64Typed, TotalNone
<1>10. ASSUME NEW k \in Nat, k \in T
      PROVE  k + 1 \in T
  <2>1. SUFFICES ASSUME k + 1 <= n PROVE Holds(k + 1)
    OBVIOUS
  <2>2. /\ s[k + 1] = SafeAdd(s[k], f[k + 1]) /\ f[k + 1] \in Int
        /\ \A i \in 1..k + 1 : f[i] \in Int
    BY <1>8, <2>1
  <2>3. Holds(k)
    BY <1>10, <2>1
  <2>4. Total(f, k + 1) = Total(f, k) + f[k + 1]
    BY <2>2, TotalNext
  <2>5. QED
    BY <2>2, <2>3, <2>4, SafeAddTyped
<1>11. n \in T
  <2> HIDE DEF T
  <2>1. QED
    BY <1>9, <1>10, NumberInduction
<1>12. QED
  BY <1>7, <1>11

-----------------------------------------------------------------------------
LEMMA Halves ==
  ASSUME NEW N \in Nat, NEW per \in Nat \ {0}
  PROVE  /\ (N + per \div 2) \div per \in Nat
         /\ ((N + per \div 2) \div per) * per <= N + per \div 2
         /\ N + per \div 2 < ((N + per \div 2) \div per) * per + per
         /\ per \div 2 \in Nat /\ 2 * (per \div 2) <= per /\ per <= 2 * (per \div 2) + 1
OBVIOUS

(* An amount that fits is the nearest to the exact price of a quantity, for *)
(* every quantity and every valid price (service.go, RateQuantity).         *)
THEOREM RateIsNearest ==
  ASSUME NEW quantity \in Int, NEW price, price.minor \in Nat, price.per \in Nat \ {0},
         RateQuantity(quantity, price).ok
  PROVE  IsNearest(RateQuantity(quantity, price).value, quantity, price)
<1>1. PICK exact, per, N, h, r :
        /\ exact = quantity * price.minor /\ per = price.per
        /\ N = Magnitude(exact) /\ h = per \div 2 /\ r = (N + h) \div per
  OBVIOUS
<1>2. exact \in Int /\ per \in Nat \ {0} /\ N \in Nat
  BY <1>1 DEF Magnitude
<1>3. /\ r \in Nat /\ r * per <= N + h /\ N + h < r * per + per
      /\ h \in Nat /\ 2 * h <= per /\ per <= 2 * h + 1
  BY <1>1, <1>2, Halves
<1>4. PICK P : P = r * per
  OBVIOUS
<1>5. P \in Nat /\ (-r) * per = -P
  BY <1>2, <1>3, <1>4
<1>6. PICK amount : amount = RateQuantity(quantity, price).value
  OBVIOUS
<1>7. amount = IF exact < 0 THEN -r ELSE r
  <2>1. (IF exact < 0 THEN -r ELSE r) \in Int
    BY <1>3
  <2>2. RateQuantity(quantity, price) = Int64(IF exact < 0 THEN -r ELSE r)
    BY <1>1 DEF RateQuantity
  <2>3. QED
    BY <1>6, <2>1, <2>2, Int64Typed
<1>8. amount * per = IF exact < 0 THEN -P ELSE P
  BY <1>4, <1>5, <1>7
<1>9. PICK paid : paid = amount * per
  OBVIOUS
<1>10. \/ 2 * Magnitude(paid - exact) < per
       \/ 2 * Magnitude(paid - exact) = per /\ Magnitude(paid) > Magnitude(exact)
  <2>1. P <= N + h /\ N + h < P + per
    BY <1>3, <1>4
  <2>2. CASE exact < 0
    <3>1. paid = -P /\ N = -exact
      BY <1>1, <1>2, <1>8, <1>9, <2>2 DEF Magnitude
    <3>2. Magnitude(paid) = P /\ Magnitude(exact) = N
      BY <1>1, <1>2, <1>5, <3>1 DEF Magnitude
    <3>3. Magnitude(paid - exact) = Magnitude(P - N)
      BY <1>2, <1>5, <3>1 DEF Magnitude
    <3>4. \/ 2 * Magnitude(P - N) < per
          \/ 2 * Magnitude(P - N) = per /\ P > N
      BY <1>2, <1>3, <1>5, <2>1 DEF Magnitude
    <3>5. QED
      BY <3>2, <3>3, <3>4
  <2>3. CASE ~(exact < 0)
    <3>1. paid = P /\ N = exact
      BY <1>1, <1>2, <1>8, <1>9, <2>3 DEF Magnitude
    <3>2. Magnitude(paid) = P /\ Magnitude(exact) = N
      BY <1>1, <1>2, <1>5, <3>1 DEF Magnitude
    <3>3. \/ 2 * Magnitude(P - N) < per
          \/ 2 * Magnitude(P - N) = per /\ P > N
      BY <1>2, <1>3, <1>5, <2>1 DEF Magnitude
    <3>4. QED
      BY <3>1, <3>2, <3>3
  <2>4. QED
    BY <2>2, <2>3
<1>11. QED
  BY <1>1, <1>6, <1>9, <1>10 DEF IsNearest

-----------------------------------------------------------------------------
(* The lines of an invoice, of which every finite set can be listed.        *)
Lines == Int \X Meter \X (1..3)

LEMMA LineParts ==
  ASSUME NEW l \in Lines
  PROVE  l[1] \in Int /\ l[2] \in Int /\ l[2] \in Meter /\ l[3] \in 1..3
BY BoundsAssumption DEF Lines

LEMMA BeforeOrders ==
  /\ \A a, b \in Lines : a # b => Before(a, b) \/ Before(b, a)
  /\ \A a, b, c \in Lines : Before(a, b) /\ Before(b, c) => Before(a, c)
  /\ \A a \in Lines : ~Before(a, a)
<1>1. \A a, b \in Lines : a # b => Before(a, b) \/ Before(b, a)
  <2>1. ASSUME NEW a \in Lines, NEW b \in Lines, ~Before(a, b), ~Before(b, a)
        PROVE  a = b
    <3>1. /\ a[1] \in Int /\ a[2] \in Int /\ a[3] \in Int
          /\ b[1] \in Int /\ b[2] \in Int /\ b[3] \in Int
      BY LineParts
    <3>2. a[1] = b[1] /\ a[2] = b[2] /\ a[3] = b[3]
      BY <2>1, <3>1 DEF Before
    <3>3. QED
      BY <3>2 DEF Lines
  <2>2. QED
    BY <2>1
<1>2. \A a, b, c \in Lines : Before(a, b) /\ Before(b, c) => Before(a, c)
  <2>1. ASSUME NEW a \in Lines, NEW b \in Lines, NEW c \in Lines,
               Before(a, b), Before(b, c)
        PROVE  Before(a, c)
    <3>1. /\ a[1] \in Int /\ a[2] \in Int /\ a[3] \in Int
          /\ b[1] \in Int /\ b[2] \in Int /\ b[3] \in Int
          /\ c[1] \in Int /\ c[2] \in Int /\ c[3] \in Int
      BY LineParts
    <3>2. QED
      BY <2>1, <3>1 DEF Before
  <2>2. QED
    BY <2>1
<1>3. \A a \in Lines : ~Before(a, a)
  BY LineParts DEF Before
<1>4. QED
  BY <1>1, <1>2, <1>3

(* A set of n + 1 lines has a last one.                                     *)
LEMMA LastLine ==
  ASSUME NEW n \in Nat, NEW L \in SUBSET Lines, IsFiniteSet(L), Cardinality(L) = n + 1
  PROVE  \E m \in L : \A l \in L \ {m} : Before(l, m)
<1> DEFINE Has(S) == \E m \in S : \A l \in S \ {m} : Before(l, m)
           T == {k \in Nat : \A S \in SUBSET Lines :
                               IsFiniteSet(S) /\ Cardinality(S) = k + 1 => Has(S)}
<1>1. 0 \in T
  <2>1. ASSUME NEW S \in SUBSET Lines, IsFiniteSet(S), Cardinality(S) = 1
        PROVE  Has(S)
    <3>1. PICK m : S = {m}
      BY <2>1, FS_Singleton
    <3>2. QED
      BY <3>1
  <2>2. QED
    BY <2>1
<1>2. ASSUME NEW k \in Nat, k \in T
      PROVE  k + 1 \in T
  <2>1. ASSUME NEW S \in SUBSET Lines, IsFiniteSet(S), Cardinality(S) = (k + 1) + 1
        PROVE  Has(S)
    <3>1. PICK x \in S : TRUE
      BY <2>1, FS_EmptySet
    <3>2. PICK R : R = S \ {x}
      OBVIOUS
    <3>3. IsFiniteSet(R) /\ Cardinality(R) = k + 1 /\ R \in SUBSET Lines
      <4>1. IsFiniteSet(R) /\ Cardinality(R) = Cardinality(S) - 1
        BY <2>1, <3>1, <3>2, FS_RemoveElement
      <4>2. QED
        BY <2>1, <3>2, <4>1
    <3>4. PICK m \in R : \A l \in R \ {m} : Before(l, m)
      BY <1>2, <3>3
    <3>5. m \in Lines /\ x \in Lines /\ m # x /\ m \in S
      BY <3>2, <3>3
    <3>6. CASE Before(x, m)
      <4>1. \A l \in S \ {m} : Before(l, m)
        BY <3>2, <3>4, <3>6
      <4>2. QED
        BY <3>5, <4>1
    <3>7. CASE Before(m, x)
      <4>1. ASSUME NEW l \in S \ {x}
            PROVE  Before(l, x)
        <5>1. l \in Lines /\ (l = m \/ Before(l, m))
          BY <3>2, <3>4
        <5>2. QED
          BY <3>5, <3>7, <5>1, BeforeOrders
      <4>2. QED
        BY <4>1
    <3>8. QED
      BY <3>5, <3>6, <3>7, BeforeOrders
  <2>2. QED
    BY <2>1
<1>3. n \in T
  <2> HIDE DEF T
  <2>1. QED
    BY <1>1, <1>2, NumberInduction
<1>4. QED
  BY <1>3

Sorted(keys, n) == \A i, j \in 1..n : i < j => Before(keys[i], keys[j])

LEMMA LinesListed ==
  ASSUME NEW L \in SUBSET Lines, IsFiniteSet(L)
  PROVE  /\ Cardinality(L) \in Nat
         /\ Listed(L) \in Bijection(1..Cardinality(L), L)
<1> DEFINE Has(S, k) == \E keys : keys \in Bijection(1..k, S) /\ Sorted(keys, k)
           T == {k \in Nat : \A S \in SUBSET Lines :
                               IsFiniteSet(S) /\ Cardinality(S) = k => Has(S, k)}
<1>1. 0 \in T
  <2>1. ASSUME NEW S \in SUBSET Lines, IsFiniteSet(S), Cardinality(S) = 0
        PROVE  Has(S, 0)
    <3>1. S = {} /\ 1..0 = {}
      BY <2>1, FS_EmptySet
    <3>2. <<>> \in Bijection({}, {})
      <4>1. <<>> \in [{} -> {}]
        OBVIOUS
      <4>2. QED
        BY <4>1, BijectionMeans
    <3>3. Sorted(<<>>, 0)
      BY <3>1 DEF Sorted
    <3>4. QED
      BY <3>1, <3>2, <3>3
  <2>2. QED
    BY <2>1
<1>2. ASSUME NEW k \in Nat, k \in T
      PROVE  k + 1 \in T
  <2>1. ASSUME NEW S \in SUBSET Lines, IsFiniteSet(S), Cardinality(S) = k + 1
        PROVE  Has(S, k + 1)
    <3>1. PICK m \in S : \A l \in S \ {m} : Before(l, m)
      BY <2>1, LastLine
    <3>2. PICK R : R = S \ {m}
      OBVIOUS
    <3>3. IsFiniteSet(R) /\ Cardinality(R) = k /\ R \in SUBSET Lines
      <4>1. IsFiniteSet(R) /\ Cardinality(R) = Cardinality(S) - 1
        BY <2>1, <3>1, <3>2, FS_RemoveElement
      <4>2. QED
        BY <2>1, <3>2, <4>1
    <3>4. PICK r : r \in Bijection(1..k, R) /\ Sorted(r, k)
      BY <1>2, <3>3
    <3>5. /\ r \in [1..k -> R]
          /\ \A i, j \in 1..k : r[i] = r[j] => i = j
          /\ \A l \in R : \E i \in 1..k : r[i] = l
      BY <3>4, BijectionMeans
    <3>6. PICK keys : keys = [i \in 1..k + 1 |-> IF i = k + 1 THEN m ELSE r[i]]
      OBVIOUS
    <3>7. /\ keys[k + 1] = m
          /\ \A i \in 1..k : keys[i] = r[i] /\ keys[i] \in R
          /\ \A i \in 1..k + 1 : i = k + 1 \/ i \in 1..k
      BY <3>5, <3>6
    <3>8. keys \in [1..k + 1 -> S]
      BY <3>2, <3>6, <3>7
    <3>9. \A i, j \in 1..k + 1 : keys[i] = keys[j] => i = j
      BY <3>2, <3>5, <3>7
    <3>10. ASSUME NEW l \in S
           PROVE  \E i \in 1..k + 1 : keys[i] = l
      <4>1. CASE l = m
        <5>1. k + 1 \in 1..k + 1
          OBVIOUS
        <5>2. QED
          BY <3>7, <4>1, <5>1
      <4>2. CASE l # m
        <5>1. PICK i \in 1..k : r[i] = l
          BY <3>2, <3>5, <4>2
        <5>2. i \in 1..k + 1 /\ keys[i] = l
          BY <3>7, <5>1
        <5>3. QED
          BY <5>2
      <4>3. QED
        BY <4>1, <4>2
    <3>11. Sorted(keys, k + 1)
      <4>1. ASSUME NEW i \in 1..k + 1, NEW j \in 1..k + 1, i < j
            PROVE  Before(keys[i], keys[j])
        <5>1. i \in 1..k
          BY <4>1
        <5>2. CASE j = k + 1
          <6>1. keys[i] \in S \ {m} /\ keys[j] = m
            BY <3>2, <3>7, <5>1, <5>2
          <6>2. QED
            BY <3>1, <6>1
        <5>3. CASE j \in 1..k
          <6>1. keys[i] = r[i] /\ keys[j] = r[j] /\ Before(r[i], r[j])
            BY <3>4, <3>7, <4>1, <5>1, <5>3 DEF Sorted
          <6>2. QED
            BY <6>1
        <5>4. QED
          BY <3>7, <5>2, <5>3
      <4>2. QED
        BY <4>1 DEF Sorted
    <3>12. keys \in Bijection(1..k + 1, S)
      <4>1. PICK P : P = 1..k + 1
        OBVIOUS
      <4>2. keys \in Bijection(P, S)
        BY <3>8, <3>9, <3>10, <4>1, BijectionMeans
      <4>3. QED
        BY <4>1, <4>2
    <3>13. QED
      BY <3>11, <3>12
  <2>2. QED
    BY <2>1
<1>3. Nat \subseteq T
  <2> HIDE DEF T
  <2>1. QED
    BY <1>1, <1>2, NumberInduction
<1>4. Cardinality(L) \in Nat
  BY FS_CardinalityType
<1>5. PICK n : n = Cardinality(L)
  OBVIOUS
<1>6. \E keys \in Bijection(1..n, L) : \A i, j \in 1..n : i < j => Before(keys[i], keys[j])
  BY <1>3, <1>4, <1>5 DEF Sorted
<1>7. Listed(L) \in Bijection(1..n, L)
  BY <1>5, <1>6 DEF Listed
<1>8. QED
  BY <1>4, <1>5, <1>7

-----------------------------------------------------------------------------
(* Sums over the lines of an invoice, line by line.                         *)
InvoiceLines == [line : Lines, quantity : Int, billable : Int, amount : Int]
Invoices == [included : [Meter -> Int], lines : Seq(InvoiceLines), total : Sums]

LEMMA TotalGrows ==
  ASSUME NEW n \in Nat, NEW f, NEW g, \A i \in 1..n : f[i] \in Int /\ f[i] = g[i],
         f[n + 1] \in Int
  PROVE  Total(f, n + 1) = Total(g, n) + f[n + 1] /\ Total(g, n) \in Int
<1>1. \A i \in 1..n + 1 : f[i] \in Int
  OBVIOUS
<1>2. Total(f, n + 1) = Total(f, n) + f[n + 1] /\ Total(f, n) \in Int
  BY <1>1, TotalNext
<1>3. Total(f, n) = Total(g, n)
  BY TotalSame
<1>4. QED
  BY <1>2, <1>3

LEMMA LineAppended ==
  ASSUME NEW S, NEW q \in Seq(S), NEW x \in S
  PROVE  /\ Append(q, x) \in Seq(S) /\ Len(q) \in Nat /\ Len(Append(q, x)) = Len(q) + 1
         /\ DOMAIN q = 1..Len(q) /\ DOMAIN Append(q, x) = 1..Len(q) + 1
         /\ Append(q, x)[Len(q) + 1] = x
         /\ \A i \in 1..Len(q) : Append(q, x)[i] = q[i] /\ q[i] \in S
OBVIOUS

LEMMA AmountNext ==
  ASSUME NEW q \in Seq(InvoiceLines), NEW x \in InvoiceLines
  PROVE  AmountOf(Append(q, x)) = AmountOf(q) + x.amount /\ AmountOf(q) \in Int
<1>1. PICK n, s, f, g : /\ n = Len(q) /\ s = Append(q, x)
                        /\ f = [i \in DOMAIN s |-> s[i].amount]
                        /\ g = [i \in DOMAIN q |-> q[i].amount]
  OBVIOUS
<1>2. /\ n \in Nat /\ Len(s) = n + 1 /\ DOMAIN q = 1..n /\ DOMAIN s = 1..n + 1
      /\ s[n + 1] = x /\ \A i \in 1..n : s[i] = q[i] /\ q[i] \in InvoiceLines
  BY <1>1, LineAppended
<1>3. f[n + 1] = x.amount /\ f[n + 1] \in Int
  BY <1>1, <1>2 DEF InvoiceLines
<1>4. \A i \in 1..n : f[i] \in Int /\ f[i] = g[i]
  BY <1>1, <1>2 DEF InvoiceLines
<1>5. Total(f, n + 1) = Total(g, n) + f[n + 1] /\ Total(g, n) \in Int
  BY <1>2, <1>3, <1>4, TotalGrows
<1>6. QED
  BY <1>1, <1>2, <1>3, <1>5 DEF AmountOf

LEMMA StandardUsageNext ==
  ASSUME NEW q \in Seq(InvoiceLines), NEW x \in InvoiceLines, NEW m
  PROVE  /\ StandardUsage(Append(q, x), m)
              = StandardUsage(q, m) + (IF IsStandard(x, m) THEN x.quantity ELSE 0)
         /\ StandardUsage(q, m) \in Int
<1> DEFINE Part(l) == IF IsStandard(l, m) THEN l.quantity ELSE 0
<1>1. PICK n, s, f, g : /\ n = Len(q) /\ s = Append(q, x)
                        /\ f = [i \in DOMAIN s |-> Part(s[i])]
                        /\ g = [i \in DOMAIN q |-> Part(q[i])]
  OBVIOUS
<1>2. /\ n \in Nat /\ Len(s) = n + 1 /\ DOMAIN q = 1..n /\ DOMAIN s = 1..n + 1
      /\ s[n + 1] = x /\ \A i \in 1..n : s[i] = q[i] /\ q[i] \in InvoiceLines
  BY <1>1, LineAppended
<1>3. \A l \in InvoiceLines : Part(l) \in Int
  BY DEF InvoiceLines
<1>4. StandardUsage(s, m) = Total(f, n + 1) /\ StandardUsage(q, m) = Total(g, n)
  BY <1>1, <1>2 DEF StandardUsage
<1> HIDE DEF Part
<1>5. f[n + 1] = Part(x) /\ f[n + 1] \in Int
  BY <1>1, <1>2, <1>3
<1>6. \A i \in 1..n : f[i] \in Int /\ f[i] = g[i]
  BY <1>1, <1>2, <1>3
<1>7. Total(f, n + 1) = Total(g, n) + f[n + 1] /\ Total(g, n) \in Int
  BY <1>2, <1>5, <1>6, TotalGrows
<1>8. QED
  BY <1>1, <1>4, <1>5, <1>7 DEF Part

LEMMA StandardBilledNext ==
  ASSUME NEW q \in Seq(InvoiceLines), NEW x \in InvoiceLines, NEW m
  PROVE  /\ StandardBilled(Append(q, x), m)
              = StandardBilled(q, m) + (IF IsStandard(x, m) THEN x.billable ELSE 0)
         /\ StandardBilled(q, m) \in Int
<1> DEFINE Part(l) == IF IsStandard(l, m) THEN l.billable ELSE 0
<1>1. PICK n, s, f, g : /\ n = Len(q) /\ s = Append(q, x)
                        /\ f = [i \in DOMAIN s |-> Part(s[i])]
                        /\ g = [i \in DOMAIN q |-> Part(q[i])]
  OBVIOUS
<1>2. /\ n \in Nat /\ Len(s) = n + 1 /\ DOMAIN q = 1..n /\ DOMAIN s = 1..n + 1
      /\ s[n + 1] = x /\ \A i \in 1..n : s[i] = q[i] /\ q[i] \in InvoiceLines
  BY <1>1, LineAppended
<1>3. \A l \in InvoiceLines : Part(l) \in Int
  BY DEF InvoiceLines
<1>4. StandardBilled(s, m) = Total(f, n + 1) /\ StandardBilled(q, m) = Total(g, n)
  BY <1>1, <1>2 DEF StandardBilled
<1> HIDE DEF Part
<1>5. f[n + 1] = Part(x) /\ f[n + 1] \in Int
  BY <1>1, <1>2, <1>3
<1>6. \A i \in 1..n : f[i] \in Int /\ f[i] = g[i]
  BY <1>1, <1>2, <1>3
<1>7. Total(f, n + 1) = Total(g, n) + f[n + 1] /\ Total(g, n) \in Int
  BY <1>2, <1>5, <1>6, TotalGrows
<1>8. QED
  BY <1>1, <1>4, <1>5, <1>7 DEF Part

LEMMA NothingListed ==
  /\ AmountOf(<<>>) = 0
  /\ \A m \in Meter : StandardUsage(<<>>, m) = 0 /\ StandardBilled(<<>>, m) = 0
<1>1. Len(<<>>) = 0
  OBVIOUS
<1>2. QED
  BY <1>1, TotalNone DEF AmountOf, StandardUsage, StandardBilled

(* One round of the invoice's loop.                                         *)
Consumed(l, quantity, allowance) ==
  IF l[3] = 3 /\ quantity > 0 /\ allowance > 0
    THEN IF quantity < allowance THEN quantity ELSE allowance
    ELSE 0
LineItem(l, quantity, used, amount) ==
  [line |-> l, quantity |-> quantity, billable |-> quantity - used, amount |-> amount]

LEMMA RatedLine ==
  ASSUME NEW spec \in PlanSpec, NEW invoice \in Invoices, NEW l \in Lines,
         NEW quantity \in Int
  PROVE  \E used \in Int, amount \in Sums :
           /\ used = Consumed(l, quantity, invoice.included[l[2]])
           /\ l[2] \in DOMAIN spec.prices /\ amount.ok =>
                IsNearest(amount.value, quantity - used, spec.prices[l[2]])
           /\ LineItem(l, quantity, used, amount.value) \in InvoiceLines
           /\ Rated(spec, invoice, l, quantity) =
                [included |-> [invoice.included EXCEPT ![l[2]] = invoice.included[l[2]] - used],
                 lines |-> Append(invoice.lines, LineItem(l, quantity, used, amount.value)),
                 total |-> IF amount.ok THEN SafeAdd(invoice.total, amount.value)
                           ELSE Overflow]
<1>0. PICK used : used = Consumed(l, quantity, invoice.included[l[2]])
  OBVIOUS
<1>1. l[2] \in Meter /\ invoice.included[l[2]] \in Int /\ used \in Int
  BY <1>0, LineParts DEF Invoices, Consumed
<1>2. PICK amount : amount = IF l[2] \in DOMAIN spec.prices
                               THEN RateQuantity(quantity - used, spec.prices[l[2]])
                               ELSE Int64(0)
  OBVIOUS
<1>3. quantity - used \in Int
  BY <1>1
<1>4. CASE l[2] \in DOMAIN spec.prices
  <2>1. PICK price : price = spec.prices[l[2]]
    OBVIOUS
  <2>2. price.minor \in Nat /\ price.per \in Nat \ {0}
    BY <1>4, <2>1, PlanSpecAssumption
  <2>3. RateQuantity(quantity - used, price) \in Sums
    <3>1. PICK n : n = (quantity - used) * price.minor
      OBVIOUS
    <3>2. n \in Int /\ Magnitude(n) \in Nat
      BY <1>3, <2>2, <3>1 DEF Magnitude
    <3>3. PICK rated : rated = (Magnitude(n) + price.per \div 2) \div price.per
      OBVIOUS
    <3>4. rated \in Nat
      BY <2>2, <3>2, <3>3, Halves
    <3>5. RateQuantity(quantity - used, price) = Int64(IF n < 0 THEN -rated ELSE rated)
      BY <3>1, <3>3 DEF RateQuantity
    <3>6. (IF n < 0 THEN -rated ELSE rated) \in Int
      BY <3>4
    <3>7. QED
      BY <3>5, <3>6, Int64Typed
  <2>4. amount = RateQuantity(quantity - used, price)
    BY <1>2, <1>4, <2>1
  <2>5. amount.ok => IsNearest(amount.value, quantity - used, price)
    BY <1>3, <2>2, <2>4, RateIsNearest
  <2>6. amount \in Sums /\ amount.value \in Int
    BY <2>3, <2>4, BoundsAssumption DEF Sums
  <2>7. LineItem(l, quantity, used, amount.value) \in InvoiceLines
    BY <1>3, <2>6 DEF LineItem, InvoiceLines
  <2>8. QED
    BY <1>0, <1>1, <1>2, <2>1, <2>5, <2>6, <2>7 DEF Rated, LineItem, Consumed
<1>5. CASE l[2] \notin DOMAIN spec.prices
  <2>1. amount = Int64(0)
    BY <1>2, <1>5
  <2>2. amount \in Sums
    BY <2>1, Int64Typed
  <2>3. amount.value \in Int
    BY <2>2, BoundsAssumption DEF Sums
  <2>4. LineItem(l, quantity, used, amount.value) \in InvoiceLines
    BY <1>3, <2>3 DEF LineItem, InvoiceLines
  <2>5. QED
    BY <1>0, <1>1, <1>2, <1>5, <2>2, <2>4 DEF Rated, LineItem, Consumed
<1>6. QED
  BY <1>4, <1>5

LEMMA RatedTyped ==
  ASSUME NEW spec \in PlanSpec, NEW invoice \in Invoices, NEW l \in Lines,
         NEW quantity \in Int
  PROVE  Rated(spec, invoice, l, quantity) \in Invoices
<1>1. /\ l[2] \in Meter /\ invoice.included \in [Meter -> Int]
      /\ invoice.lines \in Seq(InvoiceLines) /\ invoice.total \in Sums
  BY LineParts DEF Invoices
<1>2. PICK used \in Int, amount \in Sums :
        /\ LineItem(l, quantity, used, amount.value) \in InvoiceLines
        /\ Rated(spec, invoice, l, quantity) =
             [included |-> [invoice.included EXCEPT ![l[2]] = invoice.included[l[2]] - used],
              lines |-> Append(invoice.lines, LineItem(l, quantity, used, amount.value)),
              total |-> IF amount.ok THEN SafeAdd(invoice.total, amount.value)
                        ELSE Overflow]
  BY RatedLine
<1>3. [invoice.included EXCEPT ![l[2]] = invoice.included[l[2]] - used] \in [Meter -> Int]
  BY <1>1
<1>4. (IF amount.ok THEN SafeAdd(invoice.total, amount.value) ELSE Overflow) \in Sums
  <2>1. amount.value \in Int
    BY BoundsAssumption DEF Sums
  <2>2. Overflow \in Sums
    BY BoundsAssumption DEF Overflow, Sums
  <2>3. QED
    BY <1>1, <2>1, <2>2, SafeAddTyped
<1>5. Append(invoice.lines, LineItem(l, quantity, used, amount.value)) \in Seq(InvoiceLines)
  BY <1>1, <1>2, LineAppended
<1>6. QED
  BY <1>2, <1>3, <1>4, <1>5 DEF Invoices

-----------------------------------------------------------------------------
(* What the loop of PreviewInvoice has made of the first k lines.           *)
Listing(invoice, keys, quantities, k) ==
  /\ Len(invoice.lines) = k
  /\ \A i \in 1..k : /\ invoice.lines[i].line = keys[i]
                     /\ invoice.lines[i].quantity = quantities[i]

Summed(spec, invoice) ==
  invoice.total.ok =>
    /\ invoice.total.value = AmountOf(invoice.lines)
    /\ \A i \in DOMAIN invoice.lines : invoice.lines[i].line[2] \in DOMAIN spec.prices =>
         IsNearest(invoice.lines[i].amount, invoice.lines[i].billable,
                   spec.prices[invoice.lines[i].line[2]])

Beyond(n, allowance) == IF n > allowance THEN n - allowance ELSE 0
Allowed(spec, invoice) ==
  \A m \in Meter :
    /\ StandardUsage(invoice.lines, m) \in Nat
    /\ invoice.included[m] = Beyond(spec.included[m], StandardUsage(invoice.lines, m))
    /\ StandardBilled(invoice.lines, m)
         = Beyond(StandardUsage(invoice.lines, m), spec.included[m])

Exact(spec, invoice, keys, quantities, k) ==
  /\ invoice \in Invoices
  /\ Listing(invoice, keys, quantities, k)
  /\ Summed(spec, invoice)
  /\ Allowed(spec, invoice)

LEMMA RatedIsExact ==
  ASSUME NEW spec \in PlanSpec, NEW k \in Nat, NEW keys, NEW quantities, NEW invoice,
         Exact(spec, invoice, keys, quantities, k),
         keys[k + 1] \in Lines, quantities[k + 1] \in Int,
         keys[k + 1][3] = 3 => quantities[k + 1] >= 0
  PROVE  Exact(spec, Rated(spec, invoice, keys[k + 1], quantities[k + 1]),
               keys, quantities, k + 1)
<1>1. PICK l, quantity : l = keys[k + 1] /\ quantity = quantities[k + 1]
  OBVIOUS
<1>2. /\ l \in Lines /\ l[2] \in Meter /\ quantity \in Int /\ (l[3] = 3 => quantity >= 0)
      /\ invoice \in Invoices /\ invoice.included \in [Meter -> Int]
      /\ invoice.lines \in Seq(InvoiceLines) /\ invoice.total \in Sums
  BY <1>1, LineParts DEF Exact, Invoices
<1>3. PICK used \in Int, amount \in Sums :
        /\ used = Consumed(l, quantity, invoice.included[l[2]])
        /\ l[2] \in DOMAIN spec.prices /\ amount.ok =>
             IsNearest(amount.value, quantity - used, spec.prices[l[2]])
        /\ LineItem(l, quantity, used, amount.value) \in InvoiceLines
        /\ Rated(spec, invoice, l, quantity) =
             [included |-> [invoice.included EXCEPT ![l[2]] = invoice.included[l[2]] - used],
              lines |-> Append(invoice.lines, LineItem(l, quantity, used, amount.value)),
              total |-> IF amount.ok THEN SafeAdd(invoice.total, amount.value)
                        ELSE Overflow]
  BY <1>2, RatedLine
<1>4. PICK x, q, s, after :
        /\ x = LineItem(l, quantity, used, amount.value)
        /\ q = invoice.lines /\ s = Append(q, x)
        /\ after = Rated(spec, invoice, l, quantity)
  OBVIOUS
<1>5. /\ x \in InvoiceLines /\ x.line = l /\ x.quantity = quantity
      /\ x.billable = quantity - used /\ x.amount = amount.value
      /\ q \in Seq(InvoiceLines) /\ after.lines = s
  BY <1>2, <1>3, <1>4 DEF LineItem
<1>6. /\ s \in Seq(InvoiceLines) /\ Len(q) = k /\ Len(s) = k + 1
      /\ DOMAIN q = 1..k /\ DOMAIN s = 1..k + 1 /\ s[k + 1] = x
      /\ \A i \in 1..k : s[i] = q[i]
  <2>1. Len(q) = k
    BY <1>4 DEF Exact, Listing
  <2>2. QED
    BY <1>4, <1>5, <2>1, LineAppended
<1>7. used \in Int /\ used = Consumed(l, quantity, invoice.included[l[2]])
  BY <1>3
<1>8. after \in Invoices
  BY <1>2, <1>4, RatedTyped
<1>9. Listing(after, keys, quantities, k + 1)
  <2>1. ASSUME NEW i \in 1..k + 1
        PROVE  s[i].line = keys[i] /\ s[i].quantity = quantities[i]
    <3>1. CASE i = k + 1
      BY <1>1, <1>5, <1>6, <3>1
    <3>2. CASE i # k + 1
      <4>1. i \in 1..k
        BY <3>2
      <4>2. QED
        BY <1>4, <1>6, <4>1 DEF Exact, Listing
    <3>3. QED
      BY <3>1, <3>2
  <2>2. QED
    BY <1>5, <1>6, <2>1 DEF Listing
<1>10. Summed(spec, after)
  <2>1. SUFFICES ASSUME after.total.ok
                 PROVE  /\ after.total.value = AmountOf(s)
                        /\ \A i \in 1..k + 1 : s[i].line[2] \in DOMAIN spec.prices =>
                             IsNearest(s[i].amount, s[i].billable,
                                       spec.prices[s[i].line[2]])
    BY <1>5, <1>6 DEF Summed
  <2>2. after.total = IF amount.ok THEN SafeAdd(invoice.total, amount.value) ELSE Overflow
    BY <1>3, <1>4
  <2>3. amount.ok
    BY <2>1, <2>2 DEF Overflow
  <2>4. invoice.total.ok /\ after.total.value = invoice.total.value + amount.value
    <3>1. amount.value \in Int
      BY BoundsAssumption DEF Sums
    <3>2. QED
      BY <1>2, <2>1, <2>2, <2>3, <3>1, SafeAddTyped
  <2>5. /\ invoice.total.value = AmountOf(q)
        /\ \A i \in 1..k : q[i].line[2] \in DOMAIN spec.prices =>
             IsNearest(q[i].amount, q[i].billable, spec.prices[q[i].line[2]])
    BY <1>4, <1>6, <2>4 DEF Exact, Summed
  <2>6. AmountOf(s) = AmountOf(q) + amount.value
    BY <1>4, <1>5, AmountNext
  <2>7. ASSUME NEW i \in 1..k + 1, s[i].line[2] \in DOMAIN spec.prices
        PROVE  IsNearest(s[i].amount, s[i].billable, spec.prices[s[i].line[2]])
    <3>1. CASE i = k + 1
      BY <1>3, <1>5, <1>6, <2>3, <2>7, <3>1
    <3>2. CASE i # k + 1
      <4>1. i \in 1..k
        BY <3>2
      <4>2. QED
        BY <1>6, <2>5, <2>7, <4>1
    <3>3. QED
      BY <3>1, <3>2
  <2>8. QED
    BY <2>4, <2>5, <2>6, <2>7
<1>11. Allowed(spec, after)
  <2>1. SUFFICES ASSUME NEW m \in Meter
                 PROVE  /\ StandardUsage(s, m) \in Nat
                        /\ after.included[m] = Beyond(spec.included[m], StandardUsage(s, m))
                        /\ StandardBilled(s, m)
                             = Beyond(StandardUsage(s, m), spec.included[m])
    BY <1>5 DEF Allowed
  <2>2. PICK u, b, left, all :
          /\ u = StandardUsage(q, m) /\ b = StandardBilled(q, m)
          /\ left = invoice.included[m] /\ all = spec.included[m]
    OBVIOUS
  <2>3. u \in Nat /\ left = Beyond(all, u) /\ b = Beyond(u, all) /\ all \in Nat
    <3>1. all \in Nat
      BY <2>2, PlanSpecAssumption
    <3>2. QED
      BY <1>4, <2>2, <3>1 DEF Exact, Allowed
  <2>4. /\ StandardUsage(s, m) = u + (IF IsStandard(x, m) THEN quantity ELSE 0)
        /\ StandardBilled(s, m) = b + (IF IsStandard(x, m) THEN quantity - used ELSE 0)
    BY <1>4, <1>5, <2>2, StandardUsageNext, StandardBilledNext
  <2>5. after.included[m] = IF m = l[2] THEN invoice.included[l[2]] - used ELSE left
    BY <1>2, <1>3, <1>4, <2>2
  <2>6. CASE m = l[2] /\ l[3] = 3
    <3>1. IsStandard(x, m) /\ quantity \in Nat
      BY <1>2, <1>5, <2>6 DEF IsStandard
    <3>2. used = IF quantity > 0 /\ left > 0
                   THEN IF quantity < left THEN quantity ELSE left ELSE 0
      BY <1>7, <2>2, <2>6 DEF Consumed
    <3>3. /\ StandardUsage(s, m) = u + quantity /\ StandardBilled(s, m) = b + quantity - used
          /\ after.included[m] = left - used
      BY <1>7, <2>2, <2>3, <2>4, <2>5, <2>6, <3>1 DEF Beyond
    <3>4. /\ left - used = Beyond(all, u + quantity)
          /\ b + quantity - used = Beyond(u + quantity, all)
      BY <2>3, <3>1, <3>2 DEF Beyond
    <3>5. QED
      BY <2>2, <2>3, <3>1, <3>3, <3>4
  <2>7. CASE ~(m = l[2] /\ l[3] = 3)
    <3>1. ~IsStandard(x, m)
      BY <1>5, <2>7 DEF IsStandard
    <3>2. StandardUsage(s, m) = u /\ StandardBilled(s, m) = b
      BY <2>3, <2>4, <3>1 DEF Beyond
    <3>3. after.included[m] = left
      <4>1. CASE m = l[2]
        <5>1. used = 0
          BY <1>7, <2>7, <4>1 DEF Consumed
        <5>2. QED
          BY <1>2, <2>2, <2>5, <4>1, <5>1
      <4>2. CASE m # l[2]
        BY <2>5, <4>2
      <4>3. QED
        BY <4>1, <4>2
    <3>4. QED
      BY <2>2, <2>3, <3>2, <3>3
  <2>8. QED
    BY <2>6, <2>7
<1>12. QED
  BY <1>1, <1>4, <1>8, <1>9, <1>10, <1>11 DEF Exact

Start(spec) == [included |-> spec.included, lines |-> <<>>, total |-> Int64(0)]

LEMMA StartIsExact ==
  ASSUME NEW spec \in PlanSpec, NEW keys, NEW quantities
  PROVE  Exact(spec, Start(spec), keys, quantities, 0)
<1>1. PICK s : s = Start(spec)
  OBVIOUS
<1>2. s.lines = <<>> /\ s.total = Int64(0) /\ s.included = spec.included
  BY <1>1 DEF Start
<1>3. Int64(0) \in Sums /\ (Int64(0).ok => Int64(0).value = 0)
  BY Int64Typed
<1>4. spec.included \in [Meter -> Nat]
  BY PlanSpecAssumption
<1>5. s \in Invoices
  <2>1. spec.included \in [Meter -> Int] /\ <<>> \in Seq(InvoiceLines)
    BY <1>4
  <2>2. QED
    BY <1>1, <1>3, <2>1 DEF Start, Invoices
<1>6. Len(<<>>) = 0 /\ DOMAIN <<>> = {} /\ 1..0 = {}
  OBVIOUS
<1>7. Listing(s, keys, quantities, 0)
  BY <1>2, <1>6 DEF Listing
<1>8. Summed(spec, s)
  BY <1>2, <1>3, <1>6, NothingListed DEF Summed
<1>9. Allowed(spec, s)
  BY <1>2, <1>4, NothingListed DEF Allowed, Beyond
<1>10. QED
  BY <1>1, <1>5, <1>7, <1>8, <1>9 DEF Exact

LoopOf(r, spec, keys, quantities, n) ==
  r = [i \in 0..n |-> IF i = 0 THEN Start(spec)
                     ELSE Rated(spec, r[i - 1], keys[i], quantities[i])]

Listable(keys, quantities, n) ==
  \A i \in 1..n :
    /\ keys[i] \in Lines /\ quantities[i] \in Int
    /\ keys[i][3] = 3 => quantities[i] >= 0

LEMMA LoopIsExact ==
  ASSUME NEW spec \in PlanSpec, NEW n \in Nat, NEW keys, NEW quantities,
         Listable(keys, quantities, n)
  PROVE  /\ \E r : LoopOf(r, spec, keys, quantities, n)
         /\ \A r : LoopOf(r, spec, keys, quantities, n)
                    => Exact(spec, r[n], keys, quantities, n)
<1>1. \E r : LoopOf(r, spec, keys, quantities, n)
  <2>1. PICK step : step = [p \in Invoices \X (1..n) |->
                              Rated(spec, p[1], keys[p[2]], quantities[p[2]])]
    OBVIOUS
  <2>2. step \in [Invoices \X (1..n) -> Invoices]
    <3>1. ASSUME NEW p \in Invoices \X (1..n)
          PROVE  Rated(spec, p[1], keys[p[2]], quantities[p[2]]) \in Invoices
      <4>1. p[1] \in Invoices /\ keys[p[2]] \in Lines /\ quantities[p[2]] \in Int
        <5>1. p[1] \in Invoices /\ p[2] \in 1..n
          OBVIOUS
        <5>2. QED
          BY <5>1 DEF Listable
      <4>2. QED
        BY <4>1, RatedTyped
    <3>2. QED
      BY <2>1, <3>1
  <2>3. Start(spec) \in Invoices
    BY StartIsExact DEF Exact
  <2>4. PICK r : Loops(r, Invoices, Start(spec), n, step)
    BY <2>2, <2>3, LoopRuns
  <2>5. ASSUME NEW i \in 1..n
        PROVE  r[i] = Rated(spec, r[i - 1], keys[i], quantities[i])
    <3>1. <<r[i - 1], i>> \in Invoices \X (1..n) /\ r[i] = step[<<r[i - 1], i>>]
      BY <2>4 DEF Loops
    <3>2. QED
      BY <2>1, <3>1
  <2>6. r = [i \in 0..n |-> IF i = 0 THEN Start(spec)
                           ELSE Rated(spec, r[i - 1], keys[i], quantities[i])]
    BY <2>4, <2>5 DEF Loops
  <2>7. QED
    BY <2>6 DEF LoopOf
<1>2. ASSUME NEW r, LoopOf(r, spec, keys, quantities, n)
      PROVE  Exact(spec, r[n], keys, quantities, n)
  <2> DEFINE T == {k \in Nat : k <= n => Exact(spec, r[k], keys, quantities, k)}
  <2>1. r[0] = Start(spec) /\ \A i \in 1..n : r[i] = Rated(spec, r[i - 1], keys[i], quantities[i])
    BY <1>2 DEF LoopOf
  <2>2. 0 \in T
    BY <2>1, StartIsExact
  <2>3. ASSUME NEW k \in Nat, k \in T
        PROVE  k + 1 \in T
    <3>1. SUFFICES ASSUME k + 1 <= n
                   PROVE  Exact(spec, r[k + 1], keys, quantities, k + 1)
      OBVIOUS
    <3>2. k + 1 \in 1..n /\ r[k + 1] = Rated(spec, r[k], keys[k + 1], quantities[k + 1])
      BY <2>1, <3>1
    <3>3. Exact(spec, r[k], keys, quantities, k)
      BY <2>3, <3>1
    <3>4. /\ keys[k + 1] \in Lines /\ quantities[k + 1] \in Int
          /\ keys[k + 1][3] = 3 => quantities[k + 1] >= 0
      BY <3>2 DEF Listable
    <3>5. QED
      BY <3>2, <3>3, <3>4, RatedIsExact
  <2>4. n \in T
    <3> HIDE DEF T
    <3>1. QED
      BY <2>2, <2>3, NumberInduction
  <2>5. QED
    BY <2>4
<1>3. QED
  BY <1>1, <1>2

-----------------------------------------------------------------------------
(* What every entry of a ledger is.                                         *)
Kinds == {"STANDARD", "CREDIT", "CORRECTION"}
IsEntry(e) ==
  /\ e.resource \in Int /\ e.meter \in Meter /\ e.kind \in Kinds
  /\ e.quantity \in Int /\ (e.kind = "STANDARD" => e.quantity >= 0)
  /\ e.start \in Int /\ e.end \in Int

BuildEvent(r, m) ==
  [key |-> <<"build", r.key, m>>, resource |-> r.build, meter |-> m,
   kind |-> "STANDARD", quantity |-> r.values[m], start |-> r.started,
   end |-> r.finished, occurred |-> r.finished, outcome |-> r.outcome]
Reported(r, m) ==
  IF m \in DOMAIN r.values /\ r.values[m] # 0 THEN <<BuildEvent(r, m)>> ELSE <<>>

LEMMA EventsReported ==
  ASSUME NEW r
  PROVE  EventsOf(r) = Reported(r, 1) \o Reported(r, 2) \o Reported(r, 3)
BY DEF EventsOf, Reported, BuildEvent

KeysOnce(q) == \A i, j \in DOMAIN q : q[i].key = q[j].key => i = j

(* What was recorded stays where it was.                                    *)
Extends(after, before) ==
  DOMAIN before \subseteq DOMAIN after /\ \A i \in DOMAIN before : after[i] = before[i]

(* A sequence of events and one more or none, with a key of its own.        *)
LEMMA OneMore ==
  ASSUME NEW S, NEW q \in Seq(S), NEW one \in Seq(S), Len(one) \in {0, 1}, KeysOnce(q),
         \A x \in ToSet(one), y \in ToSet(q) : x.key # y.key
  PROVE  /\ q \o one \in Seq(S) /\ ToSet(q \o one) = ToSet(q) \cup ToSet(one)
         /\ KeysOnce(q \o one)
         /\ Extends(q \o one, q)
<1>1. PICK s, n : s = q \o one /\ n = Len(q)
  OBVIOUS
<1>2. s \in Seq(S) /\ ToSet(s) = ToSet(q) \cup ToSet(one)
  BY <1>1, EventsOfBoth
<1>3. n \in Nat /\ DOMAIN q = 1..n /\ \A i \in 1..n : s[i] = q[i] /\ q[i] \in ToSet(q)
  BY <1>1 DEF ToSet
<1>4. CASE Len(one) = 0
  <2>1. s = q
    BY <1>1, <1>4
  <2>2. QED
    BY <1>1, <1>2, <2>1 DEF Extends
<1>5. CASE Len(one) = 1
  <2>1. DOMAIN s = 1..n + 1 /\ s[n + 1] = one[1] /\ one[1] \in ToSet(one)
    <3>0. /\ Len(q \o one) = Len(q) + Len(one)
          /\ \A i \in 1..Len(one) : (q \o one)[Len(q) + i] = one[i]
          /\ DOMAIN one = 1..Len(one) /\ 1 \in 1..1
      OBVIOUS
    <3>1. Len(s) = n + 1 /\ 1 \in DOMAIN one
      BY <1>1, <1>5, <3>0
    <3>2. s[n + 1] = one[1]
      BY <1>1, <1>5, <3>0
    <3>3. QED
      BY <1>2, <3>1, <3>2 DEF ToSet
  <2>2. ASSUME NEW i \in DOMAIN s, NEW j \in DOMAIN s, s[i].key = s[j].key
        PROVE  i = j
    <3>1. (i \in 1..n \/ i = n + 1) /\ (j \in 1..n \/ j = n + 1)
      BY <1>3, <2>1
    <3>2. CASE i \in 1..n /\ j \in 1..n
      BY <1>3, <2>2, <3>2 DEF KeysOnce
    <3>3. CASE i = n + 1 /\ j \in 1..n
      BY <1>3, <2>1, <2>2, <3>3
    <3>4. CASE i \in 1..n /\ j = n + 1
      BY <1>3, <2>1, <2>2, <3>4
    <3>5. QED
      BY <3>1, <3>2, <3>3, <3>4
  <2>3. DOMAIN q \subseteq DOMAIN s
    BY <1>3, <2>1
  <2>4. KeysOnce(s)
    BY <2>2 DEF KeysOnce
  <2>5. Extends(s, q)
    BY <1>3, <2>3 DEF Extends
  <2>6. QED
    BY <1>1, <1>2, <2>4, <2>5
<1>6. QED
  BY <1>4, <1>5

LEMMA ReportedEvents ==
  ASSUME NEW r \in Report
  PROVE  /\ \A e \in ToSet(EventsOf(r)) : IsEntry(e) /\ e.key[1] = "build"
         /\ KeysOnce(EventsOf(r))
<1> DEFINE M == {1, 2, 3}
           E == {BuildEvent(r, m) : m \in M \cap DOMAIN r.values}
<1>1. ASSUME NEW m \in M
      PROVE  /\ Reported(r, m) \in Seq(E) /\ Len(Reported(r, m)) \in {0, 1}
             /\ \A e \in ToSet(Reported(r, m)) : e = BuildEvent(r, m)
  <2>1. PICK c \in BOOLEAN : c <=> m \in DOMAIN r.values /\ r.values[m] # 0
    OBVIOUS
  <2>2. PICK e : e = BuildEvent(r, m)
    OBVIOUS
  <2>3. c => e \in E
    BY <2>1, <2>2
  <2>4. Reported(r, m) = IF c THEN <<e>> ELSE <<>>
    BY <2>1, <2>2 DEF Reported
  <2>5. PICK one : one = Reported(r, m)
    OBVIOUS
  <2> HIDE DEF E
  <2>6. one \in Seq(E) /\ Len(one) \in {0, 1} /\ ToSet(one) = IF c THEN {e} ELSE {}
    <3>1. CASE c
      <4>1. one = <<e>> /\ e \in E
        BY <2>3, <2>4, <2>5, <3>1
      <4>2. <<e>> \in Seq(E) /\ Len(<<e>>) = 1 /\ DOMAIN <<e>> = {1} /\ <<e>>[1] = e
        BY <4>1
      <4>3. QED
        BY <3>1, <4>1, <4>2 DEF ToSet
    <3>2. CASE ~c
      <4>1. one = <<>>
        BY <2>4, <2>5, <3>2
      <4>2. <<>> \in Seq(E) /\ Len(<<>>) = 0 /\ DOMAIN <<>> = {}
        OBVIOUS
      <4>3. QED
        BY <3>2, <4>1, <4>2 DEF ToSet
    <3>3. QED
      BY <3>1, <3>2
  <2>7. \A f \in ToSet(one) : f = e
    BY <2>6
  <2>8. QED
    BY <2>2, <2>5, <2>6, <2>7
<1>2. PICK a, b, c : a = Reported(r, 1) /\ b = Reported(r, 2) /\ c = Reported(r, 3)
  OBVIOUS
<1> HIDE DEF E
<1>3. /\ a \in Seq(E) /\ Len(a) \in {0, 1} /\ b \in Seq(E) /\ Len(b) \in {0, 1}
      /\ c \in Seq(E) /\ Len(c) \in {0, 1}
      /\ \A e \in ToSet(a) : e = BuildEvent(r, 1)
      /\ \A e \in ToSet(b) : e = BuildEvent(r, 2)
      /\ \A e \in ToSet(c) : e = BuildEvent(r, 3)
  BY <1>1, <1>2
<1>4. BuildEvent(r, 1).key # BuildEvent(r, 2).key
  BY DEF BuildEvent
<1>5. BuildEvent(r, 1).key # BuildEvent(r, 3).key
  BY DEF BuildEvent
<1>6. BuildEvent(r, 2).key # BuildEvent(r, 3).key
  BY DEF BuildEvent
<1>7. KeysOnce(a)
  <2>1. ASSUME NEW i \in DOMAIN a, NEW j \in DOMAIN a
        PROVE  i = j
    BY <1>3
  <2>2. QED
    BY <2>1 DEF KeysOnce
<1>8. PICK d : d = a \o b
  OBVIOUS
<1>9. d \in Seq(E) /\ KeysOnce(d) /\ ToSet(d) = ToSet(a) \cup ToSet(b)
  BY <1>3, <1>4, <1>7, <1>8, OneMore
<1>10. d \o c \in Seq(E) /\ KeysOnce(d \o c) /\ ToSet(d \o c) = ToSet(d) \cup ToSet(c)
  <2>1. \A x \in ToSet(c), y \in ToSet(d) : x.key # y.key
    BY <1>3, <1>5, <1>6, <1>9
  <2>2. QED
    BY <1>3, <1>9, <2>1, OneMore
<1>11. EventsOf(r) = d \o c
  BY <1>2, <1>8, EventsReported
<1>12. \A e \in ToSet(d \o c) : e \in E
  BY <1>10 DEF ToSet
<1>13. \A e \in E : IsEntry(e) /\ e.key[1] = "build"
  BY ReportAssumption DEF E, BuildEvent, IsEntry, Kinds
<1>14. QED
  BY <1>10, <1>11, <1>12, <1>13

LEMMA CorrectionEntry ==
  ASSUME NEW c \in Command, NEW n \in -MaxInt - 1 .. MaxInt
  PROVE  IsEntry(Correction(c, n)) /\ Correction(c, n).key = <<"reconcile", c>>
BY CommandAssumption, BoundsAssumption DEF Correction, IsEntry, Kinds

LEMMA EntriesTyped == \A e \in Entries : IsEntry(e)
<1>1. \A e \in Event : IsEntry(e)
  BY EventAssumption DEF IsEntry, Kinds
<1>2. \A e \in BuildEntries : IsEntry(e)
  BY ReportedEvents DEF BuildEntries
<1>3. \A e \in Corrections : IsEntry(e)
  BY CorrectionEntry DEF Corrections
<1>4. QED
  BY <1>1, <1>2, <1>3 DEF Entries

(* A correction in a ledger is of a command.                                *)
LEMMA CommandOfCorrection ==
  ASSUME NEW e \in Entries, e.key[1] = "reconcile"
  PROVE  e.key[2] \in Command
<1>1. \A f \in Event : f.key[1] # "reconcile"
  BY EventAssumption
<1>2. \A f \in BuildEntries : f.key[1] # "reconcile"
  BY ReportedEvents DEF BuildEntries
<1>3. e \in Corrections
  BY <1>1, <1>2 DEF Entries
<1>4. PICK c \in Command, n \in -MaxInt - 1 .. MaxInt : e = Correction(c, n)
  BY <1>3 DEF Corrections
<1>5. e.key = <<"reconcile", c>>
  BY <1>4, CorrectionEntry
<1>6. QED
  BY <1>5

(* A transaction that is not refused leaves every key in the ledger once,   *)
(* and what was recorded where it was.                                      *)
Grown(ledger, events) ==
  ledger \o NewEvent(ledger, events, 1) \o NewEvent(ledger, events, 2)
         \o NewEvent(ledger, events, 3)

LEMMA NewEventIs ==
  ASSUME NEW ledger, NEW S, NEW events \in Seq(S), NEW i
  PROVE  /\ NewEvent(ledger, events, i) \in Seq(S)
         /\ Len(NewEvent(ledger, events, i)) \in {0, 1}
         /\ \A x \in ToSet(NewEvent(ledger, events, i)) :
              i \in DOMAIN events /\ x = events[i] /\ x \notin ToSet(ledger)
<1>1. \A j \in DOMAIN events : events[j] \in S
  OBVIOUS
<1>2. PICK c \in BOOLEAN : c <=> i \in DOMAIN events /\ events[i] \notin ToSet(ledger)
  OBVIOUS
<1>3. c => events[i] \in S
  BY <1>1, <1>2
<1>4. /\ NewEvent(ledger, events, i) \in Seq(S)
      /\ Len(NewEvent(ledger, events, i)) \in {0, 1}
      /\ ToSet(NewEvent(ledger, events, i)) = IF c THEN {events[i]} ELSE {}
  BY <1>2, <1>3, OneOrNone DEF NewEvent
<1>5. QED
  BY <1>2, <1>4

LEMMA LedgerKeys ==
  ASSUME NEW S, NEW ledger \in Seq(S), NEW events \in Seq(S),
         KeysOnce(ledger), KeysOnce(events),
         \A e \in ToSet(events), f \in ToSet(ledger) : f.key = e.key => f = e
  PROVE  KeysOnce(Grown(ledger, events)) /\ Extends(Grown(ledger, events), ledger)
<1>1. PICK n1, n2, n3, p, q :
        /\ n1 = NewEvent(ledger, events, 1) /\ n2 = NewEvent(ledger, events, 2)
        /\ n3 = NewEvent(ledger, events, 3) /\ p = ledger \o n1 /\ q = p \o n2
  OBVIOUS
<1>2. /\ n1 \in Seq(S) /\ Len(n1) \in {0, 1}
      /\ n2 \in Seq(S) /\ Len(n2) \in {0, 1}
      /\ n3 \in Seq(S) /\ Len(n3) \in {0, 1}
  BY <1>1, NewEventIs
<1>3. /\ \A x \in ToSet(n1) : 1 \in DOMAIN events /\ x = events[1] /\ x \notin ToSet(ledger)
      /\ \A x \in ToSet(n2) : 2 \in DOMAIN events /\ x = events[2] /\ x \notin ToSet(ledger)
      /\ \A x \in ToSet(n3) : 3 \in DOMAIN events /\ x = events[3] /\ x \notin ToSet(ledger)
  BY <1>1, NewEventIs
<1>4. ASSUME NEW i \in DOMAIN events, events[i] \notin ToSet(ledger), NEW y \in ToSet(ledger)
      PROVE  events[i].key # y.key
  BY <1>4 DEF ToSet
<1>5. \A i, j \in DOMAIN events : events[i].key = events[j].key => i = j
  BY DEF KeysOnce
<1>6. \A x \in ToSet(n1), y \in ToSet(ledger) : x.key # y.key
  BY <1>3, <1>4
<1>7. /\ p \in Seq(S) /\ ToSet(p) = ToSet(ledger) \cup ToSet(n1) /\ KeysOnce(p)
      /\ Extends(p, ledger)
  BY <1>1, <1>2, <1>6, OneMore
<1>8. \A x \in ToSet(n2), y \in ToSet(p) : x.key # y.key
  <2>1. SUFFICES ASSUME NEW x \in ToSet(n2), NEW y \in ToSet(p)
                 PROVE  x.key # y.key
    OBVIOUS
  <2>2. CASE y \in ToSet(ledger)
    BY <1>3, <1>4, <2>2
  <2>3. CASE y \in ToSet(n1)
    <3>1. 1 \in DOMAIN events /\ y = events[1] /\ 2 \in DOMAIN events /\ x = events[2]
      BY <1>3, <2>3
    <3>2. QED
      BY <1>5, <3>1
  <2>4. QED
    BY <1>7, <2>2, <2>3
<1>9. /\ q \in Seq(S) /\ ToSet(q) = ToSet(p) \cup ToSet(n2) /\ KeysOnce(q)
      /\ Extends(q, p)
  <2>1. n2 \in Seq(S) /\ Len(n2) \in {0, 1} /\ p \in Seq(S) /\ KeysOnce(p)
    BY <1>2, <1>7
  <2>2. /\ p \o n2 \in Seq(S) /\ ToSet(p \o n2) = ToSet(p) \cup ToSet(n2)
        /\ KeysOnce(p \o n2) /\ Extends(p \o n2, p)
    BY <1>8, <2>1, OneMore
  <2>3. QED
    BY <1>1, <2>2
<1>10. \A x \in ToSet(n3), y \in ToSet(q) : x.key # y.key
  <2>1. SUFFICES ASSUME NEW x \in ToSet(n3), NEW y \in ToSet(q)
                 PROVE  x.key # y.key
    OBVIOUS
  <2>2. CASE y \in ToSet(ledger)
    BY <1>3, <1>4, <2>2
  <2>3. CASE y \in ToSet(n1)
    <3>1. 1 \in DOMAIN events /\ y = events[1] /\ 3 \in DOMAIN events /\ x = events[3]
      BY <1>3, <2>3
    <3>2. QED
      BY <1>5, <3>1
  <2>4. CASE y \in ToSet(n2)
    <3>1. 2 \in DOMAIN events /\ y = events[2] /\ 3 \in DOMAIN events /\ x = events[3]
      BY <1>3, <2>4
    <3>2. QED
      BY <1>5, <3>1
  <2>5. QED
    BY <1>7, <1>9, <2>2, <2>3, <2>4
<1>11. KeysOnce(q \o n3) /\ Extends(q \o n3, q)
  BY <1>2, <1>9, <1>10, OneMore
<1>12. Grown(ledger, events) = q \o n3
  BY <1>1 DEF Grown
<1>13. Extends(q \o n3, ledger)
  BY <1>7, <1>9, <1>11 DEF Extends
<1>14. QED
  BY <1>11, <1>12, <1>13

-----------------------------------------------------------------------------
(* What a ledger holds of some of its events, and what SumOf makes of it.   *)
PartOf(ledger, events) ==
  [i \in DOMAIN ledger |-> IF ledger[i] \in events THEN ledger[i].quantity ELSE 0]

LEMMA PartTyped ==
  ASSUME NEW ledger \in Seq(Entries), NEW events
  PROVE  PartOf(ledger, events) \in [1..Len(ledger) -> Int] /\ Len(ledger) \in Nat
<1>1. /\ DOMAIN ledger = 1..Len(ledger) /\ Len(ledger) \in Nat
      /\ \A i \in 1..Len(ledger) : ledger[i] \in Entries
  OBVIOUS
<1>2. \A i \in 1..Len(ledger) : ledger[i].quantity \in Int
  BY <1>1, EntriesTyped DEF IsEntry
<1>3. QED
  BY <1>1, <1>2 DEF PartOf

LEMMA ReadingIsTotal ==
  ASSUME LedgerTypeOK, NEW t \in Tenant, NEW order \in ListUsage(t), NEW events
  PROVE  /\ SumOf(Quantities(t, order, events), Len(usage[t])) \in Sums
         /\ SumOf(Quantities(t, order, events), Len(usage[t])).ok =>
              SumOf(Quantities(t, order, events), Len(usage[t])).value
                = Total(PartOf(usage[t], events), Len(usage[t]))
<1>1. PICK ledger, n, f, q : /\ ledger = usage[t] /\ n = Len(ledger)
                             /\ f = PartOf(ledger, events)
                             /\ q = Quantities(t, order, events)
  OBVIOUS
<1>2. ledger \in Seq(Entries)
  BY <1>1 DEF LedgerTypeOK
<1>3. f \in [1..n -> Int] /\ n \in Nat /\ DOMAIN ledger = 1..n
  BY <1>1, <1>2, PartTyped
<1>4. PICK S : S = 1..n
  OBVIOUS
<1>5. order \in Bijection(S, S)
  BY <1>1, <1>3, <1>4 DEF ListUsage
<1>6. order \in [S -> S]
  BY <1>5, BijectionMeans
<1>7. q = Permuted(f, order, n)
  <2>1. ASSUME NEW i \in S
        PROVE  q[i] = f[order[i]]
    BY <1>1, <1>3, <1>4, <1>6 DEF Quantities, PartOf
  <2>2. q = [i \in S |-> f[order[i]]]
    BY <1>1, <1>6, <2>1 DEF Quantities
  <2>3. QED
    BY <1>4, <2>2 DEF Permuted
<1>8. \A i \in 1..n : q[i] \in Int
  BY <1>3, <1>4, <1>6, <1>7 DEF Permuted
<1>9. SumOf(q, n) \in Sums /\ (SumOf(q, n).ok => SumOf(q, n).value = Total(q, n))
  BY <1>3, <1>8, SumIsTotal
<1>10. Total(q, n) = Total(f, n)
  BY <1>3, <1>4, <1>5, <1>7, TotalPermuted
<1>11. QED
  BY <1>1, <1>9, <1>10

-----------------------------------------------------------------------------
(* No key is in a ledger twice, every window has a length, and corrections  *)
(* settle.                                                                  *)
KeysDiffer == \A t \in Tenant : KeysOnce(usage[t])
Windows == \A t \in Tenant : \A e \in Recorded(t) : e.start < e.end

LedgerInv == KeysDiffer /\ Windows /\ CorrectionsSettle

Settled(ledger, raised, i) ==
  ledger[i].key[1] = "reconcile" =>
    /\ UsageInside(ledger, i, ledger[i].key[2]) = ledger[i].key[2].observed
    /\ Threshold \in 1..MaxInt - 1 /\ ledger[i].quantity \notin -Threshold..Threshold
         => <<ledger[i].key[2], ledger[i].quantity>> \in raised

LEMMA SettleMeans ==
  CorrectionsSettle <=>
    \A t \in Tenant : \A i \in DOMAIN usage[t] : Settled(usage[t], alerts[t], i)
BY DEF CorrectionsSettle, Settled

Inside(e, c) == /\ e.resource = c.resource /\ e.meter = c.meter
                /\ e.start..e.end \subseteq c.start..c.end
InsidePart(ledger, n, c) ==
  [i \in 1..n |-> IF Inside(ledger[i], c) THEN ledger[i].quantity ELSE 0]

LEMMA UsageInsideMeans ==
  ASSUME NEW ledger, NEW n, NEW c
  PROVE  UsageInside(ledger, n, c) = Total(InsidePart(ledger, n, c), n)
BY DEF UsageInside, InsidePart, Inside

LEMMA InsidePartTyped ==
  ASSUME NEW ledger \in Seq(Entries), NEW n \in 0..Len(ledger), NEW c
  PROVE  \A i \in 1..n : InsidePart(ledger, n, c)[i] \in Int
<1>1. \A i \in 1..n : ledger[i] \in Entries
  OBVIOUS
<1>2. \A i \in 1..n : ledger[i].quantity \in Int
  BY <1>1, EntriesTyped DEF IsEntry
<1>3. QED
  BY <1>2 DEF InsidePart

(* Later entries do not unsettle a correction.                              *)
LEMMA SettledKept ==
  ASSUME NEW before \in Seq(Entries), NEW after \in Seq(Entries), Extends(after, before),
         NEW raised, NEW more, raised \subseteq more,
         NEW i \in DOMAIN before, Settled(before, raised, i)
  PROVE  Settled(after, more, i)
<1>1. i \in 1..Len(before) /\ i \in Nat /\ DOMAIN before = 1..Len(before)
  OBVIOUS
<1>2. after[i] = before[i]
  BY DEF Extends
<1>3. PICK c : c = before[i].key[2]
  OBVIOUS
<1>4. PICK f, g : f = InsidePart(before, i, c) /\ g = InsidePart(after, i, c)
  OBVIOUS
<1>5. \A j \in 1..i : f[j] \in Int
  <2>1. i \in 0..Len(before)
    BY <1>1
  <2>2. QED
    BY <1>4, <2>1, InsidePartTyped
<1>6. \A j \in 1..i : f[j] = g[j]
  <2>1. \A j \in 1..i : j \in DOMAIN before
    BY <1>1
  <2>2. \A j \in 1..i : after[j] = before[j]
    BY <2>1 DEF Extends
  <2>3. QED
    BY <1>4, <2>2 DEF InsidePart
<1>7. Total(f, i) = Total(g, i)
  BY <1>1, <1>5, <1>6, TotalSame
<1>8. UsageInside(after, i, c) = UsageInside(before, i, c)
  BY <1>4, <1>7, UsageInsideMeans
<1>9. QED
  BY <1>2, <1>3, <1>8 DEF Settled

(* What a transaction does to the ledger.                                   *)
LEMMA LedgerExtends ==
  ASSUME LedgerTypeOK, LedgerInv, NEW t \in Tenant, NEW events, events \in Seq(Entries),
         Len(events) <= 3, KeysOnce(events), AppendUsageTx(t, events)
  PROVE  /\ LedgerTypeOK' /\ KeysDiffer' /\ Windows'
         /\ usage'[t] = Grown(usage[t], events) /\ Extends(usage'[t], usage[t])
         /\ \A i \in DOMAIN usage'[t] \ DOMAIN usage[t] :
              usage'[t][i] \in ToSet(events) \ Recorded(t)
         /\ \A u \in Tenant \ {t} : usage'[u] = usage[u]
<1>1. /\ LedgerTypeOK'
      /\ Recorded(t)' = Recorded(t) \cup ToSet(events)
      /\ \A u \in Tenant \ {t} : usage'[u] = usage[u] /\ Recorded(u)' = Recorded(u)
  BY LedgerGrows
<1>2. PICK ledger, after : ledger = usage[t] /\ after = Grown(ledger, events)
  OBVIOUS
<1>3. ledger \in Seq(Entries) /\ KeysOnce(ledger)
  BY <1>2 DEF LedgerTypeOK, LedgerInv, KeysDiffer
<1>4. usage'[t] = after
  <2>1. usage' = [usage EXCEPT ![t] = after]
    BY <1>2 DEF AppendUsageTx, NewEvent, Recorded, Grown
  <2>2. QED
    BY <2>1 DEF LedgerTypeOK
<1>5. \A i \in DOMAIN events : ~Refused(t, events[i])
  BY DEF AppendUsageTx
<1>6. \A e \in ToSet(events) : ~Refused(t, e)
  BY <1>5 DEF ToSet
<1>7. \A e \in ToSet(events), f \in ToSet(ledger) : f.key = e.key => f = e
  BY <1>2, <1>6 DEF Refused, Recorded
<1>8. KeysOnce(after) /\ Extends(after, ledger)
  BY <1>2, <1>3, <1>7, LedgerKeys
<1>9. KeysDiffer'
  BY <1>1, <1>4, <1>8 DEF LedgerInv, KeysDiffer
<1>10. Windows'
  <2>1. \A e \in ToSet(events) : e.start < e.end
    <3>1. \A e \in ToSet(events) : Accepts(e)
      BY <1>6 DEF Refused
    <3>2. QED
      BY <3>1 DEF Accepts
  <2>2. QED
    BY <1>1, <2>1 DEF LedgerInv, Windows
<1>11. ASSUME NEW i \in DOMAIN after \ DOMAIN ledger
       PROVE  after[i] \in ToSet(events) \ Recorded(t)
  <2>1. after[i] \in Recorded(t) \cup ToSet(events)
    <3>1. ToSet(after) = Recorded(t) \cup ToSet(events)
      BY <1>1, <1>4 DEF Recorded
    <3>2. after[i] \in ToSet(after)
      BY DEF ToSet
    <3>3. QED
      BY <3>1, <3>2
  <2>2. after[i] \notin ToSet(ledger)
    <3>1. SUFFICES ASSUME NEW j \in DOMAIN ledger, after[i] = ledger[j]
                   PROVE  FALSE
      BY DEF ToSet
    <3>2. j \in DOMAIN after /\ after[j] = ledger[j]
      BY <1>8 DEF Extends
    <3>3. i = j
      BY <1>8, <3>1, <3>2 DEF KeysOnce
    <3>4. QED
      BY <3>3
  <2>3. QED
    BY <1>2, <2>1, <2>2 DEF Recorded
<1>12. QED
  BY <1>1, <1>2, <1>4, <1>8, <1>9, <1>10, <1>11

(* A transaction keeps the invariant when what is new in it settles.        *)
LEMMA AppendKeepsLedger ==
  ASSUME LedgerTypeOK, LedgerInv, NEW t \in Tenant, NEW events, events \in Seq(Entries),
         Len(events) <= 3, KeysOnce(events), AppendUsageTx(t, events),
         \A u \in Tenant : alerts[u] \subseteq alerts'[u],
         \A i \in DOMAIN usage'[t] \ DOMAIN usage[t] : Settled(usage'[t], alerts'[t], i)
  PROVE  LedgerInv'
<1>1. /\ LedgerTypeOK' /\ KeysDiffer' /\ Windows'
      /\ Extends(usage'[t], usage[t])
      /\ \A u \in Tenant \ {t} : usage'[u] = usage[u]
  BY LedgerExtends
<1>2. \A u \in Tenant : Extends(usage'[u], usage[u])
  BY <1>1 DEF Extends
<1>3. ASSUME NEW u \in Tenant, NEW i \in DOMAIN usage'[u]
      PROVE  Settled(usage'[u], alerts'[u], i)
  <2>1. CASE i \in DOMAIN usage[u]
    <3>1. Settled(usage[u], alerts[u], i)
      BY <2>1, SettleMeans DEF LedgerInv
    <3>2. usage[u] \in Seq(Entries) /\ usage'[u] \in Seq(Entries)
      BY <1>1 DEF LedgerTypeOK
    <3>3. alerts[u] \subseteq alerts'[u] /\ Extends(usage'[u], usage[u])
      BY <1>2
    <3>4. QED
      BY <2>1, <3>1, <3>2, <3>3, SettledKept
  <2>2. CASE i \notin DOMAIN usage[u]
    <3>1. u = t
      BY <1>1, <1>3, <2>2
    <3>2. QED
      BY <1>3, <2>2, <3>1
  <2>3. QED
    BY <2>1, <2>2
<1>4. CorrectionsSettle'
  BY <1>3 DEF CorrectionsSettle, Settled
<1>5. QED
  BY <1>1, <1>4 DEF LedgerInv

(* A correction is recorded after all that it was reckoned from.            *)
LEMMA CorrectionAppended ==
  ASSUME NEW ledger \in Seq(Entries), NEW e \in Entries, e \notin ToSet(ledger)
  PROVE  /\ DOMAIN Grown(ledger, <<e>>) = 1..Len(ledger) + 1
         /\ Grown(ledger, <<e>>)[Len(ledger) + 1] = e
         /\ \A i \in 1..Len(ledger) : Grown(ledger, <<e>>)[i] = ledger[i]
<1>1. DOMAIN <<e>> = {1} /\ <<e>>[1] = e
  OBVIOUS
<1>2. NewEvent(ledger, <<e>>, 1) = <<e>>
  BY <1>1 DEF NewEvent
<1>3. NewEvent(ledger, <<e>>, 2) = <<>> /\ NewEvent(ledger, <<e>>, 3) = <<>>
  BY <1>1 DEF NewEvent
<1>4. PICK s : s = ledger \o <<e>>
  OBVIOUS
<1>5. /\ s \in Seq(Entries) /\ Len(s) = Len(ledger) + 1 /\ s[Len(ledger) + 1] = e
      /\ \A i \in 1..Len(ledger) : s[i] = ledger[i]
  BY <1>4
<1>6. s \o <<>> \o <<>> = s
  BY <1>5
<1>7. Grown(ledger, <<e>>) = s
  BY <1>2, <1>3, <1>4, <1>6 DEF Grown
<1>8. DOMAIN s = 1..Len(ledger) + 1
  BY <1>5
<1>9. QED
  BY <1>5, <1>7, <1>8

(* One window is inside another, when it has a length, as their ends say.   *)
LEMMA WithinIsInside ==
  ASSUME NEW e, NEW c \in Command, IsEntry(e), e.start < e.end
  PROVE  Within(e, c) <=> Inside(e, c)
<1>1. e.start \in Int /\ e.end \in Int /\ c.start \in Int /\ c.end \in Int
  BY CommandAssumption DEF IsEntry
<1>2. c.start <= e.start /\ e.end <= c.end <=> e.start..e.end \subseteq c.start..c.end
  <2>1. PICK a, b, x, y : a = e.start /\ b = e.end /\ x = c.start /\ y = c.end
    OBVIOUS
  <2>2. a \in Int /\ b \in Int /\ x \in Int /\ y \in Int /\ a < b
    BY <1>1, <2>1
  <2>3. ASSUME x <= a, b <= y
        PROVE  a..b \subseteq x..y
    BY <2>2, <2>3
  <2>4. ASSUME a..b \subseteq x..y
        PROVE  x <= a /\ b <= y
    <3>1. a \in a..b /\ b \in a..b
      BY <2>2
    <3>2. a \in x..y /\ b \in x..y
      BY <2>4, <3>1
    <3>3. QED
      BY <2>2, <3>2
  <2>5. QED
    BY <2>1, <2>3, <2>4
<1>3. QED
  BY <1>2 DEF Within, Inside

LEMMA CorrectionIsInside ==
  ASSUME NEW c \in Command, NEW n \in Int
  PROVE  /\ Inside(Correction(c, n), c)
         /\ Correction(c, n).quantity = n /\ Correction(c, n).key = <<"reconcile", c>>
BY DEF Correction, Inside

(* The threshold is compared with the size of the drift.                    *)
LEMMA BeyondThreshold ==
  ASSUME NEW n \in -MaxInt - 1 .. MaxInt, Threshold \in 1..MaxInt - 1,
         n \notin -Threshold..Threshold
  PROVE  Threshold > 0 /\ Abs(n) > Threshold
BY BoundsAssumption DEF Abs, Magnitude

LEMMA ReconcileSettles ==
  ASSUME LedgerTypeOK, LedgerInv, alerts \in [Tenant -> SUBSET (Command \X Int)],
         NEW t \in Tenant, NEW c \in Command, NEW order \in ListUsage(t),
         ReconcileUsage(t, c, order)
  PROVE  LedgerInv'
<1>1. PICK ledger, n, inside, sum, drift :
        /\ ledger = usage[t] /\ n = Len(ledger)
        /\ inside = {e \in Recorded(t) : Within(e, c)}
        /\ sum = SumOf(Quantities(t, order, inside), n)
        /\ drift = Int64(c.observed - sum.value)
  OBVIOUS
<1>2. /\ sum.ok /\ drift.ok
      /\ AppendUsageTx(t, <<Correction(c, drift.value)>>)
      /\ alerts' = IF Threshold > 0 /\ Abs(drift.value) > Threshold
                     THEN [alerts EXCEPT ![t] = @ \cup {<<c, drift.value>>}] ELSE alerts
  BY <1>1 DEF ReconcileUsage
<1>3. ledger \in Seq(Entries) /\ n \in Nat /\ DOMAIN ledger = 1..n
  BY <1>1 DEF LedgerTypeOK
<1>4. sum \in Sums /\ sum.value = Total(PartOf(ledger, inside), n)
  BY <1>1, <1>2, ReadingIsTotal
<1>5. PICK d : d = drift.value
  OBVIOUS
<1>6. d = c.observed - sum.value /\ d \in -MaxInt - 1 .. MaxInt /\ sum.value \in Int /\ d \in Int
  <2>1. sum.value \in Int /\ c.observed \in Int
    BY <1>4, CommandAssumption, BoundsAssumption DEF Sums
  <2>2. drift \in Sums /\ drift.value = c.observed - sum.value
    BY <1>1, <1>2, <2>1, Int64Typed
  <2>3. QED
    BY <1>5, <2>1, <2>2, BoundsAssumption DEF Sums
<1>7. PICK e : e = Correction(c, d)
  OBVIOUS
<1>8. /\ e \in Entries /\ e.key = <<"reconcile", c>> /\ e.quantity = d /\ Inside(e, c)
      /\ <<e>> \in Seq(Entries) /\ Len(<<e>>) <= 3 /\ ToSet(<<e>>) = {e}
  <2>1. e \in Corrections
    BY <1>6, <1>7 DEF Corrections
  <2>2. QED
    BY <1>6, <1>7, <2>1, EntriesAppended, CorrectionIsInside DEF Entries
<1>9. KeysOnce(<<e>>)
  <2>1. DOMAIN <<e>> = {1}
    OBVIOUS
  <2>2. QED
    BY <2>1 DEF KeysOnce
<1>10. AppendUsageTx(t, <<e>>)
  BY <1>2, <1>5, <1>7
<1>11. PICK after : after = usage'[t]
  OBVIOUS
<1>12. /\ after = Grown(ledger, <<e>>)
       /\ \A i \in DOMAIN after \ DOMAIN ledger : after[i] \in {e} \ ToSet(ledger)
  BY <1>1, <1>8, <1>9, <1>10, <1>11, LedgerExtends DEF Recorded
<1>13. \A u \in Tenant : alerts[u] \subseteq alerts'[u]
  BY <1>2
<1>14. Threshold \in 1..MaxInt - 1 /\ d \notin -Threshold..Threshold
         => <<c, d>> \in alerts'[t]
  <2>1. SUFFICES ASSUME Threshold \in 1..MaxInt - 1, d \notin -Threshold..Threshold
                 PROVE  <<c, d>> \in alerts'[t]
    OBVIOUS
  <2>2. Threshold > 0 /\ Abs(d) > Threshold
    BY <1>6, <2>1, BeyondThreshold
  <2>3. QED
    BY <1>2, <1>5, <2>2
<1>15. ASSUME NEW i \in DOMAIN after \ DOMAIN ledger
       PROVE  Settled(after, alerts'[t], i)
  <2>1. after[i] = e /\ e \notin ToSet(ledger)
    BY <1>12
  <2>2. /\ DOMAIN after = 1..n + 1 /\ after[n + 1] = e
        /\ \A j \in 1..n : after[j] = ledger[j]
    BY <1>1, <1>3, <1>8, <1>12, <2>1, CorrectionAppended
  <2>3. i = n + 1
    BY <1>3, <2>2
  <2>4. PICK f, g : f = InsidePart(after, n + 1, c) /\ g = PartOf(ledger, inside)
    OBVIOUS
  <2>5. g \in [1..n -> Int]
    BY <1>1, <1>3, <2>4, PartTyped
  <2>6. ASSUME NEW j \in 1..n
        PROVE  f[j] = g[j]
    <3>1. after[j] = ledger[j] /\ j \in 1..n + 1 /\ j \in DOMAIN ledger
      BY <1>3, <2>2
    <3>2. ledger[j] \in Recorded(t) /\ ledger[j] \in Entries
      BY <1>1, <1>3, <3>1 DEF Recorded, ToSet
    <3>3. IsEntry(ledger[j]) /\ ledger[j].start < ledger[j].end
      BY <3>2, EntriesTyped DEF LedgerInv, Windows
    <3>4. Within(ledger[j], c) <=> Inside(ledger[j], c)
      BY <3>3, WithinIsInside
    <3>5. ledger[j] \in inside <=> Inside(ledger[j], c)
      BY <1>1, <3>2, <3>4
    <3>6. QED
      BY <2>4, <3>1, <3>5 DEF InsidePart, PartOf
  <2>7. f[n + 1] = d
    BY <1>3, <1>8, <2>2, <2>4 DEF InsidePart
  <2>8. Total(f, n + 1) = Total(g, n) + d
    <3>1. \A j \in 1..n : f[j] \in Int /\ f[j] = g[j]
      BY <2>5, <2>6
    <3>2. f[n + 1] \in Int
      BY <1>6, <2>7
    <3>3. QED
      BY <1>3, <2>7, <3>1, <3>2, TotalGrows
  <2>9. UsageInside(after, n + 1, c) = c.observed
    <3>1. Total(f, n + 1) = sum.value + d
      BY <1>4, <2>4, <2>8
    <3>2. Total(f, n + 1) = c.observed
      BY <1>6, <3>1, CommandAssumption
    <3>3. QED
      BY <2>4, <3>2, UsageInsideMeans
  <2>10. after[i].key[2] = c /\ after[i].quantity = d
    BY <1>8, <2>1
  <2>11. QED
    BY <1>14, <2>3, <2>9, <2>10 DEF Settled
<1>16. QED
  BY <1>1, <1>8, <1>9, <1>10, <1>11, <1>13, <1>15, AppendKeepsLedger

AlertsTypeOK == alerts \in [Tenant -> SUBSET (Command \X Int)]

LEMMA AlertsTyped ==
  ASSUME AlertsTypeOK, [Next]_vars
  PROVE  AlertsTypeOK'
<1>1. CASE UNCHANGED alerts
  BY <1>1 DEF AlertsTypeOK
<1>2. ASSUME NEW t \in Tenant, NEW c \in Command, NEW order \in ListUsage(t),
             ReconcileUsage(t, c, order)
      PROVE  AlertsTypeOK'
  <2>1. PICK d :
          d = Int64(c.observed - SumOf(Quantities(t, order,
                                                  {e \in Recorded(t) : Within(e, c)}),
                                       Len(usage[t])).value)
    OBVIOUS
  <2>2. d.ok /\ (alerts' = alerts
                 \/ alerts' = [alerts EXCEPT ![t] = @ \cup {<<c, d.value>>}])
    BY <1>2, <2>1 DEF ReconcileUsage
  <2>3. d.value \in Int
    BY <2>1, <2>2, BoundsAssumption DEF Int64, InRange, Overflow
  <2>4. QED
    BY <2>2, <2>3 DEF AlertsTypeOK
<1>3. QED
  BY <1>1, <1>2 DEF Next, vars, usageVars, AppendEvent, RecordBuildUsage

LEMMA LedgerInit == Init => AlertsTypeOK /\ LedgerInv
<1>1. SUFFICES ASSUME Init PROVE AlertsTypeOK /\ LedgerInv
  OBVIOUS
<1>2. usage = [t \in Tenant |-> <<>>] /\ alerts = [t \in Tenant |-> {}]
  BY <1>1 DEF Init
<1>3. AlertsTypeOK
  BY <1>2 DEF AlertsTypeOK
<1>4. DOMAIN <<>> = {} /\ ToSet(<<>>) = {}
  BY DEF ToSet
<1>5. KeysDiffer /\ Windows
  BY <1>2, <1>4 DEF KeysDiffer, KeysOnce, Windows, Recorded
<1>6. CorrectionsSettle
  BY <1>2, <1>4 DEF CorrectionsSettle
<1>7. QED
  BY <1>3, <1>5, <1>6 DEF LedgerInv

LEMMA LedgerStep ==
  ASSUME UsageInv, AlertsTypeOK, LedgerInv, [Next]_vars
  PROVE  LedgerInv'
<1>1. CASE UNCHANGED usageVars
  BY <1>1
  DEF usageVars, LedgerInv, KeysDiffer, Windows, Recorded, CorrectionsSettle
<1>2. ASSUME NEW t \in Tenant, NEW events, events \in Seq(Entries), Len(events) <= 3,
             KeysOnce(events), AppendUsageTx(t, events), alerts' = alerts,
             \A e \in ToSet(events) : e.key[1] # "reconcile"
      PROVE  LedgerInv'
  <2>1. \A i \in DOMAIN usage'[t] \ DOMAIN usage[t] : usage'[t][i] \in ToSet(events)
    BY <1>2, LedgerExtends DEF UsageInv
  <2>2. \A i \in DOMAIN usage'[t] \ DOMAIN usage[t] : Settled(usage'[t], alerts'[t], i)
    BY <1>2, <2>1 DEF Settled
  <2>3. \A u \in Tenant : alerts[u] \subseteq alerts'[u]
    BY <1>2
  <2>4. QED
    BY <1>2, <2>2, <2>3, AppendKeepsLedger DEF UsageInv
<1>3. ASSUME NEW t \in Tenant, NEW e \in Event, AppendEvent(t, e)
      PROVE  LedgerInv'
  <2>1. <<e>> \in Seq(Entries) /\ Len(<<e>>) <= 3 /\ ToSet(<<e>>) = {e}
    BY EntriesAppended
  <2>2. KeysOnce(<<e>>)
    <3>1. DOMAIN <<e>> = {1}
      OBVIOUS
    <3>2. QED
      BY <3>1 DEF KeysOnce
  <2>3. e.key[1] # "reconcile"
    BY EventAssumption
  <2>4. QED
    BY <1>2, <1>3, <2>1, <2>2, <2>3 DEF AppendEvent
<1>4. ASSUME NEW t \in Tenant, NEW r \in Report, RecordBuildUsage(t, r)
      PROVE  LedgerInv'
  <2>1. EventsOf(r) \in Seq(Entries) /\ Len(EventsOf(r)) <= 3
    BY EntriesAppended
  <2>2. KeysOnce(EventsOf(r)) /\ \A e \in ToSet(EventsOf(r)) : e.key[1] # "reconcile"
    BY ReportedEvents
  <2>3. QED
    BY <1>2, <1>4, <2>1, <2>2 DEF RecordBuildUsage
<1>5. ASSUME NEW t \in Tenant, NEW c \in Command, NEW order \in ListUsage(t),
             ReconcileUsage(t, c, order)
      PROVE  LedgerInv'
  BY <1>5, ReconcileSettles DEF UsageInv, AlertsTypeOK
<1>6. QED
  BY <1>1, <1>3, <1>4, <1>5 DEF Next, vars

(* A correction brings its window's usage, itself included, to what was     *)
(* observed, for any ledger, any dates and any threshold (service.go,       *)
(* ReconcileUsage).                                                         *)
THEOREM CorrectionsHold == Spec => []CorrectionsSettle
<1>1. Spec => []QuotaInv
  BY UsageKeepsQuotas, QuotaInvariant, PTL
<1>2. Init => UsageInv /\ AlertsTypeOK /\ LedgerInv
  BY UsageInit, LedgerInit
<1>3. QuotaInv /\ UsageInv /\ AlertsTypeOK /\ LedgerInv /\ [Next]_vars
        => UsageInv' /\ AlertsTypeOK' /\ LedgerInv'
  BY UsageStep, AlertsTyped, LedgerStep
<1>4. LedgerInv => CorrectionsSettle
  BY DEF LedgerInv
<1>5. QED
  BY <1>1, <1>2, <1>3, <1>4, PTL DEF Spec

-----------------------------------------------------------------------------
(* The lines of a ledger.                                                   *)
LEMMA LineOfEntry ==
  ASSUME NEW e, IsEntry(e)
  PROVE  LineOf(e) \in Lines /\ (LineOf(e)[3] = 3 => e.quantity >= 0) /\ e.quantity \in Int
<1>1. Rank(e.kind) \in 1..3 /\ (Rank(e.kind) = 3 => e.kind = "STANDARD")
  BY DEF IsEntry, Kinds, Rank
<1>2. QED
  BY <1>1 DEF IsEntry, LineOf, Lines

LEMMA LinesAreFinite ==
  ASSUME LedgerTypeOK, NEW t \in Tenant
  PROVE  LinesOf(t) \in SUBSET Lines /\ IsFiniteSet(LinesOf(t))
<1>1. PICK ledger, n, f : /\ ledger = usage[t] /\ n = Len(ledger)
                          /\ f = [i \in 1..n |-> LineOf(ledger[i])]
  OBVIOUS
<1>2. /\ n \in Nat /\ DOMAIN ledger = 1..n /\ \A i \in 1..n : ledger[i] \in Entries
  BY <1>1 DEF LedgerTypeOK
<1>3. LinesOf(t) = {LineOf(ledger[i]) : i \in 1..n}
  BY <1>1, <1>2 DEF LinesOf, Recorded, ToSet
<1>4. \A i \in 1..n : LineOf(ledger[i]) \in Lines
  BY <1>2, EntriesTyped, LineOfEntry
<1>5. f \in Surjection(1..n, LinesOf(t))
  BY <1>1, <1>3 DEF Surjection
<1>6. IsFiniteSet(1..n)
  BY <1>2, FS_Interval
<1>7. IsFiniteSet(LinesOf(t))
  BY <1>5, <1>6, FS_Surjection
<1>8. QED
  BY <1>3, <1>4, <1>7

(* What a line sums up to when nothing overflows.                           *)
LinePart(ledger, l) ==
  [i \in DOMAIN ledger |-> IF LineOf(ledger[i]) = l THEN ledger[i].quantity ELSE 0]

LEMMA LineQuantityIs ==
  ASSUME LedgerTypeOK, NEW t \in Tenant, NEW order \in ListUsage(t), NEW l,
         LineQuantity(t, order, l).ok
  PROVE  /\ LineQuantity(t, order, l).value = UsageOf(usage[t], l)
         /\ LineQuantity(t, order, l).value \in Int
         /\ l[3] = 3 => LineQuantity(t, order, l).value >= 0
<1>1. PICK ledger, n, events, sum, f :
        /\ ledger = usage[t] /\ n = Len(ledger)
        /\ events = {e \in Recorded(t) : LineOf(e) = l}
        /\ sum = LineQuantity(t, order, l)
        /\ f = PartOf(ledger, events)
  OBVIOUS
<1>2. sum \in Sums /\ sum.value = Total(f, n)
  <2>1. sum = SumOf(Quantities(t, order, events), n)
    BY <1>1 DEF LineQuantity
  <2>2. sum.ok
    BY <1>1
  <2>3. QED
    BY <1>1, <2>1, <2>2, ReadingIsTotal
<1>3. /\ n \in Nat /\ DOMAIN ledger = 1..n /\ \A i \in 1..n : ledger[i] \in Entries
  BY <1>1 DEF LedgerTypeOK
<1>4. f = LinePart(ledger, l)
  <2>1. \A i \in 1..n : ledger[i] \in events <=> LineOf(ledger[i]) = l
    BY <1>1, <1>3 DEF Recorded, ToSet
  <2>2. QED
    BY <1>1, <1>3, <2>1 DEF PartOf, LinePart
<1>5. UsageOf(ledger, l) = Total(f, n)
  BY <1>1, <1>4 DEF UsageOf, LinePart
<1>6. sum.value \in Int
  BY <1>2, BoundsAssumption DEF Sums
<1>7. ASSUME l[3] = 3
      PROVE  sum.value >= 0
  <2>1. ASSUME NEW i \in 1..n
        PROVE  f[i] \in Nat
    <3>1. IsEntry(ledger[i])
      BY <1>3, EntriesTyped
    <3>2. LineOf(ledger[i]) = l => ledger[i].quantity \in Nat
      BY <1>7, <3>1, LineOfEntry
    <3>3. QED
      BY <1>3, <1>4, <3>2 DEF LinePart
  <2>2. Total(f, n) \in Nat
    BY <1>3, <2>1, TotalNatural
  <2>3. QED
    BY <1>2, <2>2
<1>8. QED
  BY <1>1, <1>2, <1>5, <1>6, <1>7

(* The specification of a subscription's plan is a valid one.               *)
LEMMA SpecIsValid ==
  ASSUME QuotaInv, NEW t \in Tenant, sub[t] # NoSubscription
  PROVE  SpecOf(t) \in PlanSpec
<1>1. sub[t] \in [state : SubscriptionStates, plan : Plan, trialEnds : Trials]
  BY DEF QuotaInv, QuotaTypeOK, CommerceTypeOK, Subscriptions
<1>2. plan \in [Plan -> Plans] /\ Pinned
  BY DEF QuotaInv, QuotaTypeOK, CommerceTypeOK
<1>3. plan[sub[t].plan] \in [state : PlanStates, spec : PlanSpec]
  BY <1>1, <1>2 DEF Pinned, Plans, NoPlan
<1>4. QED
  BY <1>3 DEF SpecOf

(* An invoice whose total fits is what the loop makes of all lines.         *)
Amounts(t, order, keys, n) == [i \in 1..n |-> LineQuantity(t, order, keys[i]).value]

Made(t, order, start, n) ==
  CHOOSE r : r = [i \in 0..n |->
                    IF i = 0 THEN start
                    ELSE Rated(SpecOf(t), r[i - 1], Listed(LinesOf(t))[i],
                               LineQuantity(t, order, Listed(LinesOf(t))[i]).value)]

LEMMA PreviewIsMade ==
  ASSUME NEW t, NEW order
  PROVE  PreviewInvoice(t, order)
           = IF \E l \in LinesOf(t) : ~LineQuantity(t, order, l).ok
               THEN [Start(SpecOf(t)) EXCEPT !.total = Overflow]
               ELSE Made(t, order, Start(SpecOf(t)), Cardinality(LinesOf(t)))
                      [Cardinality(LinesOf(t))]
BY Zenon DEF PreviewInvoice, Made, Start

LEMMA LinesFit ==
  ASSUME NEW t, NEW order, PreviewInvoice(t, order).total.ok
  PROVE  \A l \in LinesOf(t) : LineQuantity(t, order, l).ok
<1>1. PICK x : PreviewInvoice(t, order)
                 = IF \E l \in LinesOf(t) : ~LineQuantity(t, order, l).ok
                     THEN [Start(SpecOf(t)) EXCEPT !.total = Overflow] ELSE x
  BY PreviewIsMade
<1>2. ASSUME \E l \in LinesOf(t) : ~LineQuantity(t, order, l).ok
      PROVE  FALSE
  <2>1. PreviewInvoice(t, order).total = Overflow
    BY <1>1, <1>2 DEF Start
  <2>2. QED
    BY <2>1 DEF Overflow
<1>3. QED
  BY <1>2

LEMMA PreviewIsLoop ==
  ASSUME NEW t, NEW order, PreviewInvoice(t, order).total.ok,
         NEW n \in Nat, n = Cardinality(LinesOf(t)),
         \E r : LoopOf(r, SpecOf(t), Listed(LinesOf(t)),
                       Amounts(t, order, Listed(LinesOf(t)), n), n)
  PROVE  \E s : /\ LoopOf(s, SpecOf(t), Listed(LinesOf(t)),
                          Amounts(t, order, Listed(LinesOf(t)), n), n)
                /\ PreviewInvoice(t, order) = s[n]
<1>1. PICK keys, amounts, spec :
        /\ keys = Listed(LinesOf(t)) /\ amounts = Amounts(t, order, keys, n)
        /\ spec = SpecOf(t)
  OBVIOUS
<1> DEFINE Round(r, i) ==
      IF i = 0 THEN Start(spec)
      ELSE Rated(spec, r[i - 1], keys[i], LineQuantity(t, order, keys[i]).value)
<1>2. ASSUME NEW r
      PROVE  LoopOf(r, spec, keys, amounts, n) <=> r = [i \in 0..n |-> Round(r, i)]
  <2>1. ASSUME NEW i \in 0..n
        PROVE  (IF i = 0 THEN Start(spec) ELSE Rated(spec, r[i - 1], keys[i], amounts[i]))
                 = Round(r, i)
    <3>1. CASE i = 0
      BY <3>1
    <3>2. CASE i # 0
      <4>1. i \in 1..n
        BY <3>2
      <4>2. amounts[i] = LineQuantity(t, order, keys[i]).value
        BY <1>1, <4>1 DEF Amounts
      <4>3. QED
        BY <3>2, <4>2
    <3>3. QED
      BY <3>1, <3>2
  <2> HIDE DEF Round
  <2>2. [i \in 0..n |-> IF i = 0 THEN Start(spec)
                               ELSE Rated(spec, r[i - 1], keys[i], amounts[i])]
          = [i \in 0..n |-> Round(r, i)]
    BY <2>1
  <2>3. QED
    BY <2>2 DEF LoopOf
<1>3. \E s : s = [i \in 0..n |-> Round(s, i)]
  <2>1. PICK s : LoopOf(s, spec, keys, amounts, n)
    BY <1>1
  <2>2. s = [i \in 0..n |-> Round(s, i)]
    BY <1>2, <2>1
  <2>3. QED
    BY <2>2
<1>4. PICK s : /\ s = [i \in 0..n |-> Round(s, i)]
               /\ PreviewInvoice(t, order)
                    = IF \E l \in LinesOf(t) : ~LineQuantity(t, order, l).ok
                        THEN [Start(spec) EXCEPT !.total = Overflow] ELSE s[n]
  <2>1. PICK s : s = Made(t, order, Start(spec), n)
    OBVIOUS
  <2>2. s = [i \in 0..n |-> Round(s, i)]
    BY <1>1, <1>3, <2>1 DEF Made
  <2>3. PreviewInvoice(t, order)
          = IF \E l \in LinesOf(t) : ~LineQuantity(t, order, l).ok
              THEN [Start(spec) EXCEPT !.total = Overflow] ELSE s[n]
    BY <1>1, <2>1, PreviewIsMade
  <2>4. QED
    BY <2>2, <2>3
<1>5. PreviewInvoice(t, order) = s[n]
  BY <1>4, LinesFit
<1>6. LoopOf(s, spec, keys, amounts, n)
  BY <1>2, <1>4
<1>7. QED
  BY <1>1, <1>5, <1>6

(* Every line of the ledger is on the invoice, and none twice.              *)
LEMMA ListedOnce ==
  ASSUME NEW L, NEW n \in Nat, NEW keys \in Bijection(1..n, L), NEW lines,
         DOMAIN lines = 1..n, \A i \in 1..n : lines[i].line = keys[i]
  PROVE  /\ {lines[i].line : i \in DOMAIN lines} = L
         /\ \A i, j \in DOMAIN lines : lines[i].line = lines[j].line => i = j
<1>1. PICK S : S = 1..n
  OBVIOUS
<1>2. /\ keys \in [S -> L] /\ \A i, j \in S : keys[i] = keys[j] => i = j
      /\ \A m \in L : \E i \in S : keys[i] = m
  BY <1>1, BijectionMeans
<1>3. DOMAIN lines = S /\ \A i \in S : lines[i].line = keys[i]
  BY <1>1
<1>4. QED
  BY <1>2, <1>3

LEMMA ExactIsPriced ==
  ASSUME NEW spec, NEW invoice, NEW keys, NEW quantities, NEW k \in Nat,
         Exact(spec, invoice, keys, quantities, k), invoice.total.ok
  PROVE  Priced(spec, invoice.lines) /\ invoice.total.value = AmountOf(invoice.lines)
BY DEF Exact, Summed, Allowed, Beyond, Priced

LEMMA PreviewIsExact ==
  ASSUME QuotaInv, LedgerTypeOK, NEW t \in Tenant, sub[t] # NoSubscription,
         NEW order \in ListUsage(t), PreviewInvoice(t, order).total.ok
  PROVE  /\ Itemised(t, PreviewInvoice(t, order).lines)
         /\ Priced(SpecOf(t), PreviewInvoice(t, order).lines)
         /\ PreviewInvoice(t, order).total.value
              = AmountOf(PreviewInvoice(t, order).lines)
<1>1. PICK L, n, keys, amounts, spec, invoice :
        /\ L = LinesOf(t) /\ n = Cardinality(L) /\ keys = Listed(L)
        /\ amounts = Amounts(t, order, keys, n) /\ spec = SpecOf(t)
        /\ invoice = PreviewInvoice(t, order)
  OBVIOUS
<1>2. L \in SUBSET Lines /\ IsFiniteSet(L)
  BY <1>1, LinesAreFinite
<1>3. n \in Nat /\ keys \in Bijection(1..n, L)
  BY <1>1, <1>2, LinesListed
<1>4. spec \in PlanSpec
  BY <1>1, SpecIsValid
<1>5. ASSUME NEW i \in 1..n
      PROVE  /\ keys[i] \in L /\ amounts[i] = UsageOf(usage[t], keys[i])
             /\ amounts[i] \in Int /\ (keys[i][3] = 3 => amounts[i] >= 0)
  <2>1. keys[i] \in L
    <3>1. PICK S : S = 1..n
      OBVIOUS
    <3>2. keys \in [S -> L]
      BY <1>3, <3>1, BijectionMeans
    <3>3. QED
      BY <3>1, <3>2
  <2>2. amounts[i] = LineQuantity(t, order, keys[i]).value
    BY <1>1 DEF Amounts
  <2>3. LineQuantity(t, order, keys[i]).ok
    BY <1>1, <2>1, LinesFit
  <2>4. QED
    BY <2>1, <2>2, <2>3, LineQuantityIs
<1>6. Listable(keys, amounts, n)
  BY <1>2, <1>5 DEF Listable
<1>7. \E r : LoopOf(r, spec, keys, amounts, n)
  BY <1>3, <1>4, <1>6, LoopIsExact
<1>8. PICK s : LoopOf(s, spec, keys, amounts, n) /\ invoice = s[n]
  BY <1>1, <1>3, <1>7, PreviewIsLoop
<1>9. Exact(spec, invoice, keys, amounts, n)
  BY <1>3, <1>4, <1>6, <1>8, LoopIsExact
<1>10. PICK lines : lines = invoice.lines
  OBVIOUS
<1>11. /\ DOMAIN lines = 1..n
       /\ \A i \in 1..n : lines[i].line = keys[i] /\ lines[i].quantity = amounts[i]
  <2>1. lines \in Seq(InvoiceLines) /\ Len(lines) = n
    BY <1>9, <1>10 DEF Exact, Invoices, Listing
  <2>2. QED
    BY <1>9, <1>10, <2>1 DEF Exact, Listing
<1>12. /\ {lines[i].line : i \in DOMAIN lines} = L
       /\ \A i, j \in DOMAIN lines : lines[i].line = lines[j].line => i = j
  BY <1>3, <1>11, ListedOnce
<1>13. \A i \in DOMAIN lines : lines[i].quantity = UsageOf(usage[t], lines[i].line)
  BY <1>5, <1>11
<1>14. Itemised(t, lines)
  BY <1>1, <1>12, <1>13 DEF Itemised
<1>15. Priced(spec, lines) /\ invoice.total.value = AmountOf(lines)
  BY <1>1, <1>3, <1>9, <1>10, ExactIsPriced
<1>16. QED
  BY <1>1, <1>10, <1>14, <1>15

(* An invoice whose total fits loses and invents nothing, for any ledger,   *)
(* plan and order of the events, and whatever the width of the numbers      *)
(* (service.go, PreviewInvoice, RateQuantity and safeAdd).                  *)
THEOREM InvoicesAreExact == Spec => []InvoiceIsExact
<1>1. Spec => []QuotaInv
  BY UsageKeepsQuotas, QuotaInvariant, PTL
<1>2. Init => UsageInv /\ AlertsTypeOK /\ LedgerInv
  BY UsageInit, LedgerInit
<1>3. QuotaInv /\ UsageInv /\ AlertsTypeOK /\ LedgerInv /\ [Next]_vars
        => UsageInv' /\ AlertsTypeOK' /\ LedgerInv'
  BY UsageStep, AlertsTyped, LedgerStep
<1>4. QuotaInv /\ UsageInv /\ LedgerInv => InvoiceIsExact
  BY PreviewIsExact DEF UsageInv, LedgerInv, KeysDiffer, KeysOnce, InvoiceIsExact
<1>5. QED
  BY <1>1, <1>2, <1>3, <1>4, PTL DEF Spec
=============================================================================
