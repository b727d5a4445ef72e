------------------------------- MODULE Commerce -------------------------------
(***************************************************************************)
(* Plans, subscriptions and commercial accounts                             *)
(* (internal/commerce/application/service.go and internal/commerce/domain). *)
(* The modules of quotas and of usage build on this one.                    *)
(*                                                                         *)
(* A transaction of the store is one step (a mutex in memory, SERIALIZABLE  *)
(* with retries in PostgreSQL), so the version checks inside one never      *)
(* fail.  One billing period is made with each subscription; nothing closes *)
(* it, so it is the constant Period.  Nothing cancels a subscription or an  *)
(* account, and a tenant has one subscription at most.                      *)
(***************************************************************************)
EXTENDS Integers, FiniteSets

CONSTANTS
  Tenant,     \* tenants
  Plan,       \* plan versions
  PlanSpec,   \* plan specifications: records with a field "limit" at least
  Trials,     \* when a trial may end
  MaxTime     \* bound on the clock

ASSUME TimeAssumption == MaxTime \in Nat /\ Trials \subseteq Int
ASSUME LimitAssumption == \A s \in PlanSpec : s.limit \in Nat

VARIABLES
  now,       \* the clock of the service
  plan,      \* [Plan -> the plan version's row]
  sub,       \* [Tenant -> the subscription's row]
  account    \* [Tenant -> the state of the commercial account]

commerceVars == <<now, plan, sub, account>>

PlanStates == {"DRAFT", "ACTIVE", "DISABLED"}
SubscriptionStates == {"TRIAL", "ACTIVE", "GRACE", "SUSPENDED"}
AccountStates == {"ACTIVE", "GRACE", "SUSPENDED"}

NoPlan == [state |-> "none"]
NoSubscription == [state |-> "none"]

Plans == [state : PlanStates, spec : PlanSpec] \cup {NoPlan}
Subscriptions ==
  [state : SubscriptionStates, plan : Plan, trialEnds : Trials] \cup {NoSubscription}

CommerceTypeOK ==
  /\ now \in 0..MaxTime
  /\ plan \in [Plan -> Plans]
  /\ sub \in [Tenant -> Subscriptions]
  /\ account \in [Tenant -> AccountStates \cup {"none"}]

CommerceInit ==
  /\ now = 0
  /\ plan = [p \in Plan |-> NoPlan]
  /\ sub = [t \in Tenant |-> NoSubscription]
  /\ account = [t \in Tenant |-> "none"]

-----------------------------------------------------------------------------
Tick ==
  /\ now < MaxTime
  /\ now' = now + 1
  /\ UNCHANGED <<plan, sub, account>>

CreatePlanVersion(p, s) ==
  /\ plan[p] = NoPlan
  /\ plan' = [plan EXCEPT ![p] = [state |-> "DRAFT", spec |-> s]]
  /\ UNCHANGED <<now, sub, account>>

ReplacePlanSpec(p, s) ==
  /\ plan[p].state = "DRAFT"
  /\ plan' = [plan EXCEPT ![p].spec = s]
  /\ UNCHANGED <<now, sub, account>>

ActivatePlanVersion(p) ==
  /\ plan[p].state = "DRAFT"
  /\ plan' = [plan EXCEPT ![p].state = "ACTIVE"]
  /\ UNCHANGED <<now, sub, account>>

DisablePlanVersion(p) ==
  /\ plan[p].state \in {"DRAFT", "ACTIVE"}
  /\ plan' = [plan EXCEPT ![p].state = "DISABLED"]
  /\ UNCHANGED <<now, sub, account>>

(* The account is ACTIVE whatever state the subscription starts in.         *)
StartSubscription(t, p, state, ends) ==
  /\ plan[p].state = "ACTIVE"
  /\ sub[t] = NoSubscription
  /\ sub' = [sub EXCEPT ![t] = [state |-> state, plan |-> p, trialEnds |-> ends]]
  /\ account' = [account EXCEPT ![t] = "ACTIVE"]
  /\ UNCHANGED <<now, plan>>

Transitions == {<<"ACTIVE", "GRACE">>, <<"ACTIVE", "SUSPENDED">>,
                <<"GRACE", "SUSPENDED">>, <<"GRACE", "ACTIVE">>,
                <<"SUSPENDED", "ACTIVE">>}

(* SetGrace, Suspend and Resume; asked for the state it has, the account    *)
(* and the subscription stay as they are.                                   *)
TransitionCommercial(t, to) ==
  /\ <<account[t], to>> \in Transitions
  /\ account' = [account EXCEPT ![t] = to]
  /\ sub' = [sub EXCEPT ![t].state = to]
  /\ UNCHANGED <<now, plan>>

CommerceNext ==
  \/ Tick
  \/ \E p \in Plan :
       \/ \E s \in PlanSpec : CreatePlanVersion(p, s) \/ ReplacePlanSpec(p, s)
       \/ ActivatePlanVersion(p) \/ DisablePlanVersion(p)
       \/ \E t \in Tenant, state \in SubscriptionStates, ends \in Trials :
            StartSubscription(t, p, state, ends)
  \/ \E t \in Tenant, to \in AccountStates : TransitionCommercial(t, to)

-----------------------------------------------------------------------------
(* Subscription.AllowsAllocation and the account's state, as Reserve and    *)
(* Check put them together.                                                 *)
AllowsAllocation(t, at) ==
  /\ account[t] \in {"ACTIVE", "GRACE"}
  /\ \/ sub[t].state \in {"ACTIVE", "GRACE"}
     \/ sub[t].state = "TRIAL" /\ at < sub[t].trialEnds

SpecOf(t) == plan[sub[t].plan].spec
=============================================================================
