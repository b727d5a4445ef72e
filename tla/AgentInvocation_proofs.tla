------------------------ MODULE AgentInvocation_proofs ------------------------
(***************************************************************************)
(* What the governance of agent tools promises for any number of keys,      *)
(* payloads, approvals and concurrent calls: a task stays within its        *)
(* budget, a protected invocation has an approval of its own, a denied      *)
(* request has no grant, and a task that repeats a failure is paused.       *)
(***************************************************************************)
EXTENDS AgentInvocation, FiniteSetTheorems, TLAPS

-----------------------------------------------------------------------------
(* The inductive invariant.                                                 *)

(* An invocation row that exists has the payload it was admitted with.      *)
RowsHavePayloads ==
  \A k \in Key : Admitted(k) <=> invocation[k].payload \in Payload

(* A running call has been admitted under its key.                          *)
CallsWereAdmitted ==
  \A c \in Call : call[c].pc # "idle" =>
                    call[c].key \in Key /\ Admitted(call[c].key)

(* The usage on the task counts the admitted invocations.                   *)
UsageCounts ==
  /\ IsFiniteSet(AdmittedAs("build")) /\ IsFiniteSet(AdmittedAs("deploy"))
  /\ task.builds = Cardinality(AdmittedAs("build"))
  /\ task.deploys = Cardinality(AdmittedAs("deploy"))

UsageWithinPolicy ==
  task.builds <= MaxBuilds /\ task.minutes <= MaxMinutes /\ task.deploys <= MaxDeploys

IInv == /\ TypeOK /\ RowsHavePayloads /\ CallsWereAdmitted
        /\ UsageCounts /\ UsageWithinPolicy
        /\ ProtectedWasApproved /\ DeniedHasNoGrant /\ RepairLoopStops

-----------------------------------------------------------------------------
LEMMA InitIInv == Init => IInv
<1> SUFFICES ASSUME Init PROVE IInv
  OBVIOUS
<1>1. TypeOK
  BY DEF Init, TypeOK, NoInvocation, NotAsked, NoCall, NoFailure
<1>2. \A k \in Key : ~Admitted(k) /\ invocation[k].payload = NoPayload
  BY DEF Init, Admitted, NoInvocation
<1>3. RowsHavePayloads
  BY <1>2, SentinelAssumption DEF RowsHavePayloads
<1>4. CallsWereAdmitted
  BY DEF Init, CallsWereAdmitted, NoCall
<1>5. \A tool : AdmittedAs(tool) = {}
  BY <1>2 DEF AdmittedAs
<1>6. UsageCounts /\ UsageWithinPolicy
  BY <1>5, FS_EmptySet, PolicyAssumption DEF Init, UsageCounts, UsageWithinPolicy
<1>7. ProtectedWasApproved
  BY <1>2, SentinelAssumption, PayloadAssumption DEF ProtectedWasApproved
<1>8. DeniedHasNoGrant
  BY DEF Init, DeniedHasNoGrant
<1>9. RepairLoopStops
  BY PolicyAssumption DEF Init, RepairLoopStops
<1> QED
  BY <1>1, <1>3, <1>4, <1>6, <1>7, <1>8, <1>9 DEF IInv

-----------------------------------------------------------------------------
(* What the operators on the task return.                                   *)

(* A payload that fits the budget is charged within it, and charging leaves *)
(* the state of the task and its repair loop alone.                         *)
LEMMA ChargedFacts ==
  ASSUME TypeOK, NEW p \in Payload
  PROVE  /\ Charged(p) \in [state : {"ACTIVE", "PAUSED"}, builds : Nat,
                            minutes : Nat, deploys : Nat,
                            failure : Fingerprints \cup {NoFailure}, repairs : Nat]
         /\ Charged(p).state = task.state /\ Charged(p).repairs = task.repairs
         /\ Charged(p).builds =
              IF ToolOf[p] = "build" THEN task.builds + 1 ELSE task.builds
         /\ Charged(p).minutes =
              IF ToolOf[p] = "build" THEN task.minutes + Minutes[p] ELSE task.minutes
         /\ Charged(p).deploys =
              IF ToolOf[p] = "deploy" THEN task.deploys + 1 ELSE task.deploys
<1>1. Minutes[p] \in Nat
  BY PayloadAssumption
<1>2. CASE ToolOf[p] = "build"
  <2>1. Charged(p) = [task EXCEPT !.builds = @ + 1, !.minutes = @ + Minutes[p]]
    BY <1>2 DEF Charged
  <2> QED
    <3>1. Charged(p) \in [state : {"ACTIVE", "PAUSED"}, builds : Nat,
                          minutes : Nat, deploys : Nat,
                          failure : Fingerprints \cup {NoFailure}, repairs : Nat]
      <4> DEFINE b == task.builds + 1
                 m == task.minutes + Minutes[p]
      <4>1. b \in Nat /\ m \in Nat
        BY <1>1 DEF TypeOK
      <4>2. Charged(p) = [task EXCEPT !.builds = b, !.minutes = m]
        BY <2>1
      <4> HIDE DEF b, m
      <4> QED
        BY <4>1, <4>2 DEF TypeOK
    <3>2. /\ Charged(p).builds = task.builds + 1
          /\ Charged(p).minutes = task.minutes + Minutes[p]
          /\ Charged(p).state = task.state /\ Charged(p).repairs = task.repairs
          /\ Charged(p).deploys = task.deploys
      BY <2>1 DEF TypeOK
    <3> QED
      BY <1>2, <3>1, <3>2
<1>3. CASE ToolOf[p] = "deploy"
  <2>1. Charged(p) = [task EXCEPT !.deploys = @ + 1]
    BY <1>3 DEF Charged
  <2> QED
    <3>1. Charged(p) \in [state : {"ACTIVE", "PAUSED"}, builds : Nat,
                          minutes : Nat, deploys : Nat,
                          failure : Fingerprints \cup {NoFailure}, repairs : Nat]
      BY <2>1 DEF TypeOK
    <3>2. /\ Charged(p).deploys = task.deploys + 1
          /\ Charged(p).minutes = task.minutes
          /\ Charged(p).state = task.state /\ Charged(p).repairs = task.repairs
          /\ Charged(p).builds = task.builds
      BY <2>1 DEF TypeOK
    <3> QED
      BY <1>3, <3>1, <3>2
<1>4. CASE ToolOf[p] # "build" /\ ToolOf[p] # "deploy"
  <2>1. Charged(p) = task
    BY <1>4 DEF Charged
  <2> QED
    BY <1>4, <2>1 DEF TypeOK
<1> QED
  BY <1>2, <1>3, <1>4

(* A failure leaves the usage alone, and pauses the task at the threshold.  *)
LEMMA WithFailureFacts ==
  ASSUME TypeOK, NEW f \in Fingerprints
  PROVE  /\ WithFailure(f) \in [state : {"ACTIVE", "PAUSED"}, builds : Nat,
                                minutes : Nat, deploys : Nat,
                                failure : Fingerprints \cup {NoFailure},
                                repairs : Nat]
         /\ WithFailure(f).builds = task.builds
         /\ WithFailure(f).minutes = task.minutes
         /\ WithFailure(f).deploys = task.deploys
         /\ WithFailure(f).state = "ACTIVE" => WithFailure(f).repairs < RepairThreshold
<1> DEFINE n == IF task.failure = f THEN task.repairs + 1 ELSE 1
<1>1. n \in Nat
  BY DEF TypeOK
<1>2. WithFailure(f) = [task EXCEPT !.failure = f, !.repairs = n,
               !.state = IF n >= RepairThreshold THEN "PAUSED" ELSE @]
  BY DEF WithFailure
<1> HIDE DEF n
<1>3. WithFailure(f) \in [state : {"ACTIVE", "PAUSED"}, builds : Nat,
                          minutes : Nat, deploys : Nat,
                          failure : Fingerprints \cup {NoFailure}, repairs : Nat]
  BY <1>1, <1>2 DEF TypeOK
<1>4. /\ WithFailure(f).builds = task.builds
      /\ WithFailure(f).minutes = task.minutes
      /\ WithFailure(f).deploys = task.deploys
      /\ WithFailure(f).repairs = n
      /\ WithFailure(f).state = IF n >= RepairThreshold THEN "PAUSED" ELSE task.state
  BY <1>2 DEF TypeOK
<1> QED
  BY <1>1, <1>3, <1>4, PolicyAssumption

-----------------------------------------------------------------------------
(* Parts of the invariant that a step leaves alone with their variables.    *)

LEMMA RowsFrame ==
  ASSUME IInv,
         \A k \in Key : /\ invocation'[k].payload = invocation[k].payload
                        /\ Admitted(k)' <=> Admitted(k)
  PROVE  /\ RowsHavePayloads'
         /\ \A tool : AdmittedAs(tool)' = AdmittedAs(tool)
BY DEF IInv, RowsHavePayloads, AdmittedAs

LEMMA UsageFrame ==
  ASSUME IInv, \A tool : AdmittedAs(tool)' = AdmittedAs(tool),
         task'.builds = task.builds, task'.minutes = task.minutes,
         task'.deploys = task.deploys
  PROVE  UsageCounts' /\ UsageWithinPolicy'
BY DEF IInv, UsageCounts, UsageWithinPolicy

(* The steps that touch neither an invocation row nor the task.             *)
LEMMA BudgetUntouched ==
  ASSUME IInv, UNCHANGED <<task, invocation>>
  PROVE  /\ RowsHavePayloads' /\ UsageCounts' /\ UsageWithinPolicy'
         /\ RepairLoopStops'
         /\ \A k \in Key : Admitted(k)' <=> Admitted(k)
<1>1. \A k \in Key : Admitted(k)' <=> Admitted(k)
  BY DEF Admitted
<1>2. RowsHavePayloads' /\ \A tool : AdmittedAs(tool)' = AdmittedAs(tool)
  BY <1>1, RowsFrame
<1>3. UsageCounts' /\ UsageWithinPolicy'
  BY <1>2, UsageFrame
<1> QED
  BY <1>1, <1>2, <1>3 DEF IInv, RepairLoopStops

(* The steps that touch neither an invocation row nor an approval.          *)
LEMMA ApprovalsUntouched ==
  ASSUME IInv, UNCHANGED <<approval, grant>>,
         \A k \in Key : invocation'[k].payload = invocation[k].payload
  PROVE  ProtectedWasApproved' /\ DeniedHasNoGrant'
BY DEF IInv, ProtectedWasApproved, DeniedHasNoGrant

-----------------------------------------------------------------------------
(* The first transaction of Invoke.                                         *)
LEMMA AdmitStep ==
  ASSUME IInv, NEW c \in Call, NEW r \in Request, Admit(c, r)
  PROVE  IInv'
<1> DEFINE k == r.key
           p == r.payload
<1>1. /\ k \in Key /\ p \in Payload
      /\ r.grant \in Approval \cup {NoApproval}
  BY RequestAssumption
<1>2. TypeOK
  BY DEF IInv
<1>3. /\ ~Admitted(k) /\ Approved(r) /\ InBudget(p)
      /\ task' = Charged(p)
      /\ UNCHANGED <<credential, approval, performed>>
  BY DEF Admit
<1>4. invocation' = [invocation EXCEPT ![k] =
                       [state |-> "STARTED", payload |-> p, result |-> NoApproval]]
  BY DEF Admit
<1>5. call' = [call EXCEPT ![c] = [pc |-> "admitted", key |-> k,
                                   outcome |-> "none", result |-> NoApproval]]
  BY DEF Admit, Running
<1>6. p \in Protected =>
        /\ r.grant \in Approval /\ grant[r.grant] = "unconsumed"
        /\ approval[r.grant].asks = p
        /\ grant' = [grant EXCEPT ![r.grant] = k]
  BY <1>3 DEF Admit, Approved
<1>7. p \notin Protected => grant' = grant
  BY DEF Admit
<1> HIDE DEF k, p
<1>8. TypeOK'
  <2>1. task' \in [state : {"ACTIVE", "PAUSED"}, builds : Nat, minutes : Nat,
               deploys : Nat, failure : Fingerprints \cup {NoFailure},
               repairs : Nat]
    BY <1>1, <1>2, <1>3, ChargedFacts
  <2>2. invocation' \in [Key -> [state : {"none", "STARTED", "COMPLETED", "FAILED"},
                             payload : Payload \cup {NoPayload},
                             result : Approval \cup {NoApproval}]]
    BY <1>1, <1>2, <1>4 DEF TypeOK
  <2>3. grant' \in [Approval -> {"absent", "unconsumed"} \cup Key]
    BY <1>1, <1>2, <1>6, <1>7 DEF TypeOK
  <2>4. call' \in [Call -> [pc : {"idle", "admitted", "executed"},
                        key : Key \cup {NoKey},
                        outcome : {"none", "ok", "retryable"} \cup Code,
                        result : Approval \cup {NoApproval}]]
    BY <1>1, <1>2, <1>5 DEF TypeOK
  <2> QED
    BY <1>2, <1>3, <2>1, <2>2, <2>3, <2>4 DEF TypeOK
<1>9. /\ Admitted(k)' /\ invocation'[k].payload = p
      /\ \A j \in Key : j # k => invocation'[j] = invocation[j]
  BY <1>1, <1>2, <1>4 DEF TypeOK, Admitted
<1>10. \A j \in Key : j # k => (Admitted(j)' <=> Admitted(j))
  BY <1>9 DEF Admitted
<1>11. RowsHavePayloads'
  <2> SUFFICES ASSUME NEW j \in Key
               PROVE  (Admitted(j) <=> invocation[j].payload \in Payload)'
    BY DEF RowsHavePayloads
  <2>1. CASE j = k
    BY <1>1, <1>9, <2>1
  <2>2. CASE j # k
    BY <1>9, <1>10, <2>2 DEF IInv, RowsHavePayloads
  <2> QED
    BY <2>1, <2>2
<1>12. CallsWereAdmitted'
  <2> SUFFICES ASSUME NEW d \in Call, call'[d].pc # "idle"
               PROVE  call'[d].key \in Key /\ invocation'[call'[d].key].state # "none"
    BY DEF CallsWereAdmitted, Admitted
  <2>1. CASE d = c
    BY <1>1, <1>2, <1>5, <1>9, <2>1 DEF TypeOK, Admitted
  <2>2. CASE d # c
    <3>1. call'[d] = call[d]
      BY <1>2, <1>5, <2>2 DEF TypeOK
    <3>2. call[d].key \in Key /\ Admitted(call[d].key)
      BY <3>1 DEF IInv, CallsWereAdmitted
    <3>3. CASE call[d].key = k
      BY <1>1, <1>9, <3>1, <3>3 DEF Admitted
    <3>4. CASE call[d].key # k
      BY <1>9, <3>1, <3>2, <3>4 DEF Admitted
    <3> QED
      BY <3>3, <3>4
  <2> QED
    BY <2>1, <2>2
<1>13. ASSUME NEW tool
       PROVE  /\ k \notin AdmittedAs(tool)
              /\ AdmittedAs(tool)' = IF ToolOf[p] = tool
                                       THEN AdmittedAs(tool) \cup {k}
                                       ELSE AdmittedAs(tool)
  BY <1>1, <1>3, <1>9, <1>10 DEF AdmittedAs
<1>14. UsageCounts'
  <2>1. ASSUME NEW tool, IsFiniteSet(AdmittedAs(tool))
        PROVE  /\ IsFiniteSet(AdmittedAs(tool)')
               /\ Cardinality(AdmittedAs(tool)') =
                    IF ToolOf[p] = tool THEN Cardinality(AdmittedAs(tool)) + 1
                                        ELSE Cardinality(AdmittedAs(tool))
    <3>1. /\ IsFiniteSet(AdmittedAs(tool) \cup {k})
          /\ Cardinality(AdmittedAs(tool) \cup {k}) = Cardinality(AdmittedAs(tool)) + 1
      BY <1>13, <2>1, FS_AddElement
    <3> QED
      BY <1>13, <2>1, <3>1
  <2>2. /\ task'.builds = IF ToolOf[p] = "build" THEN task.builds + 1 ELSE task.builds
        /\ task'.deploys = IF ToolOf[p] = "deploy" THEN task.deploys + 1
                                                   ELSE task.deploys
    BY <1>1, <1>2, <1>3, ChargedFacts
  <2> QED
    BY <2>1, <2>2 DEF IInv, UsageCounts
<1>15. UsageWithinPolicy'
  <2>1. /\ task'.builds = IF ToolOf[p] = "build" THEN task.builds + 1 ELSE task.builds
        /\ task'.minutes = IF ToolOf[p] = "build" THEN task.minutes + Minutes[p]
                                                  ELSE task.minutes
        /\ task'.deploys = IF ToolOf[p] = "deploy" THEN task.deploys + 1
                                                   ELSE task.deploys
    BY <1>1, <1>2, <1>3, ChargedFacts
  <2> QED
    BY <1>3, <2>1 DEF IInv, UsageWithinPolicy, InBudget
<1>16. DeniedHasNoGrant'
  BY <1>2, <1>3, <1>6, <1>7 DEF IInv, DeniedHasNoGrant, TypeOK
<1>17. ProtectedWasApproved'
  <2> SUFFICES ASSUME NEW j \in Key, invocation'[j].payload \in Protected
               PROVE  \E a \in Approval : /\ grant'[a] = j
                                          /\ approval'[a].state = "GRANTED"
                                          /\ approval'[a].asks = invocation'[j].payload
    BY DEF ProtectedWasApproved
  <2>1. CASE j = k
    <3>1. p \in Protected
      BY <1>9, <2>1
    <3>2. grant'[r.grant] = k /\ approval[r.grant].state = "GRANTED"
      BY <1>2, <1>6, <3>1 DEF IInv, DeniedHasNoGrant, TypeOK
    <3> QED
      BY <1>3, <1>6, <1>9, <2>1, <3>1, <3>2
  <2>2. CASE j # k
    <3>1. invocation'[j] = invocation[j]
      BY <1>9, <2>2
    <3>2. PICK a \in Approval : /\ grant[a] = j
                                /\ approval[a].state = "GRANTED"
                                /\ approval[a].asks = invocation[j].payload
      BY <3>1 DEF IInv, ProtectedWasApproved
    <3>3. j # "unconsumed"
      BY SentinelAssumption
    <3>4. grant'[a] = j
      BY <1>2, <1>6, <1>7, <3>2, <3>3 DEF TypeOK
    <3> QED
      BY <1>3, <3>1, <3>2, <3>4
  <2> QED
    BY <2>1, <2>2
<1>18. RepairLoopStops'
  BY <1>1, <1>2, <1>3, ChargedFacts DEF IInv, RepairLoopStops
<1> QED
  BY <1>8, <1>11, <1>12, <1>14, <1>15, <1>16, <1>17, <1>18 DEF IInv

-----------------------------------------------------------------------------
(* The other steps of Invoke.                                               *)

(* A step that ends or advances calls keeps CallsWereAdmitted: each of them *)
(* is idle afterwards or still runs under its key.                          *)
LEMMA CallsFrame ==
  ASSUME IInv, \A k \in Key : Admitted(k)' <=> Admitted(k),
         \A c \in Call : call'[c].pc # "idle" =>
                           call[c].pc # "idle" /\ call'[c].key = call[c].key
  PROVE  CallsWereAdmitted'
<1>1. \A k \in Key : invocation'[k].state # "none" <=> invocation[k].state # "none"
  BY DEF Admitted
<1> QED
  BY <1>1 DEF IInv, CallsWereAdmitted, Admitted

LEMMA AdmitAgainStep ==
  ASSUME IInv, NEW c \in Call, NEW r \in Request, AdmitAgain(c, r)
  PROVE  IInv'
<1>1. r.key \in Key
  BY RequestAssumption
<1>2. /\ UNCHANGED <<task, credential, invocation, approval, grant, performed>>
      /\ Admitted(r.key)
      /\ call' = [call EXCEPT ![c] = [pc |-> "admitted", key |-> r.key,
                                     outcome |-> "none", result |-> NoApproval]]
  BY DEF AdmitAgain, Running, Admitted
<1>3. TypeOK'
  BY <1>1, <1>2 DEF IInv, TypeOK
<1>4. /\ RowsHavePayloads' /\ UsageCounts' /\ UsageWithinPolicy' /\ RepairLoopStops'
      /\ \A k \in Key : Admitted(k)' <=> Admitted(k)
  BY <1>2, BudgetUntouched
<1>5. ProtectedWasApproved' /\ DeniedHasNoGrant'
  BY <1>2, ApprovalsUntouched
<1>6. CallsWereAdmitted'
  BY <1>1, <1>2 DEF IInv, CallsWereAdmitted, TypeOK, Admitted
<1> QED
  BY <1>3, <1>4, <1>5, <1>6 DEF IInv

LEMMA CalledToolType ==
  ASSUME IInv, NEW c \in Call, call[c].pc # "idle"
  PROVE  /\ call[c].key \in Key /\ Admitted(call[c].key)
         /\ invocation[call[c].key].payload \in Payload /\ CalledTool(c) \in Tools
BY PayloadAssumption DEF IInv, CallsWereAdmitted, RowsHavePayloads, CalledTool

(* Execute, RequestApprovalFails and CallEnds change only the call and what *)
(* providers have performed.                                                *)
LEMMA CallStep ==
  ASSUME IInv, NEW c \in Call, call[c].pc # "idle",
         UNCHANGED <<task, credential, invocation, approval, grant>>,
         performed' \subseteq performed \cup {call[c].key},
         NEW after, call' = [call EXCEPT ![c] = after],
         after \in [pc : {"idle", "admitted", "executed"}, key : Key \cup {NoKey},
                   outcome : {"none", "ok", "retryable"} \cup Code,
                   result : Approval \cup {NoApproval}],
         after.pc = "idle" \/ after.key = call[c].key
  PROVE  IInv'
<1>1. TypeOK'
  BY CalledToolType DEF IInv, TypeOK
<1>2. /\ RowsHavePayloads' /\ UsageCounts' /\ UsageWithinPolicy' /\ RepairLoopStops'
      /\ \A k \in Key : Admitted(k)' <=> Admitted(k)
  BY BudgetUntouched
<1>3. ProtectedWasApproved' /\ DeniedHasNoGrant'
  BY ApprovalsUntouched
<1>4. \A d \in Call : call'[d].pc # "idle" =>
                         call[d].pc # "idle" /\ call'[d].key = call[d].key
  <2> TAKE d \in Call
  <2>1. call'[d] = IF d = c THEN after ELSE call[d]
    BY DEF IInv, TypeOK
  <2> QED
    BY <2>1
<1>5. CallsWereAdmitted'
  BY <1>2, <1>4, CallsFrame
<1> QED
  BY <1>1, <1>2, <1>3, <1>5 DEF IInv

(* Advancing a call to "executed" keeps its type and its key.               *)
LEMMA ExecutedFacts ==
  ASSUME IInv, NEW c \in Call, NEW outcome \in {"ok", "retryable"} \cup Code,
         NEW result \in Approval \cup {NoApproval}, Executed(c, outcome, result)
  PROVE  \E after \in [pc : {"idle", "admitted", "executed"}, key : Key \cup {NoKey},
                       outcome : {"none", "ok", "retryable"} \cup Code,
                       result : Approval \cup {NoApproval}] :
           /\ call' = [call EXCEPT ![c] = after]
           /\ after.key = call[c].key
<1> DEFINE after == [pc |-> "executed", key |-> call[c].key, outcome |-> outcome,
                     result |-> result]
<1>1. call' = [call EXCEPT ![c] = after]
  BY DEF Executed
<1>2. call[c].key \in Key \cup {NoKey}
  BY DEF IInv, TypeOK
<1>3. after \in [pc : {"idle", "admitted", "executed"}, key : Key \cup {NoKey},
                outcome : {"none", "ok", "retryable"} \cup Code,
                result : Approval \cup {NoApproval}]
  BY <1>2
<1> QED
  BY <1>1, <1>3

LEMMA RequestApprovalStep ==
  ASSUME IInv, NEW c \in Call, NEW a \in Approval, RequestApproval(c, a)
  PROVE  IInv'
<1> DEFINE asks == Asked[invocation[call[c].key].payload]
           row == [state |-> "PENDING", live |-> TRUE, from |-> call[c].key,
                   asks |-> asks]
<1>1. /\ call[c].pc # "idle" /\ approval[a].state = "absent"
      /\ approval' = [approval EXCEPT ![a] = row]
      /\ Executed(c, "ok", a)
      /\ UNCHANGED <<task, credential, invocation, grant, performed>>
  BY DEF RequestApproval
<1>2. call[c].key \in Key /\ asks \in Payload
  BY <1>1, CalledToolType, PayloadAssumption
<1>3. row \in [state : {"absent", "PENDING", "GRANTED", "DENIED"},
              asks : Payload \cup {NoPayload}, from : Key \cup {NoKey},
              live : BOOLEAN]
  BY <1>2
<1> HIDE DEF row, asks
<1>4. PICK after \in [pc : {"idle", "admitted", "executed"}, key : Key \cup {NoKey},
                     outcome : {"none", "ok", "retryable"} \cup Code,
                     result : Approval \cup {NoApproval}] :
           /\ call' = [call EXCEPT ![c] = after]
           /\ after.key = call[c].key
  BY <1>1, ExecutedFacts
<1>5. TypeOK'
  BY <1>1, <1>3, <1>4 DEF IInv, TypeOK
<1>6. /\ RowsHavePayloads' /\ UsageCounts' /\ UsageWithinPolicy' /\ RepairLoopStops'
      /\ \A k \in Key : Admitted(k)' <=> Admitted(k)
  BY <1>1, BudgetUntouched
<1>7. \A d \in Call : call'[d].pc # "idle" =>
                         call[d].pc # "idle" /\ call'[d].key = call[d].key
  BY <1>1, <1>4 DEF IInv, TypeOK
<1>8. CallsWereAdmitted'
  BY <1>6, <1>7, CallsFrame
<1>9. grant[a] = "absent"
  BY <1>1 DEF IInv, DeniedHasNoGrant
<1>10. \A b \in Approval : b # a => approval'[b] = approval[b]
  BY <1>1 DEF IInv, TypeOK
<1>11. DeniedHasNoGrant'
  BY <1>1, <1>9, <1>10 DEF IInv, DeniedHasNoGrant
<1>12. ProtectedWasApproved'
  <2> SUFFICES ASSUME NEW k \in Key, invocation[k].payload \in Protected
               PROVE  \E b \in Approval : /\ grant[b] = k
                                          /\ approval'[b].state = "GRANTED"
                                          /\ approval'[b].asks = invocation[k].payload
    BY <1>1 DEF ProtectedWasApproved
  <2>1. PICK b \in Approval : /\ grant[b] = k /\ approval[b].state = "GRANTED"
                              /\ approval[b].asks = invocation[k].payload
    BY DEF IInv, ProtectedWasApproved
  <2>2. b # a
    BY <1>1, <2>1
  <2> QED
    BY <1>10, <2>1, <2>2
<1> QED
  BY <1>5, <1>6, <1>8, <1>11, <1>12 DEF IInv

LEMMA FinalizeStep ==
  ASSUME IInv, NEW c \in Call, Finalize(c)
  PROVE  IInv'
<1> DEFINE k == call[c].key
           state == IF call[c].outcome = "ok" THEN "COMPLETED" ELSE "FAILED"
<1>1. /\ call[c].pc # "idle"
      /\ call' = [call EXCEPT ![c] = NoCall]
      /\ UNCHANGED <<credential, approval, grant, performed>>
  BY DEF Finalize
<1>2. k \in Key /\ Admitted(k) /\ CalledTool(c) \in Tools
  BY <1>1, CalledToolType
<1>3. invocation' = [invocation EXCEPT ![k] =
        [state |-> state, payload |-> invocation[k].payload, result |-> call[c].result]]
  BY DEF Finalize
<1>4. /\ invocation'[k] = [state |-> state, payload |-> invocation[k].payload,
                           result |-> call[c].result]
      /\ \A j \in Key : j # k => invocation'[j] = invocation[j]
  BY <1>2, <1>3 DEF IInv, TypeOK
<1>5. state \in {"COMPLETED", "FAILED"}
  OBVIOUS
<1> HIDE DEF state
<1>6. \A j \in Key : /\ invocation'[j].payload = invocation[j].payload
                     /\ Admitted(j)' <=> Admitted(j)
  BY <1>2, <1>4, <1>5 DEF Admitted
<1>7. /\ task' \in [state : {"ACTIVE", "PAUSED"}, builds : Nat, minutes : Nat,
                    deploys : Nat, failure : Fingerprints \cup {NoFailure},
                    repairs : Nat]
      /\ task'.builds = task.builds /\ task'.minutes = task.minutes
      /\ task'.deploys = task.deploys
      /\ task'.state = "ACTIVE" => task'.repairs < RepairThreshold
  <2>1. CASE call[c].outcome \in Code
    <3>1. task' = WithFailure(<<call[c].outcome, CalledTool(c)>>)
      BY <2>1 DEF Finalize
    <3>2. <<call[c].outcome, CalledTool(c)>> \in Fingerprints
      BY <1>2, <2>1 DEF Fingerprints
    <3> QED
      BY <3>1, <3>2, WithFailureFacts DEF IInv
  <2>2. CASE call[c].outcome \notin Code
    <3>1. task' = task
      BY <2>2 DEF Finalize
    <3> QED
      BY <3>1 DEF IInv, TypeOK, RepairLoopStops
  <2> QED
    BY <2>1, <2>2
<1>8. TypeOK'
  <2>1. invocation' \in [Key -> [state : {"none", "STARTED", "COMPLETED", "FAILED"},
                                payload : Payload \cup {NoPayload},
                                result : Approval \cup {NoApproval}]]
    BY <1>2, <1>3, <1>5 DEF IInv, TypeOK
  <2>2. call' \in [Call -> [pc : {"idle", "admitted", "executed"},
                           key : Key \cup {NoKey},
                           outcome : {"none", "ok", "retryable"} \cup Code,
                           result : Approval \cup {NoApproval}]]
    BY <1>1 DEF IInv, TypeOK, NoCall
  <2> QED
    BY <1>1, <1>7, <2>1, <2>2 DEF IInv, TypeOK
<1>9. RowsHavePayloads' /\ \A tool : AdmittedAs(tool)' = AdmittedAs(tool)
  BY <1>6, RowsFrame
<1>10. UsageCounts' /\ UsageWithinPolicy'
  BY <1>7, <1>9, UsageFrame
<1>11. ProtectedWasApproved' /\ DeniedHasNoGrant'
  BY <1>1, <1>6, ApprovalsUntouched
<1>12. \A d \in Call : call'[d].pc = "idle" \/ call'[d] = call[d]
  BY <1>1 DEF IInv, TypeOK, NoCall
<1>13. CallsWereAdmitted'
  BY <1>6, <1>12, CallsFrame
<1>14. RepairLoopStops'
  BY <1>7 DEF RepairLoopStops
<1> QED
  BY <1>8, <1>9, <1>10, <1>11, <1>13, <1>14 DEF IInv

-----------------------------------------------------------------------------
(* The steps of users, approvers and time.                                  *)

(* Deciding a request or its expiry changes one field of its row.           *)
LEMMA ApprovalRowFacts ==
  ASSUME TypeOK, NEW a \in Approval,
         NEW state \in {"absent", "PENDING", "GRANTED", "DENIED"}, NEW live \in BOOLEAN
  PROVE  /\ [approval EXCEPT ![a].state = state] \in
              [Approval -> [state : {"absent", "PENDING", "GRANTED", "DENIED"},
                            asks : Payload \cup {NoPayload},
                            from : Key \cup {NoKey}, live : BOOLEAN]]
         /\ [approval EXCEPT ![a].live = live] \in
              [Approval -> [state : {"absent", "PENDING", "GRANTED", "DENIED"},
                            asks : Payload \cup {NoPayload},
                            from : Key \cup {NoKey}, live : BOOLEAN]]
<1> DEFINE Rows == [state : {"absent", "PENDING", "GRANTED", "DENIED"},
                    asks : Payload \cup {NoPayload},
                    from : Key \cup {NoKey}, live : BOOLEAN]
<1>1. approval[a] \in Rows
  BY DEF TypeOK
<1>2. /\ [approval[a] EXCEPT !.state = state] \in Rows
      /\ [approval[a] EXCEPT !.live = live] \in Rows
  BY <1>1
<1>3. /\ [approval EXCEPT ![a].state = state]
            = [approval EXCEPT ![a] = [approval[a] EXCEPT !.state = state]]
      /\ [approval EXCEPT ![a].live = live]
            = [approval EXCEPT ![a] = [approval[a] EXCEPT !.live = live]]
  OBVIOUS
<1>4. approval \in [Approval -> Rows]
  BY DEF TypeOK
<1> HIDE DEF Rows
<1>5. \A row \in Rows : [approval EXCEPT ![a] = row] \in [Approval -> Rows]
  BY <1>4
<1>6. /\ [approval EXCEPT ![a].state = state] \in [Approval -> Rows]
      /\ [approval EXCEPT ![a].live = live] \in [Approval -> Rows]
  BY <1>2, <1>3, <1>5
<1> QED
  BY <1>6 DEF Rows

(* A step that changes the approvals alone, and keeps every granted request *)
(* granted for what it asks.                                                *)
LEMMA ApprovalStep ==
  ASSUME IInv, UNCHANGED <<task, credential, invocation, performed, call>>,
         approval' \in [Approval -> [state : {"absent", "PENDING", "GRANTED", "DENIED"},
                                    asks : Payload \cup {NoPayload},
                                    from : Key \cup {NoKey}, live : BOOLEAN]],
         grant' \in [Approval -> {"absent", "unconsumed"} \cup Key],
         \A a \in Approval :
           approval[a].state = "GRANTED" =>
             /\ approval'[a].state = "GRANTED"
             /\ approval'[a].asks = approval[a].asks
             /\ grant'[a] = grant[a],
         DeniedHasNoGrant'
  PROVE  IInv'
<1>1. TypeOK'
  BY DEF IInv, TypeOK
<1>2. /\ RowsHavePayloads' /\ UsageCounts' /\ UsageWithinPolicy' /\ RepairLoopStops'
      /\ \A k \in Key : Admitted(k)' <=> Admitted(k)
  BY BudgetUntouched
<1>3. CallsWereAdmitted'
  BY <1>2 DEF IInv, CallsWereAdmitted, Admitted
<1>4. ProtectedWasApproved'
  BY DEF IInv, ProtectedWasApproved
<1> QED
  BY <1>1, <1>2, <1>3, <1>4 DEF IInv

(* A step that changes the repair loop alone.                               *)
LEMMA RepairStep ==
  ASSUME IInv,
         UNCHANGED <<credential, invocation, approval, grant, performed, call>>,
         task' \in [state : {"ACTIVE", "PAUSED"}, builds : Nat, minutes : Nat,
                   deploys : Nat, failure : Fingerprints \cup {NoFailure},
                   repairs : Nat],
         task'.builds = task.builds, task'.minutes = task.minutes,
         task'.deploys = task.deploys,
         task'.state = "ACTIVE" => task'.repairs < RepairThreshold
  PROVE  IInv'
<1>1. TypeOK'
  BY DEF IInv, TypeOK
<1>2. \A k \in Key : Admitted(k)' <=> Admitted(k)
  BY DEF Admitted
<1>3. RowsHavePayloads' /\ \A tool : AdmittedAs(tool)' = AdmittedAs(tool)
  BY <1>2, RowsFrame
<1>4. UsageCounts' /\ UsageWithinPolicy'
  BY <1>3, UsageFrame
<1>5. ProtectedWasApproved' /\ DeniedHasNoGrant'
  BY ApprovalsUntouched
<1>6. CallsWereAdmitted'
  BY <1>2 DEF IInv, CallsWereAdmitted, Admitted
<1>7. RepairLoopStops'
  BY DEF RepairLoopStops
<1> QED
  BY <1>1, <1>3, <1>4, <1>5, <1>6, <1>7 DEF IInv

LEMMA NextIInv == IInv /\ [Next]_vars => IInv'
<1> SUFFICES ASSUME IInv, [Next]_vars PROVE IInv'
  OBVIOUS
<1>1. CASE ExpireCredential
  <2>1. TypeOK'
    BY <1>1 DEF IInv, TypeOK, ExpireCredential
  <2>2. UNCHANGED <<task, invocation, approval, grant, performed, call>>
    BY <1>1 DEF ExpireCredential
  <2>3. /\ RowsHavePayloads' /\ UsageCounts' /\ UsageWithinPolicy' /\ RepairLoopStops'
        /\ \A k \in Key : Admitted(k)' <=> Admitted(k)
    BY <2>2, BudgetUntouched
  <2>4. ProtectedWasApproved' /\ DeniedHasNoGrant'
    BY <2>2, ApprovalsUntouched
  <2>5. CallsWereAdmitted'
    BY <2>2 DEF IInv, CallsWereAdmitted, Admitted
  <2> QED
    BY <2>1, <2>3, <2>4, <2>5 DEF IInv
<1>2. CASE ResumeTask
  <2>1. /\ task' = [task EXCEPT !.state = "ACTIVE", !.repairs = 0,
                               !.failure = NoFailure]
        /\ UNCHANGED <<credential, invocation, approval, grant, performed, call>>
    BY <1>2 DEF ResumeTask
  <2>2. task' \in [state : {"ACTIVE", "PAUSED"}, builds : Nat, minutes : Nat,
                  deploys : Nat, failure : Fingerprints \cup {NoFailure},
                  repairs : Nat]
    BY <2>1 DEF IInv, TypeOK
  <2>3. /\ task'.builds = task.builds /\ task'.minutes = task.minutes
        /\ task'.deploys = task.deploys /\ task'.repairs = 0
    BY <2>1 DEF IInv, TypeOK
  <2> QED
    BY <2>1, <2>2, <2>3, RepairStep, PolicyAssumption
<1>3. ASSUME NEW f \in Reported, RecordFailure(f) PROVE IInv'
  <2>1. /\ f \in Fingerprints /\ task' = WithFailure(f)
        /\ UNCHANGED <<credential, invocation, approval, grant, performed, call>>
    BY <1>3, ReportedAssumption DEF RecordFailure, Fingerprints
  <2> QED
    BY <2>1, WithFailureFacts, RepairStep DEF IInv
<1>4. ASSUME NEW a \in Approval,
             ExpireApproval(a) \/ GrantApproval(a) \/ DenyApproval(a)
      PROVE  IInv'
  <2>1. CASE ExpireApproval(a)
    <3>1. /\ approval' = [approval EXCEPT ![a].live = FALSE]
          /\ UNCHANGED <<task, credential, invocation, grant, performed, call>>
      BY <2>1 DEF ExpireApproval
    <3>2. \A b \in Approval : /\ approval'[b].state = approval[b].state
                              /\ approval'[b].asks = approval[b].asks
      BY <3>1 DEF IInv, TypeOK
    <3>3. DeniedHasNoGrant'
      BY <3>1, <3>2 DEF IInv, DeniedHasNoGrant
    <3>4. approval' \in [Approval -> [state : {"absent", "PENDING", "GRANTED", "DENIED"},
                                     asks : Payload \cup {NoPayload},
                                     from : Key \cup {NoKey}, live : BOOLEAN]]
      BY <3>1, ApprovalRowFacts DEF IInv
    <3>5. grant' \in [Approval -> {"absent", "unconsumed"} \cup Key]
      BY <3>1 DEF IInv, TypeOK
    <3> QED
      BY <3>1, <3>2, <3>3, <3>4, <3>5, ApprovalStep
  <2>2. CASE GrantApproval(a)
    <3>1. /\ approval[a].state = "PENDING"
          /\ approval' = [approval EXCEPT ![a].state = "GRANTED"]
          /\ grant' = [grant EXCEPT ![a] = "unconsumed"]
          /\ UNCHANGED <<task, credential, invocation, performed, call>>
      BY <2>2 DEF GrantApproval
    <3>2. \A b \in Approval : b # a => approval'[b] = approval[b] /\ grant'[b] = grant[b]
      BY <3>1 DEF IInv, TypeOK
    <3>3. DeniedHasNoGrant'
      BY <3>1, <3>2 DEF IInv, DeniedHasNoGrant, TypeOK
    <3>4. approval' \in [Approval -> [state : {"absent", "PENDING", "GRANTED", "DENIED"},
                                     asks : Payload \cup {NoPayload},
                                     from : Key \cup {NoKey}, live : BOOLEAN]]
      BY <3>1, ApprovalRowFacts DEF IInv
    <3>5. grant' \in [Approval -> {"absent", "unconsumed"} \cup Key]
      BY <3>1 DEF IInv, TypeOK
    <3> QED
      BY <3>1, <3>2, <3>3, <3>4, <3>5, ApprovalStep
  <2>3. CASE DenyApproval(a)
    <3>1. /\ approval[a].state = "PENDING"
          /\ approval' = [approval EXCEPT ![a].state = "DENIED"]
          /\ UNCHANGED <<task, credential, invocation, grant, performed, call>>
      BY <2>3 DEF DenyApproval
    <3>2. \A b \in Approval : b # a => approval'[b] = approval[b]
      BY <3>1 DEF IInv, TypeOK
    <3>3. DeniedHasNoGrant'
      BY <3>1, <3>2 DEF IInv, DeniedHasNoGrant
    <3>4. approval' \in [Approval -> [state : {"absent", "PENDING", "GRANTED", "DENIED"},
                                     asks : Payload \cup {NoPayload},
                                     from : Key \cup {NoKey}, live : BOOLEAN]]
      BY <3>1, ApprovalRowFacts DEF IInv
    <3>5. grant' \in [Approval -> {"absent", "unconsumed"} \cup Key]
      BY <3>1 DEF IInv, TypeOK
    <3> QED
      BY <3>1, <3>2, <3>3, <3>4, <3>5, ApprovalStep
  <2> QED
    BY <1>4, <2>1, <2>2, <2>3
<1>5. ASSUME NEW c \in Call, NEW outcome \in {"ok", "retryable"} \cup Code,
             Execute(c, outcome)
      PROVE  IInv'
  <2>1. /\ call[c].pc # "idle" /\ Executed(c, outcome, NoApproval)
        /\ UNCHANGED <<task, credential, invocation, approval, grant>>
        /\ performed' \subseteq performed \cup {call[c].key}
    BY <1>5 DEF Execute
  <2> QED
    BY <2>1, ExecutedFacts, CallStep
<1>6. ASSUME NEW c \in Call, NEW code \in Code, RequestApprovalFails(c, code)
      PROVE  IInv'
  <2>1. /\ call[c].pc # "idle" /\ Executed(c, code, NoApproval)
        /\ UNCHANGED <<task, credential, invocation, approval, grant, performed>>
    BY <1>6 DEF RequestApprovalFails
  <2> QED
    BY <2>1, ExecutedFacts, CallStep
<1>7. ASSUME NEW c \in Call, CallEnds(c) PROVE IInv'
  <2>1. /\ call[c].pc # "idle" /\ call' = [call EXCEPT ![c] = NoCall]
        /\ UNCHANGED <<task, credential, invocation, approval, grant, performed>>
    BY <1>7 DEF CallEnds
  <2>2. /\ NoCall \in [pc : {"idle", "admitted", "executed"}, key : Key \cup {NoKey},
                       outcome : {"none", "ok", "retryable"} \cup Code,
                       result : Approval \cup {NoApproval}]
        /\ NoCall.pc = "idle"
    BY DEF NoCall
  <2> QED
    BY <2>1, <2>2, CallStep
<1>8. CASE UNCHANGED vars
  <2>1. \A k \in Key : Admitted(k)' <=> Admitted(k)
    BY <1>8 DEF vars, Admitted
  <2>2. UNCHANGED <<task, credential, invocation, approval, grant, performed, call>>
    BY <1>8 DEF vars
  <2>3. TypeOK'
    BY <2>2 DEF IInv, TypeOK
  <2>4. RowsHavePayloads' /\ UsageCounts' /\ UsageWithinPolicy' /\ RepairLoopStops'
    BY <2>2, BudgetUntouched
  <2>5. ProtectedWasApproved' /\ DeniedHasNoGrant'
    BY <2>2, ApprovalsUntouched
  <2>6. CallsWereAdmitted'
    BY <2>2 DEF IInv, CallsWereAdmitted, Admitted
  <2> QED
    BY <2>3, <2>4, <2>5, <2>6 DEF IInv
<1> QED
  BY <1>1, <1>2, <1>3, <1>4, <1>5, <1>6, <1>7, <1>8, AdmitStep, AdmitAgainStep,
     RequestApprovalStep, FinalizeStep DEF Next

-----------------------------------------------------------------------------
(* Every reachable state satisfies the inductive invariant.                 *)
THEOREM InvocationInvariance == Spec => []IInv
BY InitIInv, NextIInv, PTL DEF Spec

(* The variables keep their types: usage and repair counts never go below   *)
(* zero, and a consumed grant names an invocation of the task.              *)
THEOREM InvocationTypes == Spec => []TypeOK
<1>1. IInv => TypeOK
  BY DEF IInv
<1> QED
  BY <1>1, InvocationInvariance, PTL

(* A task never has more builds or deploys admitted than its policy allows, *)
(* however many calls run, repeat or crash.                                 *)
THEOREM BudgetHolds == Spec => []AdmissionsWithinBudget
<1>1. IInv => AdmissionsWithinBudget
  BY DEF IInv, UsageCounts, UsageWithinPolicy, AdmissionsWithinBudget
<1> QED
  BY <1>1, InvocationInvariance, PTL

(* Every protected invocation has an approval of its own, granted for its   *)
(* payload.                                                                 *)
THEOREM ApprovalsHold == Spec => []ProtectedWasApproved
<1>1. IInv => ProtectedWasApproved
  BY DEF IInv
<1> QED
  BY <1>1, InvocationInvariance, PTL

(* A denied request never has a grant.                                      *)
THEOREM DenialsHold == Spec => []DeniedHasNoGrant
<1>1. IInv => DeniedHasNoGrant
  BY DEF IInv
<1> QED
  BY <1>1, InvocationInvariance, PTL

(* An active task has not repeated a failure up to the threshold.           *)
THEOREM RepairLoopHolds == Spec => []RepairLoopStops
<1>1. IInv => RepairLoopStops
  BY DEF IInv
<1> QED
  BY <1>1, InvocationInvariance, PTL
=============================================================================
