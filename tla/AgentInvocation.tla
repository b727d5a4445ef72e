---------------------------- MODULE AgentInvocation ----------------------------
(***************************************************************************)
(* Tool invocations of one agent task (internal/agent/application): the     *)
(* admission transaction of Invoke, the tool that runs outside any          *)
(* transaction, the transaction that records its outcome, and the           *)
(* approvals, the budget and the repair loop that govern them.              *)
(*                                                                         *)
(* Every transaction is one step: the memory store holds a mutex and the    *)
(* PostgreSQL store runs them SERIALIZABLE.  Calls interleave between their *)
(* transactions, a call may end (crash, cancelled context, a transaction    *)
(* that fails) after any of them, and an agent repeats a call with its      *)
(* idempotency key at any time, also while the first one is running.  The   *)
(* providers that perform the tools are external: they act once per key,    *)
(* and an error does not say whether they have acted.                       *)
(*                                                                         *)
(* A call that is refused (credential, pause, entitlement, approval,        *)
(* budget, another payload under the key) or replayed changes nothing but   *)
(* the audit trail, which nothing reads; it is no step here.  No code       *)
(* cancels or completes a task or revokes a principal.                      *)
(***************************************************************************)
EXTENDS Integers, FiniteSets

CONSTANTS
  Key,        \* idempotency keys the agent uses in the task
  Payload,    \* tools with their arguments, as fingerprinted
  ToolOf,     \* [Payload -> Tools]
  Minutes,    \* [Payload -> estimated build minutes]
  Protected,  \* payloads that need an approval (production deploy, rollback)
  Asked,      \* [Payload -> the payload that a request for approval is for]
  Request,    \* what the agent may call with: key, payload and grant
  Approval,   \* ids of approval requests, and of the grants for them
  Call,       \* concurrent Invoke calls
  Code,       \* error codes of failures that are not retryable
  Reported,   \* fingerprints that RecordFailure is called with
  MaxBuilds, MaxMinutes, MaxDeploys, RepairThreshold   \* the BudgetPolicy

Tools == {"read", "build", "deploy", "ask", "write"}
NoApproval == "no approval"
NoKey == "no key"
NoPayload == "no payload"

ASSUME PayloadAssumption ==
  /\ ToolOf \in [Payload -> Tools]
  /\ Minutes \in [Payload -> Nat]
  /\ Asked \in [Payload -> Payload]
  /\ Protected \subseteq {p \in Payload : ToolOf[p] = "deploy"}
ASSUME RequestAssumption ==
  Request \subseteq [key : Key, payload : Payload,
                     grant : Approval \cup {NoApproval}]
ASSUME PolicyAssumption ==
  /\ MaxBuilds \in Nat /\ MaxMinutes \in Nat /\ MaxDeploys \in Nat
  /\ RepairThreshold \in Nat \ {0}
ASSUME ReportedAssumption == Reported \subseteq Code \X Tools
ASSUME SentinelAssumption ==
  /\ {"absent", "unconsumed", NoKey} \cap Key = {}
  /\ NoApproval \notin Approval /\ NoPayload \notin Payload

VARIABLES
  task,        \* state, usage of the budget, repair loop
  credential,  \* of the agent's principal
  invocation,  \* [Key -> the invocation row of the key]
  approval,    \* [Approval -> the approval request row]
  grant,       \* [Approval -> its grant: absent, unconsumed, or the key that
               \* consumed it (the row holds the time of its consumption)]
  performed,   \* external: keys whose side effect a provider has performed
  call         \* [Call -> what a running Invoke holds]

vars == <<task, credential, invocation, approval, grant, performed, call>>

Fingerprints == Code \X Tools
NoFailure == <<"none", "none">>
NoInvocation == [state |-> "none", payload |-> NoPayload, result |-> NoApproval]
NoCall == [pc |-> "idle", key |-> NoKey, outcome |-> "none",
           result |-> NoApproval]
NotAsked == [state |-> "absent", asks |-> NoPayload, from |-> NoKey,
             live |-> TRUE]

TypeOK ==
  /\ task \in [state : {"ACTIVE", "PAUSED"}, builds : Nat, minutes : Nat,
               deploys : Nat, failure : Fingerprints \cup {NoFailure},
               repairs : Nat]
  /\ credential \in {"valid", "expired"}
  /\ invocation \in [Key -> [state : {"none", "STARTED", "COMPLETED", "FAILED"},
                             payload : Payload \cup {NoPayload},
                             result : Approval \cup {NoApproval}]]
  /\ approval \in [Approval -> [state : {"absent", "PENDING", "GRANTED", "DENIED"},
                                asks : Payload \cup {NoPayload},
                                from : Key \cup {NoKey}, live : BOOLEAN]]
  /\ grant \in [Approval -> {"absent", "unconsumed"} \cup Key]
  /\ performed \subseteq Key
  /\ call \in [Call -> [pc : {"idle", "admitted", "executed"},
                        key : Key \cup {NoKey},
                        outcome : {"none", "ok", "retryable"} \cup Code,
                        result : Approval \cup {NoApproval}]]

Init ==
  /\ task = [state |-> "ACTIVE", builds |-> 0, minutes |-> 0, deploys |-> 0,
             failure |-> NoFailure, repairs |-> 0]
  /\ credential = "valid"
  /\ invocation = [k \in Key |-> NoInvocation]
  /\ approval = [a \in Approval |-> NotAsked]
  /\ grant = [a \in Approval |-> "absent"]
  /\ performed = {}
  /\ call = [c \in Call |-> NoCall]

Admitted(k) == invocation[k].state # "none"

-----------------------------------------------------------------------------
(* Time passes the principal's CredentialExpiresAt or a request's ExpiresAt *)
(* (its grant has the same).                                                *)
ExpireCredential ==
  /\ credential' = "expired"
  /\ UNCHANGED <<task, invocation, approval, grant, performed, call>>

ExpireApproval(a) ==
  /\ approval[a].state # "absent"
  /\ approval' = [approval EXCEPT ![a].live = FALSE]
  /\ UNCHANGED <<task, credential, invocation, grant, performed, call>>

(* The checks that come before the idempotency key is looked up.            *)
MayInvoke(p) ==
  /\ credential = "valid"
  /\ task.state = "PAUSED" => ToolOf[p] = "read"

ApprovedAgain(r) ==    \* mutant
  r.payload \in Protected =>
    /\ r.grant \in Approval
    /\ grant[r.grant] # "absent"
    /\ approval[r.grant].live
    /\ approval[r.grant].asks = r.payload

(* consumeApproval: the grant exists, is for this payload and is neither    *)
(* consumed nor expired.                                                    *)
Approved(r) ==
  r.payload \in Protected =>
    /\ r.grant \in Approval
    /\ grant[r.grant] = "unconsumed"
    /\ approval[r.grant].live
    /\ approval[r.grant].asks = r.payload

InBudgetOffByOne(p) ==    \* mutant
  /\ ToolOf[p] = "build" => /\ task.builds <= MaxBuilds
                            /\ task.minutes <= MaxMinutes
  /\ ToolOf[p] = "deploy" => task.deploys <= MaxDeploys

(* reserveBudget: the limits, and the usage that is added.                  *)
InBudget(p) ==
  /\ ToolOf[p] = "build" => /\ task.builds + 1 <= MaxBuilds
                            /\ task.minutes + Minutes[p] <= MaxMinutes
  /\ ToolOf[p] = "deploy" => task.deploys + 1 <= MaxDeploys

Charged(p) ==
  CASE ToolOf[p] = "build" -> [task EXCEPT !.builds = @ + 1,
                                           !.minutes = @ + Minutes[p]]
    [] ToolOf[p] = "deploy" -> [task EXCEPT !.deploys = @ + 1]
    [] OTHER -> task

Running(c, k) ==
  call' = [call EXCEPT ![c] = [pc |-> "admitted", key |-> k, outcome |-> "none",
                               result |-> NoApproval]]

(* Invoke, first transaction, for a key that is new in the task.            *)
Admit(c, r) ==
  /\ call[c].pc = "idle"
  /\ MayInvoke(r.payload)
  /\ ~Admitted(r.key)
  /\ Approved(r)
  /\ InBudget(r.payload)
  /\ task' = Charged(r.payload)
  /\ grant' = IF r.payload \in Protected
                THEN [grant EXCEPT ![r.grant] = r.key] ELSE grant
  /\ invocation' = [invocation EXCEPT ![r.key] =
                      [state |-> "STARTED", payload |-> r.payload,
                       result |-> NoApproval]]
  /\ Running(c, r.key)
  /\ UNCHANGED <<credential, approval, performed>>

(* ... and for an invocation that has no response yet: the tool runs again  *)
(* under the approval and the budget of the first call.                     *)
AdmitAgain(c, r) ==
  /\ call[c].pc = "idle"
  /\ MayInvoke(r.payload)
  /\ invocation[r.key].state = "STARTED"
  /\ invocation[r.key].payload = r.payload
  /\ Running(c, r.key)
  /\ UNCHANGED <<task, credential, invocation, approval, grant, performed>>

CalledTool(c) == ToolOf[invocation[call[c].key].payload]

Executed(c, outcome, result) ==
  call' = [call EXCEPT ![c] = [pc |-> "executed", key |-> @.key,
                               outcome |-> outcome, result |-> result]]

(* execute: a provider performs the tool.  Whatever it answers to a tool    *)
(* that writes, it may have done so.                                        *)
Execute(c, outcome) ==
  /\ call[c].pc = "admitted"
  /\ CalledTool(c) # "ask"
  /\ CASE CalledTool(c) = "read" -> performed' = performed
       [] outcome = "ok"         -> performed' = performed \cup {call[c].key}
       [] OTHER                  -> performed' \in {performed,
                                                    performed \cup {call[c].key}}
  /\ Executed(c, outcome, NoApproval)
  /\ UNCHANGED <<task, credential, invocation, approval, grant>>

(* execute, platform_request_approval: a transaction of its own inserts a   *)
(* request with a new id, or fails.                                         *)
RequestApproval(c, a) ==
  /\ call[c].pc = "admitted"
  /\ CalledTool(c) = "ask"
  /\ approval[a].state = "absent"
  /\ approval' = [approval EXCEPT ![a] =
                    [state |-> "PENDING", live |-> TRUE, from |-> call[c].key,
                     asks |-> Asked[invocation[call[c].key].payload]]]
  /\ Executed(c, "ok", a)
  /\ UNCHANGED <<task, credential, invocation, grant, performed>>

RequestApprovalFails(c, code) ==
  /\ call[c].pc = "admitted"
  /\ CalledTool(c) = "ask"
  /\ Executed(c, code, NoApproval)
  /\ UNCHANGED <<task, credential, invocation, approval, grant, performed>>

WithFailureUnpaused(f) ==    \* mutant
  LET n == IF task.failure = f THEN task.repairs + 1 ELSE 1 IN
  [task EXCEPT !.failure = f, !.repairs = n,
               !.state = IF n > RepairThreshold THEN "PAUSED" ELSE @]

(* The repair loop counts failures that repeat.                             *)
WithFailure(f) ==
  LET n == IF task.failure = f THEN task.repairs + 1 ELSE 1 IN
  [task EXCEPT !.failure = f, !.repairs = n,
               !.state = IF n >= RepairThreshold THEN "PAUSED" ELSE @]

(* finalize: the response and the state of the invocation are overwritten,  *)
(* whatever they are by now; a failure that is not retryable is counted.    *)
Finalize(c) ==
  /\ call[c].pc = "executed"
  /\ invocation' = [invocation EXCEPT ![call[c].key] =
       [state |-> IF call[c].outcome = "ok" THEN "COMPLETED" ELSE "FAILED",
        payload |-> @.payload, result |-> call[c].result]]
  /\ task' = IF call[c].outcome \in Code
               THEN WithFailure(<<call[c].outcome, CalledTool(c)>>) ELSE task
  /\ call' = [call EXCEPT ![c] = NoCall]
  /\ UNCHANGED <<credential, approval, grant, performed>>

CallEnds(c) ==
  /\ call[c].pc # "idle"
  /\ call' = [call EXCEPT ![c] = NoCall]
  /\ UNCHANGED <<task, credential, invocation, approval, grant, performed>>

-----------------------------------------------------------------------------
GrantApproval(a) ==
  /\ approval[a].state = "PENDING"
  /\ approval[a].live
  /\ approval' = [approval EXCEPT ![a].state = "GRANTED"]
  /\ grant' = [grant EXCEPT ![a] = "unconsumed"]
  /\ UNCHANGED <<task, credential, invocation, performed, call>>

DenyApproval(a) ==
  /\ approval[a].state = "PENDING"
  /\ approval' = [approval EXCEPT ![a].state = "DENIED"]
  /\ UNCHANGED <<task, credential, invocation, grant, performed, call>>

ResumeTask ==
  /\ task.state = "PAUSED"
  /\ task' = [task EXCEPT !.state = "ACTIVE", !.repairs = 0,
                          !.failure = NoFailure]
  /\ UNCHANGED <<credential, invocation, approval, grant, performed, call>>

(* Bound: failures recorded for a task that is paused already.              *)
FailureBound == RepairThreshold

(* RecordFailure, of a failure that is not the platform's.                  *)
RecordFailure(f) ==
  /\ task.repairs <= FailureBound
  /\ task' = WithFailure(f)
  /\ UNCHANGED <<credential, invocation, approval, grant, performed, call>>

Next ==
  \/ ExpireCredential \/ ResumeTask
  \/ \E f \in Reported : RecordFailure(f)
  \/ \E a \in Approval : ExpireApproval(a) \/ GrantApproval(a) \/ DenyApproval(a)
  \/ \E c \in Call :
       \/ \E r \in Request : Admit(c, r) \/ AdmitAgain(c, r)
       \/ \E outcome \in {"ok", "retryable"} \cup Code : Execute(c, outcome)
       \/ \E a \in Approval : RequestApproval(c, a)
       \/ \E code \in Code : RequestApprovalFails(c, code)
       \/ Finalize(c) \/ CallEnds(c)

Spec == Init /\ [][Next]_vars

-----------------------------------------------------------------------------
AdmittedAs(tool) ==
  {k \in Key : Admitted(k) /\ ToolOf[invocation[k].payload] = tool}

(* Concurrent calls, repeated calls and calls that crash between their two  *)
(* transactions never admit more builds or deploys than the task's policy   *)
(* allows.                                                                  *)
AdmissionsWithinBudget ==
  /\ Cardinality(AdmittedAs("build")) <= MaxBuilds
  /\ Cardinality(AdmittedAs("deploy")) <= MaxDeploys

(* Each protected invocation has an approval of its own, granted for        *)
(* exactly its payload: no approval is spent twice and none is lost when    *)
(* calls with different keys race for it, repeat or crash.                  *)
ProtectedWasApproved ==
  \A k \in Key : invocation[k].payload \in Protected =>
    \E a \in Approval : /\ grant[a] = k
                        /\ approval[a].state = "GRANTED"
                        /\ approval[a].asks = invocation[k].payload

(* Of two approvers who decide one request at once, one decides: a request  *)
(* that was denied leaves no grant behind.                                  *)
DeniedHasNoGrant ==
  \A a \in Approval : grant[a] # "absent" => approval[a].state = "GRANTED"

(* A task that is active has not repeated one failure up to the threshold,  *)
(* although failures are counted by calls that end after it was paused and  *)
(* after it was resumed.                                                    *)
RepairLoopStops ==
  task.state = "ACTIVE" => task.repairs < RepairThreshold
=============================================================================
