-------------------------- MODULE MC_AgentInvocation --------------------------
(* Instances of AgentInvocation for TLC.                                    *)
EXTENDS AgentInvocation, TLC

CONSTANTS k1, k2, k3, a1, c1, c2

ToolOfPayload == [short |-> "build", long |-> "build", live |-> "deploy",
                  other |-> "deploy", staging |-> "deploy", askLive |-> "ask",
                  logs |-> "read"]
Tooled == [p \in Payload |-> ToolOfPayload[p]]
BuildMinutes == [p \in Payload |-> CASE p = "short" -> 1 [] p = "long" -> 2
                                      [] OTHER -> 0]
AskedFor == [p \in Payload |-> IF p = "askLive" THEN "live" ELSE p]

Req(k, p, a) == [key |-> k, payload |-> p, grant |-> a]

(* Builds of different lengths and deploys of two protected payloads that   *)
(* compete for one approval, one deploy that needs none and a read.         *)
Requests ==
  {Req(k1, "askLive", NoApproval), Req(k1, "short", NoApproval),
   Req(k2, "short", NoApproval), Req(k2, "logs", NoApproval),
   Req(k3, "long", NoApproval), Req(k3, "staging", NoApproval)} \cup
  {Req(k2, "live", a) : a \in Approval} \cup
  {Req(k3, p, a) : p \in {"live", "other"}, a \in Approval}

ReportedFailures == {<<code, "build">> : code \in Code}

Symmetry == Permutations(Call)
=============================================================================
