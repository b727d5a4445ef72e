\* Builds and deploys that compete for the budget and an approval, and the repair loop.
SPECIFICATION Spec
CONSTANTS
  k1 = k1  k2 = k2  k3 = k3  a1 = a1  c1 = c1  c2 = c2
  ToolOf <- Tooled
  Minutes <- BuildMinutes
  Asked <- AskedFor
  Reported <- ReportedFailures
  Code = {"CONFLICT"}
  Key = {k1, k2, k3}
  Payload = {"short", "long", "other", "staging", "logs", "askLive", "live"}
  Protected = {"live", "other"}
  Request <- Requests
  Approval = {a1}
  Call = {c1, c2}
  MaxBuilds = 2
  MaxMinutes = 2
  MaxDeploys = 2
  RepairThreshold = 2
SYMMETRY Symmetry
INVARIANTS ProtectedWasApproved AdmissionsWithinBudget RepairLoopStops
CHECK_DEADLOCK FALSE
