---------------------------- MODULE MC_Commerce ----------------------------
(* An instance of the commerce modules for TLC.                             *)
EXTENDS CommerceUsage, CommerceMetering, TLC

CONSTANTS t1, p1, p2, k1, k2, k3, w1, w2

(* The second plan includes nothing, prices by pairs and charges for        *)
(* failures of the user.                                                    *)
Basic == [limit |-> 2, chargeFailures |-> FALSE, included |-> (1 :> 2 @@ 2 :> 0),
          prices |-> (1 :> [minor |-> 3, per |-> 2])]
Paid == [limit |-> 1, chargeFailures |-> TRUE, included |-> (1 :> 0 @@ 2 :> 1),
         prices |-> (1 :> [minor |-> 1, per |-> 1]) @@ (2 :> [minor |-> 1, per |-> 3])]
MCPlanSpec == {Basic, Paid}

Usage(key, resource, kind, quantity) ==
  [key |-> <<"client", key>>, resource |-> resource, meter |-> 1, kind |-> kind,
   quantity |-> quantity, start |-> 0, end |-> 1, occurred |-> 1, outcome |-> "none"]
MCEvent == {Usage(1, 1, "STANDARD", 3), Usage(1, 1, "STANDARD", 4),
            Usage(2, 2, "STANDARD", 1), Usage(3, 1, "CREDIT", -3)}

Build(outcome, finished, values) ==
  [key |-> "b", build |-> 1, outcome |-> outcome, started |-> 0,
   finished |-> finished, values |-> values]
MCReport == {Build("SUCCEEDED", 1, <<1, 2>>), Build("SUCCEEDED", 1, <<2, 0>>),
             Build("USER_FAILED", 1, <<1, 0>>), Build("PLATFORM_FAILED", 1, <<1, 0>>),
             Build("CANCELED", 2, <<1, 0>>)}

MCCommand == {[resource |-> 1, meter |-> 1, start |-> 0, end |-> 1, observed |-> n] :
                n \in {2, 5}}

Observed(at, replicas, suspended) ==
  [at |-> at, replicas |-> replicas, weight |-> 2, suspended |-> suspended]
MCObservation == {Observed(at, n, FALSE) : at \in {0, 2, 3}, n \in {-1, 1, 2}}
                   \cup {Observed(at, 1, TRUE) : at \in {2, 4}}

(* The calculation of runtime usage is evaluated over every list of at most *)
(* three of these observations and every window.                            *)
ASSUME MeteringAssumption == UnitSecondsAreExact

Symmetry == Permutations(Plan) \cup Permutations(Key) \cup Permutations(Worker)
=============================================================================
