------------------------- MODULE MC_RuntimeDelivery -------------------------
(* Instances of RuntimeDelivery for TLC.                                    *)
EXTENDS RuntimeDelivery, TLC

CONSTANTS e1, e2, r1, r2, r3, small, big, other, k1, k2, k3, k4,
          k5, w1, w2, o1, o2

Deploy(e, s) == [kind |-> "deploy", env |-> e, content |-> s]
Rollback(e, k) == [kind |-> "rollback", env |-> e, target |-> k]

(* One environment: two contents and a rollback to the first.               *)
SagaCommands ==
  (k1 :> Deploy(e1, small)) @@ (k2 :> Deploy(e1, big)) @@
  (k3 :> Rollback(e1, k1))

(* Two contents of one environment, the second larger.                      *)
GrowCommands == (k1 :> Deploy(e1, small)) @@ (k2 :> Deploy(e1, big))

(* Two environments on two cells, the second with room for both until the   *)
(* first one grows; two keys ask for the same content.  The two contents    *)
(* that the first environment resizes between are of one class; the third   *)
(* is of a class that only the second cell supports, and refused wherever   *)
(* the environment is placed with the other class.                          *)
CapacityCommands ==
  (k1 :> Deploy(e1, small)) @@ (k2 :> Deploy(e1, other)) @@
  (k3 :> Deploy(e2, big)) @@ (k4 :> Deploy(e1, small)) @@
  (k5 :> Deploy(e1, big))

MCUnits == (small :> 1) @@ (big :> 2)
MCClass == (small :> "eu shared") @@ (big :> "eu shared")
OneCellClass == (1 :> {"eu shared"})
OneCapacity == (1 :> 2)

CapacityUnits == (small :> 1) @@ (big :> 3) @@ (other :> 2)
CapacityClass ==
  (small :> "eu shared") @@ (other :> "eu shared") @@ (big :> "eu dedicated")
TwoCellClass == (1 :> {"eu shared"}) @@ (2 :> {"eu shared", "eu dedicated"})
TwoCapacity == (1 :> 2) @@ (2 :> 4)

Symmetry == Permutations(Release) \cup Permutations(Worker)
              \cup Permutations(Observer)
=============================================================================
