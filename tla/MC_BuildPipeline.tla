--------------------------- MODULE MC_BuildPipeline ---------------------------
(* Instances of BuildPipeline for TLC.                                      *)
EXTENDS BuildPipeline, TLC

CONSTANTS i1, i2, b1, b2, b3, k1, k2, k3, k4, w1, w2, c1, c2

(* Two requests of one identity and two retries of what the first was       *)
(* answered with.                                                           *)
Commands ==
  (k1 :> [kind |-> "request", identity |-> i1]) @@
  (k2 :> [kind |-> "request", identity |-> i1]) @@
  (k3 :> [kind |-> "retry", of |-> k1]) @@
  (k4 :> [kind |-> "retry", of |-> k2])

Symmetry == Permutations(Build) \cup Permutations(Runner)
=============================================================================
