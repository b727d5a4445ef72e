-------------------------- MODULE MC_KernelCommands --------------------------
(* Instances of KernelCommands for TLC.                                     *)
EXTENDS KernelCommands, TLC

CONSTANTS p1, p2, p3, k1, k2, k3, k4, k5, k6, k7, k8, k9, w1, w2, w3

Cmd(kind, actor, target, role) ==
  [kind |-> kind, actor |-> actor, scoped |-> TRUE, target |-> target,
   role |-> role]

(* Two owners who remove and suspend each other and themselves, one of whom *)
(* is made an admin meanwhile or gets the role it has; a second caller      *)
(* creates the same slug without the scope for it.                          *)
OwnerCommands ==
  (k1 :> Cmd("create", p1, p1, "owner")) @@
  (k2 :> [Cmd("create", p2, p2, "owner") EXCEPT !.scoped = FALSE]) @@
  (k3 :> Cmd("invite", p1, p2, "owner")) @@
  (k4 :> Cmd("accept", p2, p2, "viewer")) @@
  (k5 :> Cmd("remove", p1, p2, "viewer")) @@
  (k6 :> Cmd("suspend", p2, p1, "viewer")) @@
  (k7 :> Cmd("changeRole", p1, p2, "admin")) @@
  (k8 :> Cmd("remove", p1, p1, "viewer")) @@
  (k9 :> Cmd("changeRole", p1, p2, "owner"))

Symmetry == Permutations(Worker)
=============================================================================
