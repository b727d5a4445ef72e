---------------------------- MODULE ManifestLedger ----------------------------
(***************************************************************************)
(* What the GitOps repository promises of its main branch: each commit      *)
(* publishes bundles of releases that had none, what is published for a     *)
(* release never changes, and the manifests at a path change only to those  *)
(* of a release that the same commit publishes.                             *)
(***************************************************************************)
CONSTANTS Bundle, NoBundle

VARIABLES
  published,   \* [Release -> the bundle published for it]
  current      \* [Path -> the bundle whose manifests are there]

manifestVars == <<published, current>>

Releases == {b.release : b \in Bundle}
Paths == {b.path : b \in Bundle}

ManifestInit ==
  /\ published = [r \in Releases |-> NoBundle]
  /\ current = [p \in Paths |-> NoBundle]

Publish(new) ==
  /\ new # {}
  /\ \A b, c \in new : b.release = c.release => b = c
  /\ \A b \in new : published[b.release] = NoBundle
  /\ published' = [r \in Releases |-> IF \E b \in new : b.release = r
                                        THEN CHOOSE b \in new : b.release = r
                                        ELSE published[r]]
  /\ current' \in [Paths -> Bundle \cup {NoBundle}]
  /\ \A p \in Paths : IF \E b \in new : b.path = p
                        THEN current'[p] \in {b \in new : b.path = p}
                        ELSE current'[p] = current[p]

ManifestSpec == ManifestInit /\ [][\E new \in SUBSET Bundle : Publish(new)]_manifestVars
=============================================================================
