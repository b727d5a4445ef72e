------------------------- MODULE MC_GitOpsRepository -------------------------
(* An instance of GitOpsRepository for TLC: two releases share a path, one   *)
(* of them is rendered in two ways, and a third has a path of its own.      *)
EXTENDS GitOpsRepository

BundleOf(release, path, hash) == [release |-> release, path |-> path, hash |-> hash]
MC_Bundle == {BundleOf("r1", "p", "h1"), BundleOf("r1", "p", "h2"),
              BundleOf("r2", "p", "h3"), BundleOf("r3", "q", "h4")}
=============================================================================
