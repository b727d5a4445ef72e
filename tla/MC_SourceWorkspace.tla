-------------------------- MODULE MC_SourceWorkspace --------------------------
(* An instance of SourceWorkspace for TLC.                                  *)
EXTENDS SourceWorkspace, TLC

Symmetry == Permutations(Workspace) \cup Permutations(Executor)
=============================================================================
