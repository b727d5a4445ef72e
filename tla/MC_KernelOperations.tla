-------------------------- MODULE MC_KernelOperations --------------------------
(* An instance of KernelOperations, with its delivery, for TLC.             *)
EXTENDS KernelOperations

CONSTANTS d1, c1, w1, w2, k1
=============================================================================
