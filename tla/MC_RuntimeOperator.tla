-------------------------- MODULE MC_RuntimeOperator --------------------------
(* Instances of RuntimeOperator for TLC.                                    *)
EXTENDS RuntimeOperator, TLC

CONSTANT o1
=============================================================================
