-------------------------- MODULE MCOrchestration --------------------------
(* The workers of the instance to check, which are alike.                  *)
EXTENDS OrchestrationProps, TLC

CONSTANTS w1, w2

Symmetry == Permutations({w1, w2})
=============================================================================
