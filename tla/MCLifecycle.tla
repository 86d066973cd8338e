---------------------------- MODULE MCLifecycle ----------------------------
(* The clients of the instance to check.                                   *)
EXTENDS LifecycleProps

CONSTANTS c1, c2
=============================================================================
