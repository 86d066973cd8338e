---------------------------- MODULE MCThreadPool ----------------------------
(* The instance of the executors and the thread pool.                       *)
EXTENDS ThreadPoolProps, TLC

CONSTANTS cmd, req, w1

Kinds == cmd :> "shell" @@ req :> "http"
TwoOfCmd == cmd :> 2 @@ req :> 1
SomeDefs == {[soft |-> TRUE, decodes |-> TRUE], [soft |-> FALSE, decodes |-> FALSE]}
=============================================================================
