------------------------------ MODULE Admission ------------------------------
(***************************************************************************)
(* What the overlap control promises its users: a counting semaphore per   *)
(* task.  An execution starts only while fewer than the limit are running, *)
(* executions end one at a time, and only a restart clears them all.       *)
(***************************************************************************)
EXTENDS Integers

CONSTANTS Task, Limit(_), Unbounded(_)

VARIABLE running  \* task -> executions under way

Init == running = [t \in Task |-> 0]

Start(t) ==
  /\ Unbounded(t) \/ running[t] < Limit(t)
  /\ running' = [running EXCEPT ![t] = @ + 1]

End(t) ==
  /\ running[t] > 0
  /\ running' = [running EXCEPT ![t] = @ - 1]

Clear == running' = [t \in Task |-> 0]

Next == Clear \/ \E t \in Task : Start(t) \/ End(t)

Spec == Init /\ [][Next]_running
=============================================================================
