-------------------------- MODULE ThreadPoolProps --------------------------
(***************************************************************************)
(* What the executors and the thread pool promise.                         *)
(***************************************************************************)
EXTENDS ThreadPool

(* Every variable has its type, and the jobs in the channel are exactly    *)
(* the executions that wait for a thread.                                  *)
PoolTypeOK ==
  /\ def \in Defs
  /\ run \in [Exec -> RunState]
  /\ child \in [Exec -> {"none", "running", "asked", "zombie", "gone"}]
  /\ heir \subseteq Exec /\ flag \subseteq Exec /\ gap \subseteq Task
  /\ lease \in [Task -> Nat] /\ \A t \in Task : lease[t] <= Runs[t]
  /\ channel \in Seq(Exec) /\ thread \in [Thread -> Exec \cup {None, Exited}]
  /\ row \in [Task -> {"pending", "running", "ended"}]
  /\ {channel[i] : i \in 1..Len(channel)} = {e \in Exec : run[e].pc = "queued"}

(* A crash and a restart never lead to two processes of one task, unless   *)
(* the row never got the lease of the first one.                           *)
NoSecondChild ==
  \A t \in Task \ gap :
    Cardinality({n \in 1..Runs[t] : Alive(<<t, n>>)}) <= 1

(* An execution that has come to an end leaves no process of its own:      *)
(* the child has been waited for, however the execution ended.             *)
NoChildLeft ==
  \A e \in Exec : run[e].pc \in {"done", "over"} => child[e] \in {"none", "gone"}

(* A command is a success only if its own exit code says so: not when it   *)
(* was killed, nor when it ended only after its wait had been given up.    *)
SuccessIsEarned ==
  \A e \in Exec : Kind[e[1]] = "shell" /\ run[e].verdict = "ok" =>
    run[e].status = "zero" /\ def.decodes

(* Every execution begun comes to an end, or is lost with the daemon, even *)
(* if its child ignores SIGTERM and its grandchildren hold its pipes.      *)
ExecutionEnds ==
  \A e \in Exec : run[e].pc = "start" ~> run[e].pc \in {"done", "over", "lost"}

(* Every job submitted is taken by a thread, or lost with the daemon.      *)
JobTaken == \A e \in Exec : run[e].pc = "queued" ~> run[e].pc # "queued"
=============================================================================
