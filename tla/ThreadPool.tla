----------------------------- MODULE ThreadPool -----------------------------
(***************************************************************************)
(* XHJOB_POOL_MODE=thread: a fixed number of OS threads takes executions   *)
(* from an unbounded channel and blocks on each.  Around it the little of  *)
(* the daemon that decides whether a task is executed again: the state of  *)
(* its row, the end of a future, a crash, and the start that resets the    *)
(* Running rows whose lease names no living process.  One instance of a    *)
(* task at a time (max_instances = 1).                                     *)
(***************************************************************************)
EXTENDS Executor

CONSTANTS
  Thread,
  None,
  MaxCrashes   \* bound

ASSUME PoolAssumption == None \notin Exec /\ MaxCrashes \in Nat

VARIABLES
  channel,  \* the jobs no thread has taken
  thread,   \* thread -> the execution it runs, None, or Exited
  row,      \* task -> pending, running or ended
  up,       \* the daemon runs
  crashes

poolVars == <<channel, thread, row, up, crashes>>
vars == <<execVars, poolVars>>

Exited == <<>>

Init ==
  /\ ExecInit
  /\ channel = <<>>
  /\ thread = [w \in Thread |-> None]
  /\ row = [t \in Task |-> "pending"]
  /\ up = TRUE /\ crashes = 0

Held(e) == run[e].pc \in Busy \cup {"queued"}

(* process_one marks the row Running and hands its future to the pool.     *)
Submit(e) ==
  /\ up /\ row[e[1]] = "pending"
  /\ On(e, "idle") /\ \A n \in 1..(e[2] - 1) : ~On(<<e[1], n>>, "idle")
  /\ ~\E n \in 1..Runs[e[1]] : Held(<<e[1], n>>)
  /\ row' = [row EXCEPT ![e[1]] = "running"]
  /\ Go(e, "queued")
  /\ channel' = Append(channel, e)
  /\ UNCHANGED <<def, child, heir, flag, lease, gap, thread, up, crashes>>

(* A slip to detect: the job stays in the channel for another thread.      *)
TakePeek(w) ==
  /\ thread[w] = None /\ channel # <<>>
  /\ Go(Head(channel), "start")
  /\ thread' = [thread EXCEPT ![w] = Head(channel)]
  /\ UNCHANGED <<def, child, heir, flag, lease, gap, channel, row, up, crashes>>

Take(w) ==
  /\ thread[w] = None /\ channel # <<>>
  /\ Go(Head(channel), "start")
  /\ thread' = [thread EXCEPT ![w] = Head(channel)]
  /\ channel' = Tail(channel)
  /\ UNCHANGED <<def, child, heir, flag, lease, gap, row, up, crashes>>

Execute(w) ==
  /\ thread[w] \in Exec
  /\ ExecuteStep(thread[w])
  /\ UNCHANGED poolVars

Process(e) == ProcessStep(e) /\ UNCHANGED poolVars

(* What the daemon knew of an execution is dropped with it.                *)
Dropped(pc) == [NoRun EXCEPT !.pc = pc]

(* The future ends: the row is retried or has come to its end.             *)
Settle(w) ==
  /\ thread[w] \in Exec /\ On(thread[w], "done")
  /\ \E s \in IF run[thread[w]].verdict \in {"ok", "cancelled"} THEN {"ended"}
                                                     ELSE {"pending", "ended"} :
       row' = [row EXCEPT ![thread[w][1]] = s]
  /\ run' = [run EXCEPT ![thread[w]] = Dropped("over")]
  /\ flag' = flag \ {thread[w]}
  /\ thread' = [thread EXCEPT ![w] = None]
  /\ UNCHANGED <<def, child, heir, lease, gap, channel, up, crashes>>

(* kill_on_drop: the dropped Child is killed, tokio reaps it.              *)
DropChild(e) ==
  /\ child' = [child EXCEPT ![e] = IF @ = "none" THEN @ ELSE "gone"]
  /\ run' = [run EXCEPT ![e] = Dropped("over")]
  /\ flag' = flag \ {e} /\ heir' = heir \ {e}

Panics(w) ==
  /\ "panic" \in Faults
  /\ thread[w] \in Exec /\ run[thread[w]].pc \in Busy
  /\ DropChild(thread[w])
  /\ UNCHANGED <<def, lease, gap, channel, row, up, crashes>>

(* A slip to detect: a panic ends the worker's loop.                       *)
JobPanicsThrough(w) ==
  Panics(w) /\ thread' = [thread EXCEPT ![w] = Exited]

(* catch_unwind keeps the worker; the row stays Running.                   *)
JobPanics(w) ==
  Panics(w) /\ thread' = [thread EXCEPT ![w] = None]

(* signal_cancel finds the flag of an execution that has begun.            *)
SignalCancel(e) ==
  /\ up /\ run[e].pc \in Busy /\ e \notin flag
  /\ flag' = flag \cup {e}
  /\ UNCHANGED <<def, run, child, heir, lease, gap, poolVars>>

(* SIGKILL to the daemon: children in process groups of their own go on,   *)
(* and one just spawned has no lease yet.                                  *)
Crash ==
  /\ up /\ "crash" \in Faults /\ crashes < MaxCrashes
  /\ up' = FALSE /\ crashes' = crashes + 1
  /\ channel' = <<>> /\ thread' = [w \in Thread |-> None]
  /\ gap' = gap \cup {e[1] : e \in {x \in Exec : On(x, "lease")}}
  /\ run' = [e \in Exec |-> IF Held(e) THEN Dropped("lost") ELSE run[e]]
  /\ child' = [e \in Exec |-> IF child[e] = "zombie" THEN "gone" ELSE child[e]]
  /\ heir' = {} /\ flag' = {}
  /\ UNCHANGED <<def, lease, row>>

OrphanOf(t) == lease[t] # 0 /\ Alive(<<t, lease[t]>>)

ResetRunningToPending ==
  row' = [t \in Task |-> IF row[t] = "running" /\ ~OrphanOf(t) THEN "pending" ELSE row[t]]

Restart ==
  /\ ~up /\ up' = TRUE
  /\ ResetRunningToPending
  /\ UNCHANGED <<execVars, channel, thread, crashes>>

-----------------------------------------------------------------------------
Next ==
  \/ \E e \in Exec : Submit(e) \/ SignalCancel(e) \/ Process(e)
  \/ \E w \in Thread : Take(w) \/ Execute(w) \/ Settle(w) \/ JobPanics(w)
  \/ Crash \/ Restart

(* Threads are scheduled and timers fire; nobody makes a child end.        *)
Fairness == \A w \in Thread : WF_vars(Take(w)) /\ WF_vars(Execute(w)) /\ WF_vars(Settle(w))

Spec == Init /\ [][Next]_vars /\ Fairness
=============================================================================
