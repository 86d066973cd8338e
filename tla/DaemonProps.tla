---------------------------- MODULE DaemonProps ----------------------------
(***************************************************************************)
(* What the daemon's task execution must, and must not, do.                *)
(***************************************************************************)
EXTENDS Daemon

(* Every variable has its type.                                            *)
TypeOK ==
  /\ row \in [Task -> Row]
  /\ queue \in Seq(Task)
  /\ delayed \in [Task -> Nat]
  /\ disp \in [pc : DispPC, task : Task \cup {None}, base : 0..U32Max,
               todo : SUBSET Task]
  /\ inst \in [Instance -> [pc : InstPC, task : Task \cup {None},
                            base : 0..U32Max, out : Outcome]]
  /\ overlap \in [Task -> Nat]
  /\ inFlight \in Int
  /\ flags \in [Task -> Instance \cup {None}]
  /\ killed \subseteq Instance
  /\ phase \in {"up", "draining", "exiting", "down"}
  /\ wd \in [pc : {"wait", "scan", "reload", "write", "stopped"},
             task : Task \cup {None}, todo : SUBSET Task]
  /\ signalling \subseteq Task
  /\ orphan \subseteq Task
  /\ cron \in [plan : [Task -> CronVerdict], due : SUBSET Task]

-----------------------------------------------------------------------------
(* Safety                                                                  *)

(* The overlap counter of a task is the number of its futures under way,   *)
(* plus one between on_start and the spawn: one on_start per dispatch, one *)
(* on_finish per completion, on every path through the future.             *)
Starting(t) == IF disp.pc = "spawn" /\ disp.task = t THEN 1 ELSE 0
OverlapBalanced ==
  \A t \in Task : overlap[t] = Cardinality(Live(t)) + Starting(t)

(* A daemon never executes more instances of a task than max_instances,    *)
(* whatever is requeued, triggered, retried or removed meanwhile.          *)
ConcurrencyCap ==
  \A t \in Task : ~Unlimited(t) => Cardinality(Live(t)) <= Def[t].instances

(* in_flight is the number of futures that hold a pool permit.             *)
Started == {i \in Instance : inst[i].pc \notin {"free", "queued"}}
InFlightHoldsPermit ==
  inFlight = Cardinality(Started) /\ inFlight <= Permits

(* A Running row always has an execution that will still settle it, or a   *)
(* dispatch that has just marked it.                                       *)
Unsettled == {"queued", "register", "exec", "unflag", "verdict", "cancelled",
              "guard", "attempt", "pend", "fail", "count", "succeed", "rest"}
RunningHasOwner ==
  \A t \in Task : row[t].state = "running" =>
    \/ disp.task = t /\ disp.pc \in {"count", "spawn"}
    \/ \E i \in Live(t) : inst[i].pc \in Unsettled

(* A Pending task that nobody cancelled is held by something that will     *)
(* bring it to execution: a timestamp one of the two scans will find due,  *)
(* the ids scan_once found, the queue, a timer, the queue loop, or a       *)
(* future about to set next_fire.                                          *)
Carried(t) ==
  \/ RetryDue(t) \/ CronDue(t) \/ t \in cron.due
  \/ \E j \in 1..Len(queue) : queue[j] = t
  \/ delayed[t] > 0
  \/ disp.task = t /\ disp.pc \in {"load", "expire", "gate", "mark"}
  \/ \E i \in Live(t) : inst[i].pc = "arm"
Settled(t) ==
  row[t].state = "pending" /\ ~row[t].cancel /\ ~row[t].paused => Carried(t)
NoTaskLost == \A t \in Task : Settled(t)

(* Under an SQLite store a task with a trigger of its own survives any      *)
(* crash: whenever a daemon is up, something carries it on.                *)
TriggersSurvive == phase = "up" => \A t \in Task : Def[t].kind # "once" => Settled(t)

(* The pending list is ordered: no id waits behind one of lower priority.  *)
QueueByPriority ==
  \A j \in 1..Len(queue) : \A k \in 1..j :
    Def[queue[k]].prio >= Def[queue[j]].prio

(* While a task that runs one instance at a time executes, the flag        *)
(* registered under its id is that execution's: a cancel reaches it.       *)
FlagReachesExecutor ==
  \A i \in Instance :
    LET t == inst[i].task IN
    inst[i].pc = "exec" /\ Def[t].instances = 1 /\ ~Def[t].overlap
      => flags[t] = i

(* Where nobody requeues, a row never records more attempts than its retry *)
(* budget plus the last failure, although they are written from a snapshot *)
(* several awaits old and a crash may come between any two writes.         *)
AttemptsWithinBudget ==
  \A t \in Task : row[t].attempts <= Saturate(RetryLimit(t), U32Max)

(* Where nobody requeues, a task without triggers that succeeded is done:  *)
(* no stale queue entry, retry timestamp, cancel or restart makes it leave *)
(* Success.  (A task with an expiry may be expired from a stale scan.)     *)
SuccessIsFinal ==
  [][\A t \in Task :
       Def[t].kind = "once" /\ ~Def[t].expires /\ row[t].state = "success"
         => row'[t].state \in {"success", "absent"}]_row

(* The detailed daemon implements the semaphore of module Admission.       *)
Executions == [t \in Task |-> Cardinality(Live(t))]
LimitOf(t) == Def[t].instances
Semaphore == INSTANCE Admission WITH
               running <- Executions, Limit <- LimitOf, Unbounded <- Unlimited
ImplementsAdmission == Semaphore!Spec

-----------------------------------------------------------------------------
(* Liveness                                                                *)

(* Without faults every one-shot task comes to rest: it does not stay      *)
(* Pending or Running for ever, whatever is cancelled or retried.          *)
EverySettles ==
  \A t \in Task :
    ~Periodic(t) /\ row[t].state \in {"pending", "running"}
      ~> row[t].state \notin {"pending", "running"}

(* A cancel request on a running one-shot task is honoured in the end: the *)
(* row becomes terminal even if the execution, or the retry it had already *)
(* decided on, goes on past the request.                                   *)
CancelResolves ==
  \A t \in Task :
    ~Periodic(t) /\ row[t].cancel ~> row[t].state \in Terminal \cup {"absent"}

(* A recurring task keeps being executed: whatever the two scans do to its *)
(* next_fire, a Pending one that nobody cancels runs again.                *)
KeepsFiring ==
  \A t \in Task :
    Periodic(t) /\ row[t].state = "pending" ~> row[t].state # "pending"

-----------------------------------------------------------------------------
(* What the repository says of the daemon and the code does not do.        *)

(* "A Pending task turns cancelled, a terminal state, and is not triggered *)
(* any more" - but the queue loop marks a row Running from an older load.  *)
CancelledStays ==
  [][\A t \in Task : row[t].state = "cancelled"
       => row'[t].state \in {"cancelled", "absent"}]_row

(* The watchdog never overwrites a terminal state with Interrupted - but   *)
(* the future may settle the row between its reload and its write.         *)
WatchdogSparesTerminal ==
  [][\A t \in Task : row[t].state \in Terminal
       => row'[t].state # "interrupted"]_row

(* A restarted daemon recovers every unfinished task without losing one -  *)
(* but only Running and Interrupted rows are made due, and a Pending       *)
(* one-shot was only in the in-memory queue.                               *)
TasksSurviveRestart == phase = "up" => NoTaskLost

(* A run_at task fires once and is then Success, not scheduled any more -  *)
(* but scan_retries and scan_once both enqueue it, and the second id may   *)
(* have been loaded while the first execution was Running.                 *)
RunAtOnce ==
  [][\A t \in Task : Def[t].kind = "runat" /\ row[t].state = "success"
       => row'[t].state \in {"success", "absent"}]_row

(* A daemon asked to stop stops - but a watchdog inside scan_once misses   *)
(* the notification, and its handle is awaited for ever.                   *)
StopCompletes == phase = "draining" ~> phase = "down"
=============================================================================
