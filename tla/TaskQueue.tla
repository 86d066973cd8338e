------------------------------ MODULE TaskQueue ------------------------------
(***************************************************************************)
(* The task queue: the priority list of pending ids, the queue loop that   *)
(* takes one id at a time through process_one or runs scan_retries, and    *)
(* the task futures it spawns on the async pool.  A step ends where the    *)
(* code awaits something another process can change in the meantime.       *)
(*                                                                         *)
(* The loop is one process, "disp".  A task future is an instance.  What a *)
(* process read before an await stays in its own record (disp.base,        *)
(* inst[i].base: attempts of the loaded snapshot).                         *)
(***************************************************************************)
EXTENDS TaskStore

CONSTANTS
  Instance,    \* bound: the task futures that may exist at a time
  None,        \* no task, no instance
  MaxPending,  \* XHJOB_MAX_PENDING
  Permits      \* permits of the async pool's semaphore

ASSUME QueueAssumption ==
  /\ None \notin Task \cup Instance
  /\ IsFiniteSet(Instance)
  /\ MaxPending \in Nat \ {0}
  /\ Permits \in Nat \ {0}

VARIABLES
  queue,     \* pending: ids, highest priority first
  delayed,   \* task -> spawned timers that will enqueue it
  disp,      \* the queue loop
  inst,      \* the task futures
  overlap,   \* OverlapController.running
  inFlight,  \* TaskQueue.in_flight
  flags,     \* cancel_flags: task -> the instance whose flag is registered
  killed     \* the instances whose cancel flag is set

queueVars == <<queue, delayed, disp, inst, overlap, inFlight, flags, killed>>

DispPC == {"idle", "load", "expire", "gate", "mark", "count", "spawn",
           "scan", "clear", "ended"}
InstPC == {"free", "queued", "register", "exec", "unflag", "verdict",
           "cancelled", "guard", "attempt", "pend", "arm", "fail", "failed",
           "count", "succeed", "rest", "tally", "resucceed", "finish"}
Outcome == {"none", "ok", "fail", "fatal", "error"}

IdleDisp == [pc |-> "idle", task |-> None, base |-> 0, todo |-> {}]
FreeInst == [pc |-> "free", task |-> None, base |-> 0, out |-> "none"]

QueueInit ==
  /\ queue = <<>>
  /\ delayed = [t \in Task |-> 0]
  /\ disp = IdleDisp
  /\ inst = [i \in Instance |-> FreeInst]
  /\ overlap = [t \in Task |-> 0]
  /\ inFlight = 0
  /\ flags = [t \in Task |-> None]
  /\ killed = {}

(* The futures of a task that have been spawned and have not finished.     *)
Live(t) == {i \in Instance : inst[i].pc # "free" /\ inst[i].task = t}

(* Slips to detect: the limit off by one; the counter not consulted; the   *)
(* sort forgotten; the timer not spawned.                                  *)
RunningByRow(t) == IF row[t].state = "running" THEN 1 ELSE 0
FireAtLimit(t) == Def[t].overlap \/ overlap[t] <= Def[t].instances
PushLast(t) == queue' = Append(queue, t)
NoTimer(t) == UNCHANGED delayed

(* OverlapController::should_fire: the concurrency limit, and the number   *)
(* of instances it believes to be running.                                 *)
Unlimited(t) == Def[t].instances = 1 /\ Def[t].overlap
RunningCount(t) ==
  IF overlap[t] = 0 /\ row[t].state = "running" THEN 1 ELSE overlap[t]
ShouldFire(t) == Unlimited(t) \/ RunningCount(t) < Def[t].instances

(* enqueue: push, then a stable sort by descending priority.               *)
Push(t) ==
  \E k \in 0..Len(queue) :
    /\ \A j \in 1..Len(queue) : j <= k <=> Def[queue[j]].prio >= Def[t].prio
    /\ queue' = SubSeq(queue, 1, k) \o <<t>> \o SubSeq(queue, k + 1, Len(queue))

(* The caller of enqueue only logs the "pending queue full" error.         *)
Enqueue(t) == IF Len(queue) < MaxPending THEN Push(t) ELSE UNCHANGED queue

Defer(t) == delayed' = [delayed EXCEPT ![t] = @ + 1]

-----------------------------------------------------------------------------
(* The queue loop: process_one                                             *)

At(pc) == disp.pc = pc
Goto(pc) == disp' = [disp EXCEPT !.pc = pc]
GoIdle == disp' = IdleDisp

Drain ==
  /\ At("idle") /\ queue # <<>>
  /\ disp' = [IdleDisp EXCEPT !.pc = "load", !.task = Head(queue)]
  /\ queue' = Tail(queue)
  /\ UNCHANGED <<row, delayed, inst, overlap, inFlight, flags, killed>>

(* load_task.  A terminal or deleted task, and a store error, end the      *)
(* attempt: the drained id is gone from the queue.                         *)
LoadDrop ==
  /\ At("load")
  /\ \/ row[disp.task].state \in Terminal \cup {"absent"}
     \/ "store" \in Faults
  /\ GoIdle
  /\ UNCHANGED <<row, queue, delayed, inst, overlap, inFlight, flags, killed>>

(* A slip to detect: an id with a cancel request is dropped, not settled.  *)
LoadUncancelled ==
  /\ At("load")
  /\ row[disp.task].state \in Active
  /\ IF row[disp.task].cancel THEN GoIdle
     ELSE disp' = [disp EXCEPT !.pc = "gate", !.base = row[disp.task].attempts]
  /\ UNCHANGED <<row, queue, delayed, inst, overlap, inFlight, flags, killed>>

LoadTask ==
  /\ At("load")
  /\ row[disp.task].state \in Active
  /\ \/ disp' = [disp EXCEPT !.pc = "gate", !.base = row[disp.task].attempts]
     \/ /\ Def[disp.task].expires /\ row[disp.task].state = "pending"
        /\ Goto("expire")
  /\ UNCHANGED <<row, queue, delayed, inst, overlap, inFlight, flags, killed>>

(* The start_date has not come: a timer will enqueue the id again.         *)
LoadTooEarly ==
  /\ At("load")
  /\ row[disp.task].state \in Active
  /\ Def[disp.task].delayed
  /\ Defer(disp.task)
  /\ GoIdle
  /\ UNCHANGED <<row, queue, inst, overlap, inFlight, flags, killed>>

Expire ==
  /\ At("expire")
  /\ UpdateState(disp.task, "expired") \/ WriteFails
  /\ GoIdle
  /\ UNCHANGED <<queue, delayed, inst, overlap, inFlight, flags, killed>>

(* Over the rate limit: next_fire of a periodic task moves on, and a timer *)
(* will enqueue the id again.                                              *)
RateLimited ==
  /\ At("gate")
  /\ Def[disp.task].rated
  /\ IF Periodic(disp.task) THEN UpdateNextFire(disp.task, "some") \/ WriteFails
                            ELSE UNCHANGED row
  /\ Defer(disp.task)
  /\ GoIdle
  /\ UNCHANGED <<queue, inst, overlap, inFlight, flags, killed>>

(* The reads of the in-memory counter and of the row are one step: only    *)
(* this loop raises either, so a read between them sees the same or less.  *)
Overlapping ==
  /\ At("gate")
  /\ ~ShouldFire(disp.task)
  /\ Defer(disp.task)
  /\ GoIdle
  /\ UNCHANGED <<row, queue, inst, overlap, inFlight, flags, killed>>

(* count_running_instances fails: the drained id is gone from the queue.   *)
CountFails ==
  /\ At("gate")
  /\ "store" \in Faults /\ ~Unlimited(disp.task)
  /\ GoIdle
  /\ UNCHANGED <<row, queue, delayed, inst, overlap, inFlight, flags, killed>>

Admit ==
  /\ At("gate")
  /\ ShouldFire(disp.task)
  /\ Goto("mark")
  /\ UNCHANGED <<row, queue, delayed, inst, overlap, inFlight, flags, killed>>

MarkRunning ==
  /\ At("mark")
  /\ \/ UpdateState(disp.task, "running") /\ Goto("count")
     \/ WriteFails /\ GoIdle
  /\ UNCHANGED <<queue, delayed, inst, overlap, inFlight, flags, killed>>

OnStart ==
  /\ At("count")
  /\ overlap' = [overlap EXCEPT ![disp.task] = @ + 1]
  /\ Goto("spawn")
  /\ UNCHANGED <<row, queue, delayed, inst, inFlight, flags, killed>>

Spawn(i) ==
  /\ At("spawn")
  /\ inst[i].pc = "free"
  /\ inst' = [inst EXCEPT ![i] = [pc |-> "queued", task |-> disp.task,
                                  base |-> disp.base, out |-> "none"]]
  /\ GoIdle
  /\ UNCHANGED <<row, queue, delayed, overlap, inFlight, flags, killed>>

ProcessOne ==
  \/ Drain \/ LoadDrop \/ LoadTask \/ LoadTooEarly \/ Expire
  \/ RateLimited \/ Overlapping \/ CountFails \/ Admit \/ MarkRunning \/ OnStart
  \/ \E i \in Instance : Spawn(i)

-----------------------------------------------------------------------------
(* The queue loop: scan_retries                                            *)

RetryDue(t) ==
  row[t].state = "pending" /\ row[t].next = "some" /\ Def[t].kind # "cron"

(* load_active_tasks: the loop below works on this snapshot.               *)
ScanRetries ==
  /\ At("idle")
  /\ \E due \in (SUBSET {t \in Task : RetryDue(t)}) \ {{}} :
       disp' = [IdleDisp EXCEPT !.pc = "scan", !.todo = due]
  /\ UNCHANGED <<row, queue, delayed, inst, overlap, inFlight, flags, killed>>

ScanNext(t) ==
  disp' = [disp EXCEPT !.pc = IF disp.todo = {t} THEN "idle" ELSE "scan",
                       !.task = None, !.todo = @ \ {t}]

ScanEnqueue(t) ==
  /\ At("scan") /\ t \in disp.todo
  /\ Enqueue(t)
  /\ IF Len(queue) < MaxPending
     THEN disp' = [disp EXCEPT !.pc = "clear", !.task = t]
     ELSE ScanNext(t)
  /\ UNCHANGED <<row, delayed, inst, overlap, inFlight, flags, killed>>

ScanClear ==
  /\ At("clear")
  /\ UpdateNextFire(disp.task, "none") \/ WriteFails
  /\ ScanNext(disp.task)
  /\ UNCHANGED <<queue, delayed, inst, overlap, inFlight, flags, killed>>

(* shutdown_rx changed: the select of the loop takes its third branch.      *)
LoopEnds ==
  /\ At("idle")
  /\ Goto("ended")
  /\ UNCHANGED <<row, queue, delayed, inst, overlap, inFlight, flags, killed>>

(* A timer spawned by process_one, or the on_due callback of scan_once,    *)
(* enqueues its id; if the queue is full the id is dropped.                *)
ReEnqueue(t) ==
  /\ delayed[t] > 0
  /\ delayed' = [delayed EXCEPT ![t] = @ - 1]
  /\ Enqueue(t)
  /\ UNCHANGED <<row, disp, inst, overlap, inFlight, flags, killed>>
=============================================================================
