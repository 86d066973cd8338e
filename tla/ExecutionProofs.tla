-------------------------- MODULE ExecutionProofs --------------------------
(***************************************************************************)
(* Proofs about the executions under way, on top of those of DaemonProofs: *)
(* the permits they hold, the cancel flag that reaches them, and the order *)
(* the pending list keeps.                                                 *)
(***************************************************************************)
EXTENDS DaemonProofs

-----------------------------------------------------------------------------
(* What the steps do to the futures.                                       *)

(* Between registration and the end, a future moves alone, and neither     *)
(* in_flight nor the flags change.                                         *)
LEMMA MiddleStep ==
  ASSUME TypeInv, NEW i \in Instance,
         Execute(i) \/ Verdict(i) \/ GuardInterrupted(i) \/ Settle(i)
  PROVE  /\ UNCHANGED <<inFlight, flags>>
         /\ inst[i].pc \notin {"free", "queued"}
         /\ inst'[i].pc \notin {"free", "queued", "exec"}
         /\ \A j \in Instance \ {i} : inst'[j] = inst[j]
<1> USE DEF TypeInv, InstOK
<1> DEFINE Moved ==
      /\ inst[i].pc \notin {"free", "queued"}
      /\ inst'[i].pc \notin {"free", "queued", "exec"}
      /\ \A j \in Instance \ {i} : inst'[j] = inst[j]
<1>1. ASSUME NEW from \in InstPC \ {"free", "queued"},
             NEW to \in InstPC \ {"free", "queued", "exec"}, Step(i, from, to)
      PROVE  Moved
  BY <1>1 DEF Step
<1>2. CASE Execute(i)
  <2>1. inst[i].pc = "exec" /\ inst'[i].pc = "unflag"
        /\ \A j \in Instance \ {i} : inst'[j] = inst[j]
    BY <1>2 DEF Execute
  <2> QED BY <1>2, <2>1 DEF Execute, futureRest
<1>3. OnFailure(i) \in {"attempt", "fail"}
  BY DEF OnFailure
<1>4. CASE Verdict(i)
  <2>1. Judge(i) \in {"attempt", "fail", "count", "succeed", "guard"}
    BY <1>3 DEF Judge
  <2>2. inst[i].pc = "verdict" /\ inst'[i].pc \in {"cancelled", Judge(i)}
        /\ \A j \in Instance \ {i} : inst'[j] = inst[j]
    BY <1>4 DEF Verdict
  <2> QED BY <1>4, <2>1, <2>2 DEF Verdict, futureRest
<1>5. CASE GuardInterrupted(i)
  BY <1>1, <1>3, <1>5 DEF GuardInterrupted, futureRest, InstPC
<1>6. CASE Settle(i)
  <2>1. /\ UNCHANGED futureRest
        /\ \E from \in InstPC \ {"free", "queued"},
              to \in InstPC \ {"free", "queued", "exec"} : Step(i, from, to)
    BY <1>6
    DEF Settle, WriteState, WriteCancelled, WriteFailed, WriteSuccess, WriteRest,
        RewriteSuccess, FailedAttempts, RetryAttempts, RetryPending, RetryNextFire,
        CountRun, CountPeriodic, TallyOnce, InstPC
  <2> QED BY <1>1, <2>1 DEF futureRest
<1> QED BY <1>2, <1>4, <1>5, <1>6

(* Spawn fills a free slot with a future that waits for its permit.        *)
LEMMA SpawnStep ==
  ASSUME TypeInv, NEW i \in Instance, Spawn(i)
  PROVE  /\ UNCHANGED <<inFlight, flags>>
         /\ inst[i].pc = "free" /\ inst'[i].pc = "queued"
         /\ \A j \in Instance \ {i} : inst'[j] = inst[j]
BY DEF Spawn, TypeInv, InstOK

(* What leaves the futures, in_flight and the flags alone.                 *)
LEMMA AsideStep ==
  ASSUME [Next]_vars, ~Exit,
         \A i \in Instance : ~Spawn(i) /\ ~Future(i)
  PROVE  UNCHANGED <<inst, inFlight, flags>>
<1>1. CASE QueueLoop
  BY <1>1
  DEF QueueLoop, ProcessOne, Drain, LoadDrop, LoadTask, LoadTooEarly, Expire,
      RateLimited, Overlapping, CountFails, Admit, MarkRunning, OnStart,
      ScanRetries, ScanEnqueue, ScanClear, LoopEnds
<1>2. CASE CronLoop
  BY <1>2
  DEF CronLoop, StartScan, CronStep, OnDue, CronFinish, CronExpire, CronFire, cronRest
<1>3. CASE Watchdog
  BY <1>3
  DEF Watchdog, WatchdogScan, WatchdogReload, WatchdogWrite, WatchdogDone,
      WatchdogSignal, wdRest
<1>4. CASE Stop \/ EndDrain \/ Restart
  BY <1>4 DEF Stop, EndDrain, Restart, queueVars
<1>5. CASE \E t \in Task : \/ Dispatch(t) \/ Cancel(t) \/ CancelSignal(t)
                           \/ Requeue(t) \/ Remove(t) \/ Pause(t) \/ Timer(t)
                           \/ OrphanExit(t)
  BY <1>5
  DEF Dispatch, Cancel, CancelSignal, Requeue, Remove, Pause, Timer, ReEnqueue,
      OrphanExit, queueVars
<1>6. CASE UNCHANGED vars
  BY <1>6 DEF vars, queueVars
<1> QED BY <1>1, <1>2, <1>3, <1>4, <1>5, <1>6 DEF Next

-----------------------------------------------------------------------------
(* Permits.                                                                *)

PermitInv == TypeInv /\ InFlightHoldsPermit

(* The futures that hold a permit are finitely many.                       *)
LEMMA StartedFinite == IsFiniteSet(Started) /\ Cardinality(Started) \in Nat
<1>1. Started \subseteq Instance
  BY DEF Started
<1> QED BY <1>1, QueueAssumption, FS_Subset, FS_CardinalityType

(* The permits held change only as futures start and end.                  *)
LEMMA SamePermits ==
  ASSUME PermitInv, UNCHANGED inFlight,
         \A j \in Instance : inst'[j].pc \in {"free", "queued"}
                               <=> inst[j].pc \in {"free", "queued"}
  PROVE  InFlightHoldsPermit'
<1>1. Started' = Started
  BY DEF Started
<1> QED BY <1>1 DEF PermitInv, InFlightHoldsPermit

(* A future takes a permit while there is one.                             *)
LEMMA StartTakesPermit ==
  ASSUME PermitInv, NEW i \in Instance, Start(i)
  PROVE  InFlightHoldsPermit'
<1>1. /\ inst[i].pc = "queued" /\ inst'[i].pc = "register"
      /\ \A j \in Instance \ {i} : inst'[j] = inst[j]
      /\ inFlight < Permits /\ inFlight' = inFlight + 1
  BY DEF Start, Step, PermitInv, TypeInv, InstOK
<1>2. Started' = Started \cup {i} /\ i \notin Started
  BY <1>1 DEF Started
<1>3. Cardinality(Started') = Cardinality(Started) + 1
  BY <1>2, StartedFinite, FS_AddElement
<1> QED BY <1>1, <1>3, StartedFinite, QueueAssumption DEF PermitInv, InFlightHoldsPermit

(* A future that ends gives its permit back.                               *)
LEMMA FinishReturnsPermit ==
  ASSUME PermitInv, NEW i \in Instance, Finish(i)
  PROVE  InFlightHoldsPermit'
<1>1. /\ inst[i].pc = "finish" /\ inst'[i].pc = "free"
      /\ \A j \in Instance \ {i} : inst'[j] = inst[j]
      /\ inFlight' = inFlight - 1
  BY DEF Finish, FreeInst, PermitInv, TypeInv, InstOK
<1>2. Started' = Started \ {i} /\ i \in Started
  BY <1>1 DEF Started
<1>3. Cardinality(Started') = Cardinality(Started) - 1
  BY <1>2, StartedFinite, FS_RemoveElement
<1> QED BY <1>1, <1>3, StartedFinite, QueueAssumption DEF PermitInv, InFlightHoldsPermit

(* A future's step.                                                        *)
LEMMA FutureKeepsPermits ==
  ASSUME PermitInv, NEW i \in Instance, Future(i)
  PROVE  InFlightHoldsPermit'
<1>1. CASE Start(i)
  BY <1>1, StartTakesPermit
<1>2. CASE Finish(i)
  BY <1>2, FinishReturnsPermit
<1>3. CASE RegisterFlag(i) \/ UnregisterFlag(i)
  <2>1. /\ UNCHANGED inFlight
        /\ inst[i].pc \notin {"free", "queued"} /\ inst'[i].pc \notin {"free", "queued"}
        /\ \A j \in Instance \ {i} : inst'[j] = inst[j]
    BY <1>3 DEF RegisterFlag, UnregisterFlag, Step, PermitInv, TypeInv, InstOK
  <2> QED BY <2>1, SamePermits
<1>4. CASE Execute(i) \/ Verdict(i) \/ GuardInterrupted(i) \/ Settle(i)
  BY <1>4, MiddleStep, SamePermits DEF PermitInv
<1> QED BY <1>1, <1>2, <1>3, <1>4 DEF Future, FutureStep

(* Every step of the daemon.                                               *)
LEMMA NextPermits ==
  ASSUME PermitInv, [Next]_vars
  PROVE  InFlightHoldsPermit'
<1>1. CASE \E i \in Instance : Spawn(i)
  BY <1>1, SpawnStep, SamePermits DEF PermitInv
<1>2. CASE \E i \in Instance : Future(i)
  BY <1>2, FutureKeepsPermits
<1>3. CASE Exit
  <2>1. Started' = {} /\ inFlight' = 0
    BY <1>3 DEF Exit, FreeInst, Started
  <2> QED BY <2>1, FS_EmptySet, QueueAssumption DEF InFlightHoldsPermit
<1>4. CASE ~Exit /\ \A i \in Instance : ~Spawn(i) /\ ~Future(i)
  BY <1>4, AsideStep, SamePermits
<1> QED BY <1>1, <1>2, <1>3, <1>4

(* in_flight is the number of futures that hold a pool permit, and never   *)
(* more than there are: whatever fails, crashes or is restarted.           *)
THEOREM InFlightAlwaysHoldsPermit == Spec => []InFlightHoldsPermit
<1>1. Init => PermitInv
  <2> SUFFICES ASSUME Init PROVE PermitInv
    OBVIOUS
  <2>1. Started = {} /\ inFlight = 0
    BY DEF Init, QueueInit, FreeInst, Started
  <2> QED BY <2>1, InitTyped, FS_EmptySet, QueueAssumption
          DEF PermitInv, InFlightHoldsPermit
<1>2. PermitInv /\ [Next]_vars => PermitInv'
  BY NextPermits, NextTyped DEF PermitInv
<1>3. PermitInv => InFlightHoldsPermit
  BY DEF PermitInv
<1> QED BY <1>1, <1>2, <1>3, PTL DEF Spec

-----------------------------------------------------------------------------
(* Cancel flags.                                                           *)

FlagInv == OverlapInv /\ FlagReachesExecutor

(* A task that runs one instance at a time has one live future at most.    *)
LEMMA OneLive ==
  ASSUME OverlapInv, NEW t \in Task, Def[t].instances = 1, ~Def[t].overlap,
         NEW i \in Live(t), NEW j \in Live(t)
  PROVE  i = j
<1>1. overlap[t] <= 1 /\ overlap[t] = Cardinality(Live(t)) + Starting(t)
  BY DEF OverlapInv, OverlapBalanced, Capped, Unlimited
<1>2. Starting(t) \in {0, 1}
  BY DEF Starting
<1>3. Cardinality(Live(t)) <= 1
  BY <1>1, <1>2, LiveFinite
<1> SUFFICES ASSUME i # j PROVE FALSE
  OBVIOUS
<1>4. IsFiniteSet({i}) /\ Cardinality({i}) = 1
  BY FS_Singleton
<1>5. IsFiniteSet({i} \cup {j}) /\ Cardinality({i} \cup {j}) = 2
  BY <1>4, FS_AddElement
<1>6. Cardinality({i} \cup {j}) <= Cardinality(Live(t))
  BY LiveFinite, FS_Subset
<1> QED BY <1>3, <1>5, <1>6, LiveFinite

(* No execution begins and no flag changes.                                *)
LEMMA SameFlags ==
  ASSUME FlagReachesExecutor, UNCHANGED flags,
         \A j \in Instance : inst'[j].pc = "exec" => inst'[j] = inst[j]
  PROVE  FlagReachesExecutor'
BY DEF FlagReachesExecutor

(* RegisterFlag and UnregisterFlag write the entry of their own task, which*)
(* no other future of it can need.                                         *)
LEMMA OwnFlag ==
  ASSUME FlagInv, NEW i \in Instance, RegisterFlag(i) \/ UnregisterFlag(i)
  PROVE  FlagReachesExecutor'
<1>1. /\ inst[i].pc \in {"register", "unflag"} /\ inst[i].task \in Task
      /\ flags \in [Task -> Instance \cup {None}]
      /\ \A j \in Instance \ {i} : inst'[j] = inst[j]
      /\ inst'[i].task = inst[i].task
  BY QueueAssumption
  DEF RegisterFlag, UnregisterFlag, Step, FlagInv, OverlapInv, TypeInv, InstOK, FlagsOK
<1> SUFFICES ASSUME NEW j \in Instance, inst'[j].pc = "exec",
                    Def[inst'[j].task].instances = 1, ~Def[inst'[j].task].overlap
             PROVE  flags'[inst'[j].task] = j
  BY DEF FlagReachesExecutor
<1>2. CASE j = i
  <2>1. RegisterFlag(i)
    BY <1>2 DEF UnregisterFlag, Step, FlagInv, OverlapInv, TypeInv, InstOK
  <2> QED BY <1>1, <1>2, <2>1 DEF RegisterFlag
<1>3. CASE j # i
  <2>1. inst'[j] = inst[j] /\ inst[j].pc = "exec" /\ inst[j].task \in Task
    BY <1>1, <1>3, QueueAssumption DEF FlagInv, OverlapInv, TypeInv, InstOK
  <2>2. flags[inst[j].task] = j
    BY <2>1 DEF FlagInv, FlagReachesExecutor
  <2>3. inst[j].task # inst[i].task
    <3> SUFFICES ASSUME inst[j].task = inst[i].task PROVE FALSE
      OBVIOUS
    <3>1. i \in Live(inst[j].task) /\ j \in Live(inst[j].task)
      BY <1>1, <2>1 DEF Live
    <3> QED BY <1>3, <2>1, <3>1, OneLive DEF FlagInv
  <2>4. flags'[inst[j].task] = flags[inst[j].task]
    BY <1>1, <2>1, <2>3 DEF RegisterFlag, UnregisterFlag
  <2> QED BY <2>1, <2>2, <2>4
<1> QED BY <1>2, <1>3

(* Every step of the daemon.                                               *)
LEMMA NextFlags ==
  ASSUME FlagInv, [Next]_vars
  PROVE  FlagReachesExecutor'
<1>0. TypeInv /\ FlagReachesExecutor
  BY DEF FlagInv, OverlapInv
<1>1. CASE \E i \in Instance : Spawn(i)
  BY <1>0, <1>1, SpawnStep, SameFlags
<1>2. ASSUME NEW i \in Instance, Future(i) PROVE FlagReachesExecutor'
  <2>1. CASE Start(i) \/ Finish(i)
    <3>1. /\ UNCHANGED flags /\ inst'[i].pc # "exec"
          /\ \A j \in Instance \ {i} : inst'[j] = inst[j]
      BY <1>0, <2>1 DEF Start, Finish, Step, FreeInst, TypeInv, InstOK
    <3> QED BY <1>0, <3>1, SameFlags
  <2>2. CASE RegisterFlag(i) \/ UnregisterFlag(i)
    BY <2>2, OwnFlag
  <2>3. CASE Execute(i) \/ Verdict(i) \/ GuardInterrupted(i) \/ Settle(i)
    BY <1>0, <2>3, MiddleStep, SameFlags
  <2> QED BY <1>2, <2>1, <2>2, <2>3 DEF Future, FutureStep
<1>3. CASE Exit
  BY <1>3 DEF Exit, FreeInst, FlagReachesExecutor
<1>4. CASE ~Exit /\ \A i \in Instance : ~Spawn(i) /\ ~Future(i)
  BY <1>0, <1>4, AsideStep, SameFlags
<1> QED BY <1>1, <1>2, <1>3, <1>4

(* A cancel reaches the execution under way of every task that runs one    *)
(* instance at a time: although the flags are kept per task id, replaced   *)
(* by each registration and removed by each end.                           *)
THEOREM FlagAlwaysReaches == Spec => []FlagReachesExecutor
<1>1. Init => FlagInv
  BY InitOverlap DEF Init, QueueInit, FreeInst, FlagInv, FlagReachesExecutor
<1>2. FlagInv /\ [Next]_vars => FlagInv'
  BY NextFlags, NextOverlap DEF FlagInv
<1>3. FlagInv => FlagReachesExecutor
  BY DEF FlagInv
<1> QED BY <1>1, <1>2, <1>3, PTL DEF Spec

-----------------------------------------------------------------------------
(* The pending list.                                                       *)

Priority(t) == Def[t].prio

(* Priorities can be compared.                                             *)
LEMMA PriorityType == \A t \in Task : Priority(t) \in Int
BY StoreAssumption DEF Definition, Priority

Inserted(q, k, t) == SubSeq(q, 1, k) \o <<t>> \o SubSeq(q, k + 1, Len(q))

(* The list with one more id, entry by entry.                              *)
LEMMA PushEntries ==
  ASSUME NEW q \in Seq(Task), NEW t \in Task, NEW k \in 0..Len(q)
  PROVE  /\ Len(Inserted(q, k, t)) = Len(q) + 1
         /\ \A m \in 1..(Len(q) + 1) :
              Inserted(q, k, t)[m] =
                IF m <= k THEN q[m] ELSE IF m = k + 1 THEN t ELSE q[m - 1]
<1> DEFINE longer == Inserted(q, k, t)
           front == SubSeq(q, 1, k)
           back  == SubSeq(q, k + 1, Len(q))
<1>0. Len(q) \in Nat
  OBVIOUS
<1>1. /\ front \in Seq(Task) /\ Len(front) = k
      /\ \A m \in 1..k : front[m] = q[m]
  OBVIOUS
<1>2. /\ back \in Seq(Task) /\ Len(back) = Len(q) - k
      /\ \A m \in 1..(Len(q) - k) : back[m] = q[k + m]
  OBVIOUS
<1>3. longer = (front \o <<t>>) \o back
  BY DEF Inserted
<1> HIDE DEF longer
<1>4. <<t>> \in Seq(Task) /\ Len(<<t>>) = 1 /\ <<t>>[1] = t
  OBVIOUS
<1> HIDE DEF front, back
<1> DEFINE head == front \o <<t>>
<1>5. /\ head \in Seq(Task) /\ Len(head) = k + 1
      /\ \A m \in 1..(k + 1) : head[m] = IF m <= k THEN front[m] ELSE <<t>>[m - k]
  BY <1>1, <1>4, ConcatProperties
<1>6. longer = head \o back
  BY <1>3
<1> HIDE DEF head
<1>7. /\ Len(longer) = Len(q) + 1
      /\ \A m \in 1..(Len(q) + 1) :
           longer[m] = IF m <= k + 1 THEN head[m] ELSE back[m - (k + 1)]
  <2>1. /\ Len(head \o back) = Len(head) + Len(back)
        /\ \A m \in 1..(Len(head) + Len(back)) :
             (head \o back)[m] = IF m <= Len(head) THEN head[m]
                                                 ELSE back[m - Len(head)]
    BY <1>2, <1>5, ConcatProperties
  <2>2. Len(head) + Len(back) = Len(q) + 1
    BY <1>0, <1>2, <1>5
  <2> QED BY <1>5, <1>6, <2>1, <2>2
<1>8. ASSUME NEW m \in 1..(Len(q) + 1) PROVE
        longer[m] = IF m <= k THEN q[m] ELSE IF m = k + 1 THEN t ELSE q[m - 1]
  <2>1. CASE m <= k
    BY <1>0, <1>1, <1>5, <1>7, <2>1
  <2>2. CASE m = k + 1
    BY <1>0, <1>4, <1>5, <1>7, <2>2
  <2>3. CASE m > k + 1
    <3>1. m - (k + 1) \in 1..(Len(q) - k) /\ k + (m - (k + 1)) = m - 1
      BY <1>0, <2>3
    <3> QED BY <1>0, <1>2, <1>7, <2>3, <3>1
  <2> QED BY <2>1, <2>2, <2>3
<1> USE DEF longer
<1> QED BY <1>7, <1>8

(* enqueue keeps the list sorted.                                          *)
LEMMA EnqueueSorts ==
  ASSUME queue \in Seq(Task), NEW t \in Task, QueueByPriority, Enqueue(t)
  PROVE  QueueByPriority'
<1>1. CASE Len(queue) < MaxPending
  <2>1. PICK k \in 0..Len(queue) :
          /\ \A j \in 1..Len(queue) : j <= k <=> Priority(queue[j]) >= Priority(t)
          /\ queue' = Inserted(queue, k, t)
    BY <1>1 DEF Enqueue, Push, Priority, Inserted
  <2>2. /\ Len(queue') = Len(queue) + 1
        /\ \A m \in 1..Len(queue') :
             queue'[m] = IF m <= k THEN queue[m]
                         ELSE IF m = k + 1 THEN t ELSE queue[m - 1]
    BY <2>1, PushEntries
  <2>3. \A m \in 1..Len(queue) : queue[m] \in Task /\ Priority(queue[m]) \in Int
    BY PriorityType
  <2>4. \A j \in 1..Len(queue) : \A m \in 1..j :
          Priority(queue[m]) >= Priority(queue[j])
    BY DEF QueueByPriority, Priority
  <2> SUFFICES ASSUME NEW j \in 1..Len(queue'), NEW m \in 1..j
               PROVE  Priority(queue'[m]) >= Priority(queue'[j])
    BY DEF QueueByPriority, Priority
  <2>5. Priority(t) \in Int
    BY PriorityType
  <2>6. CASE j <= k
    BY <2>2, <2>4, <2>6
  <2>7. CASE j = k + 1
    BY <2>1, <2>2, <2>5, <2>7
  <2>8. CASE j > k + 1 /\ m <= k
    BY <2>2, <2>4, <2>8
  <2>9. CASE j > k + 1 /\ m = k + 1
    <3>0. Len(queue) \in Nat
      OBVIOUS
    <3>1. j - 1 \in 1..Len(queue) /\ ~(j - 1 <= k) /\ queue'[j] = queue[j - 1]
      BY <2>2, <2>9, <3>0
    <3>2. ~(Priority(queue[j - 1]) >= Priority(t))
      BY <2>1, <3>1
    <3>3. queue'[m] = t
      BY <2>2, <2>9
    <3> HIDE DEF Priority
    <3> QED BY <2>3, <2>5, <3>1, <3>2, <3>3
  <2>10. CASE j > k + 1 /\ m > k + 1
    BY <2>2, <2>4, <2>10
  <2> QED BY <2>6, <2>7, <2>8, <2>9, <2>10
<1>2. CASE ~(Len(queue) < MaxPending)
  BY <1>2 DEF Enqueue, QueueByPriority
<1> QED BY <1>1, <1>2

(* The queue loop takes the first id.                                      *)
LEMMA DrainKeepsOrder ==
  ASSUME queue \in Seq(Task), QueueByPriority, Drain
  PROVE  QueueByPriority'
<1>1. /\ Len(queue') = Len(queue) - 1
      /\ \A m \in 1..Len(queue') : queue'[m] = queue[m + 1]
  BY DEF Drain
<1> QED BY <1>1 DEF QueueByPriority

(* Every step of the daemon.                                               *)
LEMMA NextSorted ==
  ASSUME TypeInv, QueueByPriority, [Next]_vars
  PROVE  QueueByPriority'
<1>1. queue \in Seq(Task)
  BY DEF TypeInv, QueueOK
<1>2. UNCHANGED queue => QueueByPriority'
  BY DEF QueueByPriority
<1>3. CASE QueueLoop
  <2>1. CASE Drain
    BY <1>1, <2>1, DrainKeepsOrder
  <2>2. CASE \E t \in Task : ScanEnqueue(t)
    BY <1>1, <2>2, EnqueueSorts DEF ScanEnqueue
  <2> QED
    BY <1>2, <1>3, <2>1, <2>2
    DEF QueueLoop, ProcessOne, LoadDrop, LoadTask, LoadTooEarly, Expire,
        RateLimited, Overlapping, CountFails, Admit, MarkRunning, OnStart, Spawn,
        ScanRetries, ScanClear, LoopEnds
<1>4. CASE CronLoop
  BY <1>2, <1>4
  DEF CronLoop, StartScan, CronStep, OnDue, CronFinish, CronExpire, CronFire, cronRest
<1>5. CASE Watchdog
  BY <1>2, <1>5
  DEF Watchdog, WatchdogScan, WatchdogReload, WatchdogWrite, WatchdogDone,
      WatchdogSignal, wdRest
<1>6. CASE Stop \/ EndDrain \/ Restart
  BY <1>2, <1>6 DEF Stop, EndDrain, Restart, queueVars
<1>7. CASE Exit
  <2>1. Len(queue') = 0
    BY <1>7 DEF Exit
  <2> QED BY <2>1 DEF QueueByPriority
<1>8. CASE \E t \in Task : Dispatch(t)
  BY <1>1, <1>2, <1>8, EnqueueSorts DEF Dispatch
<1>9. CASE \E t \in Task : Timer(t)
  BY <1>1, <1>9, EnqueueSorts DEF Timer, ReEnqueue
<1>10. CASE \E t \in Task : \/ Cancel(t) \/ CancelSignal(t) \/ Requeue(t)
                            \/ Remove(t) \/ Pause(t) \/ OrphanExit(t)
  BY <1>2, <1>10
  DEF Cancel, CancelSignal, Requeue, Remove, Pause, OrphanExit, queueVars
<1>11. ASSUME NEW i \in Instance, Future(i) PROVE QueueByPriority'
  <2>1. CASE Start(i) \/ RegisterFlag(i) \/ UnregisterFlag(i) \/ Finish(i)
    BY <1>2, <2>1 DEF Start, RegisterFlag, UnregisterFlag, Finish
  <2>2. CASE Execute(i) \/ Verdict(i) \/ GuardInterrupted(i)
    BY <1>2, <2>2 DEF Execute, Verdict, GuardInterrupted, futureRest
  <2>3. CASE Settle(i)
    BY <1>2, <2>3
    DEF Settle, WriteState, WriteCancelled, WriteFailed, WriteSuccess, WriteRest,
        RewriteSuccess, FailedAttempts, RetryAttempts, RetryPending, RetryNextFire,
        CountRun, CountPeriodic, TallyOnce, futureRest
  <2> QED BY <1>11, <2>1, <2>2, <2>3 DEF Future, FutureStep
<1>12. CASE UNCHANGED vars
  BY <1>2, <1>12 DEF vars, queueVars
<1> QED
  BY <1>3, <1>4, <1>5, <1>6, <1>7, <1>8, <1>9, <1>10, <1>11, <1>12 DEF Next

(* No id ever waits behind one of lower priority: although clients, timers,*)
(* the retry scan and the cron scan all push while the queue loop drains.  *)
THEOREM QueueAlwaysByPriority == Spec => []QueueByPriority
<1>1. Init => QueueByPriority
  BY DEF Init, QueueInit, QueueByPriority
<1>2. TypeInv /\ QueueByPriority /\ [Next]_vars => QueueByPriority'
  BY NextSorted
<1> QED BY <1>1, <1>2, InitTyped, NextTyped, PTL DEF Spec
=============================================================================
