---------------------------- MODULE DaemonProofs ----------------------------
(***************************************************************************)
(* Proofs about the daemon for every set of tasks and instances, every     *)
(* definition of the tasks, every bound and every choice of faults.        *)
(***************************************************************************)
EXTENDS DaemonProps, FiniteSetTheorems, SequenceTheorems, TLAPS

-----------------------------------------------------------------------------
(* The store operations keep the table well typed.                         *)

(* A write of a well-typed row leaves a well-typed table.                  *)
LEMMA UpdateTyped ==
  ASSUME row \in [Task -> Row], NEW t \in Task, NEW new \in Row, Update(t, new)
  PROVE  row' \in [Task -> Row]
BY DEF Update

(* Saturating addition stays in its range.                                 *)
LEMMA SaturateTyped ==
  ASSUME NEW max \in Nat, NEW n \in 0..max
  PROVE  Saturate(n, max) \in 0..max
BY DEF Saturate

(* Each single-column write of a task future or of the queue loop.         *)
LEMMA WritesTyped ==
  ASSUME row \in [Task -> Row], NEW t \in Task
  PROVE  /\ \A s \in Terminal \cup Active : UpdateState(t, s) => row' \in [Task -> Row]
         /\ \A n \in 0..U32Max : SetAttempts(t, n) => row' \in [Task -> Row]
         /\ \A x \in {"none", "some", "never"} :
              UpdateNextFire(t, x) => row' \in [Task -> Row]
         /\ IncrementRuns(t) => row' \in [Task -> Row]
         /\ WriteFails => row' \in [Task -> Row]
<1>1. row[t] \in Row
  OBVIOUS
<1>2. ASSUME NEW s \in Terminal \cup Active, UpdateState(t, s) PROVE row' \in [Task -> Row]
  <2>1. [row[t] EXCEPT !.state = s] \in Row
    BY <1>1 DEF Row
  <2> QED BY <1>2, <2>1, UpdateTyped DEF UpdateState
<1>3. ASSUME NEW n \in 0..U32Max, SetAttempts(t, n) PROVE row' \in [Task -> Row]
  <2>1. [row[t] EXCEPT !.attempts = n] \in Row
    BY <1>1 DEF Row
  <2> QED BY <1>3, <2>1, UpdateTyped DEF SetAttempts
<1>4. ASSUME NEW x \in {"none", "some", "never"}, UpdateNextFire(t, x)
      PROVE  row' \in [Task -> Row]
  <2>1. [row[t] EXCEPT !.next = x] \in Row
    BY <1>1 DEF Row
  <2> QED BY <1>4, <2>1, UpdateTyped DEF UpdateNextFire
<1>5. ASSUME IncrementRuns(t) PROVE row' \in [Task -> Row]
  <2>1. Saturate(row[t].runs, RunsMax) \in 0..RunsMax
    BY <1>1, StoreAssumption, SaturateTyped DEF Row
  <2>2. [row[t] EXCEPT !.runs = Saturate(row[t].runs, RunsMax)] \in Row
    BY <1>1, <2>1 DEF Row
  <2> QED BY <1>5, <2>2, UpdateTyped DEF IncrementRuns
<1>6. WriteFails => row' \in [Task -> Row]
  BY DEF WriteFails
<1> QED BY <1>2, <1>3, <1>4, <1>5, <1>6

-----------------------------------------------------------------------------
(* Type correctness by component.  Whoever works on a task has one, and a  *)
(* slot is free exactly when it has none.                                  *)

RowOK == row \in [Task -> Row]
QueueOK == queue \in Seq(Task) /\ delayed \in [Task -> Nat]
DispOK ==
  /\ disp \in [pc : DispPC, task : Task \cup {None}, base : 0..U32Max,
               todo : SUBSET Task]
  /\ disp.pc \notin {"idle", "scan", "ended"} => disp.task \in Task
InstOK ==
  /\ inst \in [Instance -> [pc : InstPC, task : Task \cup {None},
                            base : 0..U32Max, out : Outcome]]
  /\ \A i \in Instance : inst[i].pc = "free" <=> inst[i].task = None
CountOK == overlap \in [Task -> Nat] /\ inFlight \in Int
FlagsOK == flags \in [Task -> Instance \cup {None}] /\ killed \subseteq Instance
WdOK ==
  /\ wd \in [pc : {"wait", "scan", "reload", "write", "stopped"},
             task : Task \cup {None}, todo : SUBSET Task]
  /\ wd.pc \in {"reload", "write"} => wd.task \in Task
PhaseOK ==
  /\ phase \in {"up", "draining", "exiting", "down"}
  /\ signalling \subseteq Task
  /\ orphan \subseteq Task
  /\ cron \in [plan : [Task -> CronVerdict], due : SUBSET Task]

TypeInv ==
  RowOK /\ QueueOK /\ DispOK /\ InstOK /\ CountOK /\ FlagsOK /\ WdOK /\ PhaseOK

(* The components make up the type invariant.                              *)
LEMMA TypeInvImpliesTypeOK == TypeInv => TypeOK
BY DEF TypeInv, TypeOK, RowOK, QueueOK, DispOK, InstOK, CountOK, FlagsOK,
       WdOK, PhaseOK

(* The daemon starts well typed.                                           *)
LEMMA InitTyped == Init => TypeInv
BY StoreAssumption, QueueAssumption
   DEF Init, StoreInit, QueueInit, Absent, IdleDisp, FreeInst, WdStart, WdWait,
       TypeInv, RowOK, QueueOK, DispOK, InstOK, CountOK, FlagsOK, WdOK, PhaseOK,
       Row, Terminal, Active, DispPC, InstPC, Outcome, CronIdle, CronVerdict

(* The queue loop's moves.                                                 *)
LEMMA GotoTyped ==
  ASSUME DispOK, NEW pc \in DispPC, disp.task \in Task \/ pc = "ended", Goto(pc)
  PROVE  DispOK'
BY DEF DispOK, Goto

(* The queue loop comes to rest.                                           *)
LEMMA GoIdleTyped == GoIdle => DispOK'
BY StoreAssumption DEF GoIdle, IdleDisp, DispOK, DispPC

(* A timer is spawned.                                                     *)
LEMMA DeferTyped ==
  ASSUME QueueOK, NEW t \in Task, Defer(t), UNCHANGED queue
  PROVE  QueueOK'
BY DEF QueueOK, Defer

(* A task future's moves.                                                  *)
LEMMA StepTyped ==
  ASSUME InstOK, NEW i \in Instance, NEW from, NEW to \in InstPC,
         from # "free", to # "free", Step(i, from, to)
  PROVE  InstOK' /\ inst[i].task \in Task
BY DEF InstOK, Step

(* Inserting an id into the priority list.                                 *)
LEMMA EnqueueTyped ==
  ASSUME queue \in Seq(Task), NEW t \in Task, Enqueue(t)
  PROVE  queue' \in Seq(Task)
<1>1. CASE Len(queue) < MaxPending
  <2>1. PICK k \in 0..Len(queue) :
          queue' = SubSeq(queue, 1, k) \o <<t>> \o SubSeq(queue, k + 1, Len(queue))
    BY <1>1 DEF Enqueue, Push
  <2> DEFINE front == SubSeq(queue, 1, k)
             back  == SubSeq(queue, k + 1, Len(queue))
  <2>2. front \in Seq(Task) /\ back \in Seq(Task) /\ <<t>> \in Seq(Task)
    OBVIOUS
  <2>3. queue' = (front \o <<t>>) \o back
    BY <2>1
  <2> HIDE DEF front, back
  <2>4. front \o <<t>> \in Seq(Task)
    BY <2>2
  <2> QED BY <2>2, <2>3, <2>4
<1>2. CASE ~(Len(queue) < MaxPending)
  BY <1>2 DEF Enqueue
<1> QED BY <1>1, <1>2

-----------------------------------------------------------------------------
(* Every step of the queue loop inside process_one keeps the types.        *)
LEMMA ProcessOneTyped ==
  ASSUME TypeInv, ProcessOne, UNCHANGED daemonVars
  PROVE  TypeInv'
<1> USE DEF TypeInv
<1>0. WdOK' /\ PhaseOK'
  BY DEF daemonVars, WdOK, PhaseOK
<1>1. CASE Drain
  <2>1. Head(queue) \in Task /\ Tail(queue) \in Seq(Task)
    BY <1>1 DEF Drain, QueueOK
  <2>2. QueueOK' /\ RowOK' /\ InstOK' /\ CountOK' /\ FlagsOK'
    BY <1>1, <2>1 DEF Drain, QueueOK, RowOK, InstOK, CountOK, FlagsOK
  <2>3. disp' = [pc |-> "load", task |-> Head(queue), base |-> 0, todo |-> {}]
    BY <1>1 DEF Drain, IdleDisp
  <2>4. DispOK'
    BY <2>1, <2>3, StoreAssumption DEF DispOK, DispPC
  <2> QED BY <1>0, <2>2, <2>4
<1>2. CASE LoadDrop
  <2>1. DispOK'
    BY <1>2, GoIdleTyped DEF LoadDrop
  <2> QED BY <1>0, <1>2, <2>1 DEF LoadDrop, QueueOK, RowOK, InstOK, CountOK, FlagsOK
<1>3. CASE LoadTask
  <2>1. row[disp.task].attempts \in 0..U32Max /\ disp.task \in Task
    BY <1>3 DEF LoadTask, At, RowOK, Row, DispOK
  <2>2. DispOK'
    BY <1>3, <2>1 DEF LoadTask, DispOK, DispPC, Goto
  <2> QED BY <1>0, <1>3, <2>2 DEF LoadTask, QueueOK, RowOK, InstOK, CountOK, FlagsOK
<1>4. CASE LoadTooEarly
  <2>1. DispOK'
    BY <1>4, GoIdleTyped DEF LoadTooEarly
  <2>2. QueueOK'
    BY <1>4, DeferTyped DEF LoadTooEarly, DispOK, At
  <2> QED BY <1>0, <1>4, <2>1, <2>2 DEF LoadTooEarly, RowOK, InstOK, CountOK, FlagsOK
<1>5. CASE Expire
  <2>1. DispOK' /\ disp.task \in Task
    BY <1>5, GoIdleTyped DEF Expire, DispOK, At
  <2>2. RowOK'
    BY <1>5, <2>1, WritesTyped DEF Expire, RowOK, Terminal
  <2> QED BY <1>0, <1>5, <2>1, <2>2 DEF Expire, QueueOK, InstOK, CountOK, FlagsOK
<1>6. CASE RateLimited
  <2>1. DispOK' /\ disp.task \in Task
    BY <1>6, GoIdleTyped DEF RateLimited, DispOK, At
  <2>2. RowOK'
    BY <1>6, <2>1, WritesTyped DEF RateLimited, RowOK
  <2>3. QueueOK'
    BY <1>6, <2>1, DeferTyped DEF RateLimited
  <2> QED BY <1>0, <1>6, <2>1, <2>2, <2>3 DEF RateLimited, InstOK, CountOK, FlagsOK
<1>7. CASE Overlapping
  <2>1. DispOK' /\ disp.task \in Task
    BY <1>7, GoIdleTyped DEF Overlapping, DispOK, At
  <2>2. QueueOK'
    BY <1>7, <2>1, DeferTyped DEF Overlapping
  <2> QED BY <1>0, <1>7, <2>1, <2>2 DEF Overlapping, RowOK, InstOK, CountOK, FlagsOK
<1>8. CASE CountFails
  BY <1>0, <1>8, GoIdleTyped
  DEF CountFails, QueueOK, RowOK, InstOK, CountOK, FlagsOK
<1>9. CASE Admit
  <2>1. DispOK'
    BY <1>9, GotoTyped DEF Admit, At, DispOK, DispPC
  <2> QED BY <1>0, <1>9, <2>1 DEF Admit, QueueOK, RowOK, InstOK, CountOK, FlagsOK
<1>10. CASE MarkRunning
  <2>1. disp.task \in Task
    BY <1>10 DEF MarkRunning, At, DispOK
  <2>2. RowOK'
    BY <1>10, <2>1, WritesTyped DEF MarkRunning, RowOK, Active
  <2>3. DispOK'
    BY <1>10, <2>1, GotoTyped, GoIdleTyped DEF MarkRunning, DispPC
  <2> QED BY <1>0, <1>10, <2>2, <2>3 DEF MarkRunning, QueueOK, InstOK, CountOK, FlagsOK
<1>11. CASE OnStart
  <2>1. disp.task \in Task
    BY <1>11 DEF OnStart, At, DispOK
  <2>2. CountOK'
    BY <1>11, <2>1 DEF OnStart, CountOK
  <2>3. DispOK'
    BY <1>11, <2>1, GotoTyped DEF OnStart, DispPC
  <2> QED BY <1>0, <1>11, <2>2, <2>3 DEF OnStart, QueueOK, RowOK, InstOK, FlagsOK
<1>12. ASSUME NEW i \in Instance, Spawn(i) PROVE TypeInv'
  <2>1. disp.task \in Task /\ disp.base \in 0..U32Max /\ disp.task # None
    BY <1>12, QueueAssumption DEF Spawn, At, DispOK
  <2>2. InstOK'
    BY <1>12, <2>1 DEF Spawn, InstOK, InstPC, Outcome
  <2>3. DispOK'
    BY <1>12, GoIdleTyped DEF Spawn
  <2> QED BY <1>0, <1>12, <2>2, <2>3 DEF Spawn, QueueOK, RowOK, CountOK, FlagsOK
<1> QED
  BY <1>1, <1>2, <1>3, <1>4, <1>5, <1>6, <1>7, <1>8, <1>9, <1>10, <1>11, <1>12
  DEF ProcessOne

(* So does every step of scan_retries, and the end of the loop.            *)
LEMMA QueueLoopTyped ==
  ASSUME TypeInv, QueueLoop
  PROVE  TypeInv'
<1> USE DEF TypeInv
<1>0. WdOK' /\ PhaseOK' /\ UNCHANGED daemonVars
  BY DEF QueueLoop, daemonVars, WdOK, PhaseOK
<1>1. CASE ProcessOne
  BY <1>0, <1>1, ProcessOneTyped
<1>2. CASE ScanRetries
  <2>1. PICK due \in SUBSET Task :
          disp' = [pc |-> "scan", task |-> None, base |-> 0, todo |-> due]
    BY <1>2 DEF ScanRetries, IdleDisp
  <2>2. DispOK'
    BY <2>1, StoreAssumption DEF DispOK, DispPC
  <2> QED BY <1>0, <1>2, <2>2 DEF ScanRetries, QueueOK, RowOK, InstOK, CountOK, FlagsOK
<1>3. ASSUME NEW t \in Task, ScanNext(t) PROVE DispOK'
  BY <1>3 DEF ScanNext, DispOK, DispPC
<1>4. ASSUME NEW t \in Task, ScanEnqueue(t) PROVE TypeInv'
  <2>1. DispOK'
    BY <1>3, <1>4 DEF ScanEnqueue, DispOK, DispPC
  <2>2. QueueOK'
    BY <1>4, EnqueueTyped DEF ScanEnqueue, QueueOK
  <2> QED BY <1>0, <1>4, <2>1, <2>2 DEF ScanEnqueue, RowOK, InstOK, CountOK, FlagsOK
<1>5. CASE ScanClear
  <2>1. disp.task \in Task
    BY <1>5 DEF ScanClear, At, DispOK
  <2>2. RowOK'
    BY <1>5, <2>1, WritesTyped DEF ScanClear, RowOK
  <2>3. DispOK'
    BY <1>3, <1>5, <2>1 DEF ScanClear
  <2> QED BY <1>0, <1>5, <2>2, <2>3 DEF ScanClear, QueueOK, InstOK, CountOK, FlagsOK
<1>6. CASE LoopEnds
  <2>1. DispOK'
    BY <1>6, GotoTyped DEF LoopEnds, DispPC
  <2> QED BY <1>0, <1>6, <2>1 DEF LoopEnds, QueueOK, RowOK, InstOK, CountOK, FlagsOK
<1> QED BY <1>1, <1>2, <1>4, <1>5, <1>6 DEF QueueLoop

(* Settling a row keeps the types: each step moves the future on and       *)
(* writes one column, or fails to.                                         *)
LEMMA SettleTyped ==
  ASSUME TypeInv, NEW i \in Instance, Settle(i)
  PROVE  InstOK' /\ RowOK' /\ UNCHANGED futureRest
<1> USE DEF TypeInv, RowOK
<1>0. inst[i] \in [pc : InstPC, task : Task \cup {None}, base : 0..U32Max, out : Outcome]
  BY DEF InstOK
<1>1. ASSUME NEW from \in InstPC \ {"free"}, NEW to \in InstPC \ {"free"},
             NEW s \in Terminal \cup Active, WriteState(i, from, s, to)
      PROVE  InstOK' /\ RowOK' /\ UNCHANGED futureRest
  BY <1>1, StepTyped, WritesTyped DEF WriteState
<1>2. ASSUME NEW from \in InstPC \ {"free"}, NEW reached \in InstPC \ {"free"},
             NEW otherwise \in InstPC \ {"free"}, CountRun(i, from, reached, otherwise)
      PROVE  InstOK' /\ RowOK' /\ UNCHANGED futureRest
  BY <1>2, StepTyped, WritesTyped DEF CountRun, InstPC
<1>3. Saturate(inst[i].base, U32Max) \in 0..U32Max
  BY <1>0, StoreAssumption, SaturateTyped
<1>4. CASE WriteCancelled(i)
  BY <1>1, <1>4 DEF WriteCancelled, InstPC, Terminal
<1>5. CASE WriteFailed(i)
  BY <1>1, <1>5 DEF WriteFailed, InstPC, Terminal
<1>6. CASE WriteSuccess(i)
  BY <1>1, <1>6 DEF WriteSuccess, InstPC, Terminal
<1>7. CASE WriteRest(i)
  BY <1>1, <1>7 DEF WriteRest, InstPC, Active
<1>8. CASE RewriteSuccess(i)
  BY <1>1, <1>8 DEF RewriteSuccess, InstPC, Terminal
<1>9. CASE FailedAttempts(i)
  BY <1>3, <1>9, StepTyped, WritesTyped DEF FailedAttempts, InstPC
<1>10. CASE RetryAttempts(i)
  BY <1>3, <1>10, StepTyped, WritesTyped DEF RetryAttempts, InstPC
<1>11. CASE RetryPending(i)
  BY <1>11, StepTyped, WritesTyped DEF RetryPending, InstPC, Active
<1>12. CASE RetryNextFire(i)
  BY <1>12, StepTyped, WritesTyped DEF RetryNextFire, InstPC
<1>13. CASE CountPeriodic(i)
  BY <1>2, <1>13 DEF CountPeriodic, InstPC
<1>14. CASE TallyOnce(i)
  BY <1>2, <1>14 DEF TallyOnce, InstPC
<1> QED
  BY <1>4, <1>5, <1>6, <1>7, <1>8, <1>9, <1>10, <1>11, <1>12, <1>13, <1>14
  DEF Settle

(* So does every other step of a task future.                              *)
LEMMA FutureTyped ==
  ASSUME TypeInv, NEW i \in Instance, Future(i)
  PROVE  TypeInv'
<1> USE DEF TypeInv
<1>0. /\ WdOK' /\ PhaseOK'
      /\ inst[i] \in [pc : InstPC, task : Task \cup {None}, base : 0..U32Max,
                      out : Outcome]
  BY DEF Future, daemonVars, WdOK, PhaseOK, InstOK
<1>1. CASE Start(i)
  <2>1. InstOK'
    BY <1>1, StepTyped DEF Start, InstPC
  <2> QED BY <1>0, <1>1, <2>1 DEF Start, RowOK, QueueOK, DispOK, CountOK, FlagsOK
<1>2. CASE RegisterFlag(i)
  <2>1. InstOK' /\ inst[i].task \in Task
    BY <1>2, StepTyped DEF RegisterFlag, InstPC
  <2>2. FlagsOK'
    BY <1>2, <2>1 DEF RegisterFlag, FlagsOK
  <2> QED BY <1>0, <1>2, <2>1, <2>2 DEF RegisterFlag, RowOK, QueueOK, DispOK, CountOK
<1>3. CASE Execute(i)
  <2>1. PICK o \in Outcome : inst' = [inst EXCEPT ![i].pc = "unflag", ![i].out = o]
    BY <1>3 DEF Execute
  <2>2. InstOK'
    BY <1>0, <1>3, <2>1 DEF Execute, InstOK, InstPC
  <2> QED
    BY <1>0, <1>3, <2>2
    DEF Execute, futureRest, RowOK, QueueOK, DispOK, CountOK, FlagsOK
<1>4. CASE UnregisterFlag(i)
  <2>1. InstOK' /\ inst[i].task \in Task
    BY <1>4, StepTyped DEF UnregisterFlag, InstPC
  <2>2. FlagsOK'
    BY <1>4, <2>1 DEF UnregisterFlag, FlagsOK
  <2> QED BY <1>0, <1>4, <2>1, <2>2 DEF UnregisterFlag, RowOK, QueueOK, DispOK, CountOK
<1>5. OnFailure(i) \in InstPC \ {"free"} /\ Judge(i) \in InstPC \ {"free"}
  BY DEF OnFailure, Judge, InstPC
<1>6. CASE Verdict(i)
  <2>1. PICK to \in InstPC \ {"free"} :
          inst' = [inst EXCEPT ![i].pc = to, ![i].out = "none"]
    BY <1>5, <1>6 DEF Verdict, InstPC
  <2>2. InstOK'
    BY <1>0, <1>6, <2>1 DEF Verdict, InstOK, Outcome
  <2> QED
    BY <1>0, <1>6, <2>2
    DEF Verdict, futureRest, RowOK, QueueOK, DispOK, CountOK, FlagsOK
<1>7. CASE GuardInterrupted(i)
  <2>1. InstOK'
    BY <1>5, <1>7, StepTyped DEF GuardInterrupted, InstPC
  <2> QED
    BY <1>0, <1>7, <2>1
    DEF GuardInterrupted, futureRest, RowOK, QueueOK, DispOK, CountOK, FlagsOK
<1>8. CASE Settle(i)
  <2>1. InstOK' /\ RowOK' /\ UNCHANGED futureRest
    BY <1>8, SettleTyped
  <2> QED BY <1>0, <2>1 DEF futureRest, QueueOK, DispOK, CountOK, FlagsOK
<1>9. CASE Finish(i)
  <2>1. inst[i].task \in Task
    BY <1>0, <1>9 DEF Finish, InstOK
  <2>2. CountOK'
    BY <1>9, <2>1 DEF Finish, CountOK
  <2>3. inst' = [inst EXCEPT ![i] = [pc |-> "free", task |-> None, base |-> 0, out |-> "none"]]
    BY <1>9 DEF Finish, FreeInst
  <2>4. InstOK'
    BY <2>3, StoreAssumption DEF InstOK, InstPC, Outcome
  <2> QED BY <1>0, <1>9, <2>2, <2>4 DEF Finish, RowOK, QueueOK, DispOK, FlagsOK
<1> QED
  BY <1>1, <1>2, <1>3, <1>4, <1>6, <1>7, <1>8, <1>9 DEF Future, FutureStep

(* The IPC handlers and the timers.                                        *)
LEMMA ClientTyped ==
  ASSUME TypeInv, NEW t \in Task,
         Dispatch(t) \/ Cancel(t) \/ CancelSignal(t) \/ Requeue(t) \/ Remove(t)
           \/ Pause(t) \/ Timer(t) \/ OrphanExit(t)
  PROVE  TypeInv'
<1> USE DEF TypeInv
<1>0. row[t] \in Row
  BY DEF RowOK
<1>1. CASE Dispatch(t)
  <2>1. [state |-> "pending", attempts |-> 0, next |-> FirstFire(t),
         cancel |-> FALSE, paused |-> FALSE, runs |-> 0] \in Row
    BY StoreAssumption DEF FirstFire, Row, Active
  <2>2. RowOK'
    BY <1>1, <2>1 DEF Dispatch, InsertTask, RowOK, Absent
  <2>3. QueueOK'
    BY <1>1, EnqueueTyped DEF Dispatch, QueueOK
  <2> QED
    BY <1>1, <2>2, <2>3
    DEF Dispatch, daemonVars, DispOK, InstOK, CountOK, FlagsOK, WdOK, PhaseOK
<1>2. CASE Cancel(t)
  <2>1. PICK s \in {row[t].state, "cancelled"}, c \in BOOLEAN :
          row' = [row EXCEPT ![t] = [row[t] EXCEPT !.state = s, !.cancel = c]]
    BY <1>0, <1>2, StoreAssumption DEF Cancel, CancelTask, Row, RowOK
  <2>2. [row[t] EXCEPT !.state = s, !.cancel = c] \in Row
    BY <1>0, <2>1 DEF Row, Terminal
  <2>3. RowOK'
    BY <2>1, <2>2 DEF RowOK
  <2> QED
    BY <1>2, <2>3
    DEF Cancel, queueVars, QueueOK, DispOK, InstOK, CountOK, FlagsOK, WdOK, PhaseOK
<1>3. CASE CancelSignal(t)
  BY <1>3 DEF CancelSignal, SignalCancel, RowOK, QueueOK, DispOK, InstOK, CountOK,
              FlagsOK, WdOK, PhaseOK
<1>4. CASE Requeue(t)
  <2> DEFINE fresh == [row[t] EXCEPT !.state = "pending", !.attempts = 0,
                                     !.cancel = FALSE, !.next = "some"]
  <2>1. fresh \in Row
    <3>1. 0 \in 0..U32Max /\ "pending" \in Active
      BY StoreAssumption DEF Active
    <3> QED BY <1>0, <3>1 DEF Row
  <2>2. RowOK'
    <3>1. row' = [row EXCEPT ![t] = fresh]
      BY <1>4 DEF Requeue, RequeueTask
    <3> HIDE DEF fresh
    <3> QED BY <2>1, <3>1 DEF RowOK
  <2> QED
    BY <1>4, <2>2
    DEF Requeue, queueVars, daemonVars, QueueOK, DispOK, InstOK, CountOK, FlagsOK,
        WdOK, PhaseOK
<1>5. CASE Remove(t)
  <2>1. Absent \in Row
    BY StoreAssumption DEF Absent, Row
  <2>2. RowOK'
    BY <1>5, <2>1 DEF Remove, RemoveTask, RowOK
  <2> QED
    BY <1>5, <2>2
    DEF Remove, queueVars, daemonVars, QueueOK, DispOK, InstOK, CountOK, FlagsOK,
        WdOK, PhaseOK
<1>6. CASE Timer(t)
  <2>1. QueueOK'
    BY <1>6, EnqueueTyped DEF Timer, ReEnqueue, QueueOK
  <2> QED
    BY <1>6, <2>1
    DEF Timer, ReEnqueue, daemonVars, RowOK, DispOK, InstOK, CountOK, FlagsOK,
        WdOK, PhaseOK
<1>7. CASE Pause(t)
  <2>1. [row[t] EXCEPT !.paused = ~row[t].paused] \in Row
    BY <1>0 DEF Row
  <2>2. RowOK'
    BY <1>7, <2>1 DEF Pause, SetPaused, RowOK
  <2> QED
    BY <1>7, <2>2
    DEF Pause, queueVars, daemonVars, QueueOK, DispOK, InstOK, CountOK, FlagsOK,
        WdOK, PhaseOK
<1>8. CASE OrphanExit(t)
  BY <1>8 DEF OrphanExit, queueVars, RowOK, QueueOK, DispOK, InstOK, CountOK,
              FlagsOK, WdOK, PhaseOK
<1> QED BY <1>1, <1>2, <1>3, <1>4, <1>5, <1>6, <1>7, <1>8

(* The cron loop.                                                          *)
LEMMA CronTyped ==
  ASSUME TypeInv, CronLoop
  PROVE  TypeInv'
<1> USE DEF TypeInv
<1>1. CASE StartScan
  <2>1. PhaseOK'
    BY <1>1 DEF CronLoop, StartScan, PhaseOK
  <2> QED
    BY <1>1, <2>1
    DEF CronLoop, StartScan, cronRest, RowOK, QueueOK, DispOK, InstOK, CountOK,
        FlagsOK, WdOK
<1>2. ASSUME NEW t \in Task, NEW v, CronDrop(t, v) PROVE PhaseOK'
  BY <1>2 DEF CronLoop, CronDrop, PhaseOK, CronVerdict
<1>3. ASSUME NEW t \in Task, CronFinish(t) \/ CronExpire(t) PROVE TypeInv'
  <2>1. RowOK' /\ PhaseOK'
    BY <1>2, <1>3, WritesTyped DEF CronFinish, CronExpire, RowOK, Terminal
  <2> QED
    BY <1>3, <2>1
    DEF CronLoop, CronFinish, CronExpire, cronRest, QueueOK, DispOK, InstOK, CountOK,
        FlagsOK, WdOK
<1>4. ASSUME NEW t \in Task, CronFire(t) PROVE TypeInv'
  <2>1. RowOK'
    BY <1>4, WritesTyped DEF CronFire, RowOK
  <2>2. PhaseOK'
    BY <1>4 DEF CronLoop, CronFire, PhaseOK, CronVerdict
  <2> QED
    BY <1>4, <2>1, <2>2
    DEF CronLoop, CronFire, cronRest, QueueOK, DispOK, InstOK, CountOK, FlagsOK, WdOK
<1>5. CASE OnDue
  <2>1. QueueOK'
    BY <1>5 DEF OnDue, cronRest, QueueOK
  <2>2. PhaseOK'
    BY <1>5 DEF CronLoop, OnDue, CronIdle, PhaseOK, CronVerdict
  <2> QED
    BY <1>5, <2>1, <2>2
    DEF CronLoop, OnDue, cronRest, RowOK, DispOK, InstOK, CountOK, FlagsOK, WdOK
<1> QED BY <1>1, <1>3, <1>4, <1>5 DEF CronLoop, CronStep

(* The watchdog.                                                           *)
LEMMA WatchdogTyped ==
  ASSUME TypeInv, Watchdog
  PROVE  TypeInv'
<1> USE DEF TypeInv
<1>1. CASE WatchdogScan
  <2>1. PICK overdue \in SUBSET Task : wd' = [wd EXCEPT !.pc = "scan", !.todo = overdue]
    BY <1>1 DEF WatchdogScan
  <2>2. WdOK'
    BY <2>1 DEF WdOK
  <2> QED
    BY <1>1, <2>2
    DEF WatchdogScan, wdRest, RowOK, QueueOK, DispOK, InstOK, CountOK, FlagsOK, PhaseOK
<1>2. CASE WatchdogReload
  <2>1. WdOK'
    <3>1. \/ wd' = [wd EXCEPT !.pc = "write"] /\ wd.task \in Task
          \/ wd' = [wd EXCEPT !.pc = "scan", !.task = None]
          \/ wd' = [pc |-> "wait", task |-> None, todo |-> {}]
      BY <1>2 DEF WatchdogReload, WdOK, WdWait
    <3>2. WdOK
      OBVIOUS
    <3> HIDE DEF TypeInv
    <3>3. wd' = [wd EXCEPT !.pc = "write"] /\ wd.task \in Task => WdOK'
      BY <3>2 DEF WdOK
    <3>4. wd' = [wd EXCEPT !.pc = "scan", !.task = None] => WdOK'
      BY <3>2 DEF WdOK
    <3>5. wd' = [pc |-> "wait", task |-> None, todo |-> {}] => WdOK'
      BY DEF WdOK
    <3> QED BY <3>1, <3>3, <3>4, <3>5
  <2> QED
    BY <1>2, <2>1
    DEF WatchdogReload, wdRest, RowOK, QueueOK, DispOK, InstOK, CountOK, FlagsOK, PhaseOK
<1>3. CASE WatchdogWrite
  <2>1. wd.task \in Task
    BY <1>3 DEF WatchdogWrite, WdOK
  <2>2. RowOK'
    BY <1>3, <2>1, WritesTyped DEF WatchdogWrite, RowOK, Active
  <2>3. WdOK'
    BY <1>3 DEF WatchdogWrite, WdOK
  <2> QED
    BY <1>3, <2>2, <2>3
    DEF WatchdogWrite, wdRest, QueueOK, DispOK, InstOK, CountOK, FlagsOK, PhaseOK
<1>4. CASE WatchdogDone
  <2>1. WdOK'
    BY <1>4 DEF WatchdogDone, WdOK, WdWait
  <2> QED
    BY <1>4, <2>1
    DEF WatchdogDone, wdRest, RowOK, QueueOK, DispOK, InstOK, CountOK, FlagsOK, PhaseOK
<1>5. ASSUME NEW t \in Task, WatchdogSignal(t) PROVE TypeInv'
  <2>1. WdOK'
    BY <1>5 DEF WatchdogSignal, WdOK
  <2>2. FlagsOK'
    BY <1>5 DEF WatchdogSignal, wdRest, SignalCancel, FlagsOK
  <2> QED
    BY <1>5, <2>1, <2>2
    DEF WatchdogSignal, wdRest, RowOK, QueueOK, DispOK, InstOK, CountOK, PhaseOK
<1> QED BY <1>1, <1>2, <1>3, <1>4, <1>5 DEF Watchdog

(* Shutdown, crash and restart.                                            *)
LEMMA LifecycleTyped ==
  ASSUME TypeInv, Stop \/ EndDrain \/ Exit \/ Restart
  PROVE  TypeInv'
<1> USE DEF TypeInv
<1>1. CASE Stop
  <2>1. WdOK'
    BY <1>1 DEF Stop, WdOK
  <2> QED
    BY <1>1, <2>1
    DEF Stop, queueVars, RowOK, QueueOK, DispOK, InstOK, CountOK, FlagsOK, PhaseOK
<1>2. CASE EndDrain
  <2>1. RowOK'
    BY <1>2 DEF EndDrain, MarkRunningAsInterrupted, WriteFails, RowOK, Row, Active
  <2> QED
    BY <1>2, <2>1
    DEF EndDrain, queueVars, QueueOK, DispOK, InstOK, CountOK, FlagsOK, WdOK, PhaseOK
<1>3. CASE Exit
  <2>1. RowOK'
    <3>1. Absent \in Row
      BY StoreAssumption DEF Absent, Row
    <3> QED BY <1>3, <3>1 DEF Exit, RowOK
  <2>2. QueueOK' /\ CountOK' /\ FlagsOK'
    BY <1>3 DEF Exit, QueueOK, CountOK, FlagsOK
  <2>3. InstOK'
    BY <1>3, StoreAssumption DEF Exit, InstOK, FreeInst, InstPC, Outcome
  <2>4. DispOK'
    BY <1>3, StoreAssumption DEF Exit, DispOK, IdleDisp, DispPC
  <2>5. WdOK'
    BY <1>3 DEF Exit, WdOK, WdStart, WdWait
  <2>6. PhaseOK'
    BY <1>3 DEF Exit, PhaseOK, CronIdle, CronVerdict
  <2> QED BY <2>1, <2>2, <2>3, <2>4, <2>5, <2>6
<1>4. CASE Restart
  <2>1. ResetRunningToPending(orphan) \in [Task -> Row]
    <3>1. ASSUME NEW t \in Task
          PROVE  [row[t] EXCEPT !.state = "pending", !.next = "some"] \in Row
      BY DEF RowOK, Row, Active
    <3> QED BY <3>1 DEF ResetRunningToPending, RowOK
  <2>2. ASSUME NEW rows \in [Task -> Row]
        PROVE  RearmStuckRunAt(rows) \in [Task -> Row]
    <3>1. ASSUME NEW t \in Task
          PROVE  [rows[t] EXCEPT !.next = "some"] \in Row
      BY DEF Row
    <3> QED BY <3>1 DEF RearmStuckRunAt
  <2>3. RowOK'
    BY <1>4, <2>1, <2>2 DEF Restart, RowOK
  <2> QED
    BY <1>4, <2>3
    DEF Restart, queueVars, QueueOK, DispOK, InstOK, CountOK, FlagsOK, WdOK, PhaseOK
<1> QED BY <1>1, <1>2, <1>3, <1>4

(* No step of the daemon leaves the types.                                 *)
LEMMA NextTyped == TypeInv /\ [Next]_vars => TypeInv'
<1> SUFFICES ASSUME TypeInv, [Next]_vars PROVE TypeInv'
  OBVIOUS
<1>1. CASE UNCHANGED vars
  BY <1>1 DEF vars, queueVars, daemonVars, TypeInv, RowOK, QueueOK, DispOK, InstOK,
              CountOK, FlagsOK, WdOK, PhaseOK
<1> QED
  BY <1>1, QueueLoopTyped, CronTyped, FutureTyped, ClientTyped, WatchdogTyped,
     LifecycleTyped
  DEF Next

(* Every variable always has its type: with any tasks, any bounds, any     *)
(* faults.                                                                 *)
THEOREM TypeCorrect == Spec => []TypeOK
<1>1. TypeInv /\ [Next]_vars => TypeInv'
  BY NextTyped
<1> QED BY InitTyped, TypeInvImpliesTypeOK, <1>1, PTL DEF Spec

-----------------------------------------------------------------------------
(* The overlap control.  ConcurrencyCap is not inductive: it only follows  *)
(* because the counter is balanced, stays within the limit, and is below   *)
(* it while the queue loop is between the check and the increment.         *)

Capped == \A t \in Task : ~Unlimited(t) => overlap[t] <= Def[t].instances

Admitted ==
  disp.pc \in {"mark", "count"} /\ ~Unlimited(disp.task)
    => overlap[disp.task] < Def[disp.task].instances

OverlapInv == TypeInv /\ OverlapBalanced /\ Capped /\ Admitted

(* The live instances of a task are those that carry its id.               *)
LEMMA LiveByTask ==
  ASSUME InstOK, NEW t \in Task
  PROVE  Live(t) = {i \in Instance : inst[i].task = t}
BY QueueAssumption DEF InstOK, Live

(* They are finitely many.                                                 *)
LEMMA LiveFinite ==
  ASSUME NEW t \in Task
  PROVE  IsFiniteSet(Live(t)) /\ Cardinality(Live(t)) \in Nat
<1>1. Live(t) \subseteq Instance
  BY DEF Live
<1> QED BY <1>1, QueueAssumption, FS_Subset, FS_CardinalityType

(* The limit of a task is a positive number.                               *)
LEMMA LimitType == \A t \in Task : Def[t].instances \in Nat \ {0}
BY StoreAssumption DEF Definition

(* A step that neither starts nor ends an execution.                       *)
LEMMA QuietStep ==
  ASSUME OverlapInv, TypeInv', UNCHANGED overlap, Admitted',
         \A i \in Instance : inst'[i].task = inst[i].task,
         \A t \in Task : Starting(t)' = Starting(t)
  PROVE  OverlapInv' /\ \A t \in Task : Live(t)' = Live(t)
<1>1. ASSUME NEW t \in Task PROVE Live(t)' = Live(t)
  <2>1. Live(t) = {i \in Instance : inst[i].task = t}
    BY LiveByTask DEF OverlapInv, TypeInv
  <2>2. InstOK' => Live(t)' = {i \in Instance : inst'[i].task = t}
    BY QueueAssumption DEF InstOK, Live
  <2> QED BY <2>1, <2>2 DEF TypeInv
<1>2. OverlapBalanced'
  BY <1>1 DEF OverlapInv, OverlapBalanced
<1>3. Capped'
  BY DEF OverlapInv, Capped, Unlimited
<1> QED BY <1>1, <1>2, <1>3 DEF OverlapInv

(* Nothing runs at the start.                                              *)
LEMMA InitOverlap == Init => OverlapInv
<1> SUFFICES ASSUME Init PROVE OverlapInv
  OBVIOUS
<1>1. TypeInv
  BY InitTyped
<1>2. \A t \in Task : Live(t) = {} /\ overlap[t] = 0 /\ Starting(t) = 0
  BY DEF Init, QueueInit, FreeInst, IdleDisp, Live, Starting
<1>3. OverlapBalanced
  BY <1>2, FS_EmptySet DEF OverlapBalanced
<1>4. Capped
  BY <1>2, LimitType DEF Capped
<1>5. Admitted
  BY DEF Init, QueueInit, IdleDisp, Admitted
<1> QED BY <1>1, <1>3, <1>4, <1>5 DEF OverlapInv

(* Only Spawn starts an execution in the queue loop; the check, the        *)
(* Running mark and the increment before it keep the counter in the limit. *)
LEMMA QueueLoopOverlap ==
  ASSUME OverlapInv, TypeInv', QueueLoop, \A i \in Instance : ~Spawn(i)
  PROVE  OverlapInv' /\ \A t \in Task : Live(t)' = Live(t)
<1>1. ASSUME UNCHANGED <<inst, overlap>>, disp.pc # "spawn",
             disp'.pc \notin {"mark", "count", "spawn"}
      PROVE  OverlapInv' /\ \A t \in Task : Live(t)' = Live(t)
  <2>1. Admitted' /\ \A t \in Task : Starting(t)' = Starting(t)
    BY <1>1 DEF Admitted, Starting
  <2> QED BY <1>1, <2>1, QuietStep
<1>2. CASE Drain
  <2>1. disp'.pc = "load"
    BY <1>2 DEF Drain, IdleDisp
  <2> QED BY <1>1, <1>2, <2>1 DEF Drain, At
<1>8. CASE LoadDrop \/ LoadTooEarly \/ Expire \/ RateLimited \/ Overlapping \/ CountFails
  <2>1. disp.pc # "spawn" /\ UNCHANGED <<inst, overlap>> /\ disp' = IdleDisp
    BY <1>8 DEF LoadDrop, LoadTooEarly, Expire, RateLimited, Overlapping, CountFails,
                At, GoIdle
  <2> QED BY <1>1, <2>1 DEF IdleDisp
<1>3. CASE LoadTask
  <2>1. disp'.pc \in {"gate", "expire"}
    BY <1>3 DEF LoadTask, Goto, OverlapInv, TypeInv, DispOK
  <2> QED BY <1>1, <1>3, <2>1 DEF LoadTask, At
<1>4. CASE Admit
  <2>1. disp' = [disp EXCEPT !.pc = "mark"] /\ disp.task \in Task /\ disp.pc = "gate"
    BY <1>4 DEF Admit, Goto, At, OverlapInv, TypeInv, DispOK
  <2>2. disp'.pc = "mark" /\ disp'.task = disp.task
    BY <2>1 DEF OverlapInv, TypeInv, DispOK
  <2>3. Admitted'
    BY <1>4, <2>1, <2>2, LimitType
    DEF Admit, ShouldFire, RunningCount, Unlimited, Admitted, OverlapInv, TypeInv, CountOK
  <2>4. \A t \in Task : Starting(t)' = Starting(t)
    BY <2>1, <2>2 DEF Starting
  <2> QED BY <1>4, <2>3, <2>4, QuietStep DEF Admit
<1>5. CASE MarkRunning
  <2>1. disp.pc = "mark" /\ (disp' = [disp EXCEPT !.pc = "count"] \/ disp' = IdleDisp)
    BY <1>5 DEF MarkRunning, At, Goto, GoIdle
  <2>2. disp'.pc = "idle" \/ (disp'.pc = "count" /\ disp'.task = disp.task)
    BY <2>1 DEF OverlapInv, TypeInv, DispOK, IdleDisp
  <2>3. Admitted'
    BY <1>5, <2>1, <2>2 DEF MarkRunning, Admitted, Unlimited, OverlapInv
  <2>4. \A t \in Task : Starting(t)' = Starting(t)
    BY <2>1, <2>2 DEF Starting
  <2> QED BY <1>5, <2>3, <2>4, QuietStep DEF MarkRunning
<1>6. CASE OnStart
  <2>1. /\ disp.pc = "count" /\ disp.task \in Task
        /\ disp' = [disp EXCEPT !.pc = "spawn"]
        /\ overlap' = [overlap EXCEPT ![disp.task] = @ + 1]
        /\ UNCHANGED inst
    BY <1>6 DEF OnStart, At, Goto, OverlapInv, TypeInv, DispOK
  <2>2. disp'.pc = "spawn" /\ disp'.task = disp.task
    BY <2>1 DEF OverlapInv, TypeInv, DispOK
  <2>3. \A t \in Task : Live(t)' = Live(t)
    BY <2>1 DEF Live
  <2>4. ASSUME NEW t \in Task PROVE overlap'[t] = Cardinality(Live(t)') + Starting(t)'
    <3>1. overlap[t] = Cardinality(Live(t)) + Starting(t) /\ overlap[t] \in Nat
      BY DEF OverlapInv, OverlapBalanced, TypeInv, CountOK
    <3>2. Starting(t) = 0 /\ Starting(t)' = IF t = disp.task THEN 1 ELSE 0
      BY <2>1, <2>2 DEF Starting
    <3> QED BY <2>1, <2>3, <3>1, <3>2, LiveFinite DEF OverlapInv, TypeInv, CountOK
  <2>5. OverlapBalanced'
    BY <2>4 DEF OverlapBalanced
  <2>6. Capped'
    BY <2>1, LimitType DEF OverlapInv, Capped, Admitted, Unlimited, TypeInv, CountOK
  <2>7. Admitted'
    BY <2>2 DEF Admitted
  <2> QED BY <2>3, <2>5, <2>6, <2>7 DEF OverlapInv
<1>7. CASE ScanRetries \/ ScanClear \/ LoopEnds \/ \E t \in Task : ScanEnqueue(t)
  <2>1. ASSUME NEW t, ScanNext(t) PROVE disp'.pc \in {"idle", "scan"}
    BY <2>1 DEF ScanNext, OverlapInv, TypeInv, DispOK
  <2>2. disp'.pc \in {"idle", "scan", "clear", "ended"}
    <3>1. CASE ScanRetries
      BY <3>1 DEF ScanRetries, IdleDisp
    <3>2. CASE ScanClear
      BY <2>1, <3>2 DEF ScanClear
    <3>3. CASE LoopEnds
      BY <3>3 DEF LoopEnds, Goto, OverlapInv, TypeInv, DispOK
    <3>4. CASE \E t \in Task : ScanEnqueue(t)
      BY <2>1, <3>4 DEF ScanEnqueue, OverlapInv, TypeInv, DispOK
    <3> QED BY <1>7, <3>1, <3>2, <3>3, <3>4
  <2>3. disp.pc # "spawn" /\ UNCHANGED <<inst, overlap>>
    BY <1>7 DEF ScanRetries, ScanClear, LoopEnds, ScanEnqueue, At
  <2> QED BY <1>1, <2>2, <2>3
<1> QED
  BY <1>2, <1>3, <1>4, <1>5, <1>6, <1>7, <1>8 DEF QueueLoop, ProcessOne

(* Spawn turns the increment of on_start into a live instance.             *)
LEMMA SpawnOverlap ==
  ASSUME OverlapInv, TypeInv', NEW i \in Instance, Spawn(i)
  PROVE  /\ OverlapInv'
         /\ disp.task \in Task
         /\ Unlimited(disp.task) \/ Cardinality(Live(disp.task)) < Def[disp.task].instances
         /\ \A t \in Task : Cardinality(Live(t))' =
              IF t = disp.task THEN Cardinality(Live(t)) + 1 ELSE Cardinality(Live(t))
<1>1. /\ disp.pc = "spawn" /\ disp.task \in Task /\ disp.task # None
      /\ inst[i].pc = "free" /\ inst[i].task = None
      /\ disp' = IdleDisp /\ UNCHANGED overlap
      /\ inst' = [inst EXCEPT ![i] = [pc |-> "queued", task |-> disp.task,
                                      base |-> disp.base, out |-> "none"]]
  BY QueueAssumption DEF Spawn, At, GoIdle, OverlapInv, TypeInv, DispOK, InstOK
<1>2. \A j \in Instance : inst'[j].task = IF j = i THEN disp.task ELSE inst[j].task
  BY <1>1 DEF OverlapInv, TypeInv, InstOK
<1>3. ASSUME NEW t \in Task
      PROVE  Live(t)' = IF t = disp.task THEN Live(t) \cup {i} ELSE Live(t)
  <2>1. Live(t) = {j \in Instance : inst[j].task = t}
    BY LiveByTask DEF OverlapInv, TypeInv
  <2>2. Live(t)' = {j \in Instance : inst'[j].task = t}
    BY QueueAssumption DEF TypeInv, InstOK, Live
  <2> QED BY <1>1, <1>2, <2>1, <2>2, QueueAssumption
<1>4. \A t \in Task : i \notin Live(t)
  BY <1>1 DEF Live
<1>5. \A t \in Task : Cardinality(Live(t))' =
        IF t = disp.task THEN Cardinality(Live(t)) + 1 ELSE Cardinality(Live(t))
  BY <1>3, <1>4, LiveFinite, FS_AddElement
<1>6. \A t \in Task : Starting(t) = (IF t = disp.task THEN 1 ELSE 0) /\ Starting(t)' = 0
  BY <1>1 DEF Starting, IdleDisp
<1>7. OverlapBalanced'
  BY <1>1, <1>5, <1>6, LiveFinite DEF OverlapInv, OverlapBalanced
<1>8. Capped' /\ Admitted'
  BY <1>1 DEF OverlapInv, Capped, Unlimited, Admitted, IdleDisp
<1>9. Unlimited(disp.task) \/ Cardinality(Live(disp.task)) < Def[disp.task].instances
  BY <1>1, <1>6, LiveFinite, LimitType DEF OverlapInv, OverlapBalanced, Capped
<1> QED BY <1>1, <1>5, <1>7, <1>8, <1>9 DEF OverlapInv

(* Finish takes its instance out of the count.                             *)
LEMMA FinishOverlap ==
  ASSUME OverlapInv, TypeInv', NEW i \in Instance, Finish(i), UNCHANGED daemonVars
  PROVE  /\ OverlapInv'
         /\ inst[i].task \in Task
         /\ Cardinality(Live(inst[i].task)) > 0
         /\ \A t \in Task : Cardinality(Live(t))' =
              IF t = inst[i].task THEN Cardinality(Live(t)) - 1 ELSE Cardinality(Live(t))
<1> DEFINE u == inst[i].task
<1>1. /\ inst[i].pc # "free" /\ u \in Task /\ u # None
      /\ UNCHANGED disp
      /\ inst' = [inst EXCEPT ![i] = FreeInst]
      /\ overlap' = [overlap EXCEPT ![u] = IF @ > 0 THEN @ - 1 ELSE @]
  BY QueueAssumption DEF Finish, OverlapInv, TypeInv, InstOK
<1>2. \A j \in Instance : inst'[j].task = IF j = i THEN None ELSE inst[j].task
  BY <1>1 DEF OverlapInv, TypeInv, InstOK, FreeInst
<1>3. ASSUME NEW t \in Task
      PROVE  Live(t)' = IF t = u THEN Live(t) \ {i} ELSE Live(t)
  <2>1. Live(t) = {j \in Instance : inst[j].task = t}
    BY LiveByTask DEF OverlapInv, TypeInv
  <2>2. Live(t)' = {j \in Instance : inst'[j].task = t}
    BY QueueAssumption DEF TypeInv, InstOK, Live
  <2> QED BY <1>1, <1>2, <2>1, <2>2, QueueAssumption
<1>4. i \in Live(u)
  BY <1>1 DEF Live
<1>5. \A t \in Task : Cardinality(Live(t))' =
        IF t = u THEN Cardinality(Live(t)) - 1 ELSE Cardinality(Live(t))
  BY <1>3, <1>4, LiveFinite, FS_RemoveElement
<1>6. Cardinality(Live(u)) > 0
  BY <1>1, <1>4, LiveFinite, FS_EmptySet
<1>7. \A t \in Task : Starting(t) \in {0, 1} /\ Starting(t)' = Starting(t)
  BY <1>1 DEF Starting
<1>8. ASSUME NEW t \in Task
      PROVE  overlap'[t] = IF t = u THEN overlap[t] - 1 ELSE overlap[t]
  <2>1. overlap[u] = Cardinality(Live(u)) + Starting(u) /\ overlap[u] \in Nat
    BY <1>1 DEF OverlapInv, OverlapBalanced, TypeInv, CountOK
  <2> QED BY <1>1, <1>6, <1>7, <2>1, LiveFinite DEF OverlapInv, TypeInv, CountOK
<1>9. OverlapBalanced'
  BY <1>5, <1>7, <1>8, LiveFinite DEF OverlapInv, OverlapBalanced
<1>10. \A t \in Task : overlap'[t] <= overlap[t]
  BY <1>8 DEF OverlapInv, TypeInv, CountOK
<1>11. Capped'
  BY <1>10, LimitType DEF OverlapInv, Capped, Unlimited, TypeInv, CountOK
<1>12. Admitted'
  <2> SUFFICES ASSUME disp.pc \in {"mark", "count"}, ~Unlimited(disp.task)
               PROVE  overlap'[disp.task] < Def[disp.task].instances
    BY <1>1 DEF Admitted, Unlimited
  <2>1. disp.task \in Task
    BY DEF OverlapInv, TypeInv, DispOK
  <2> QED BY <1>10, <2>1, LimitType DEF OverlapInv, Admitted, TypeInv, CountOK
<1> QED BY <1>1, <1>5, <1>6, <1>9, <1>11, <1>12 DEF OverlapInv

(* Every other step of a future moves its pc and leaves its task alone.    *)
LEMMA FutureKeepsTasks ==
  ASSUME TypeInv, NEW i \in Instance, Future(i), ~Finish(i)
  PROVE  UNCHANGED <<overlap, disp>> /\ \A j \in Instance : inst'[j].task = inst[j].task
<1> USE DEF TypeInv
<1>1. ASSUME NEW from, NEW to, Step(i, from, to)
      PROVE  \A j \in Instance : inst'[j].task = inst[j].task
  BY <1>1 DEF Step, InstOK
<1>2. CASE Start(i) \/ RegisterFlag(i) \/ UnregisterFlag(i) \/ GuardInterrupted(i)
  BY <1>1, <1>2 DEF Start, RegisterFlag, UnregisterFlag, GuardInterrupted, futureRest
<1>3. CASE Execute(i)
  BY <1>3 DEF Execute, InstOK, futureRest
<1>4. CASE Verdict(i)
  BY <1>4 DEF Verdict, InstOK, futureRest
<1>5. CASE Settle(i)
  <2>1. UNCHANGED futureRest /\ \E from, to : Step(i, from, to)
    BY <1>5
    DEF Settle, WriteState, WriteCancelled, WriteFailed, WriteSuccess, WriteRest,
        RewriteSuccess, FailedAttempts, RetryAttempts, RetryPending, RetryNextFire,
        CountRun, CountPeriodic, TallyOnce
  <2> QED BY <1>1, <2>1 DEF futureRest
<1> QED BY <1>2, <1>3, <1>4, <1>5 DEF Future, FutureStep

(* Whatever touches neither the counter, nor the queue loop, nor the       *)
(* futures is quiet.                                                       *)
LEMMA AsideOverlap ==
  ASSUME OverlapInv, TypeInv', UNCHANGED <<overlap, disp, inst>>
  PROVE  OverlapInv' /\ \A t \in Task : Live(t)' = Live(t)
<1>1. Admitted' /\ \A t \in Task : Starting(t)' = Starting(t)
  BY DEF OverlapInv, Admitted, Unlimited, Starting
<1> QED BY <1>1, QuietStep

(* The end of the process ends every execution.                            *)
LEMMA ExitOverlap ==
  ASSUME OverlapInv, TypeInv', Exit
  PROVE  OverlapInv' /\ \A t \in Task : Cardinality(Live(t))' = 0
<1>1. \A t \in Task : Live(t)' = {} /\ overlap'[t] = 0 /\ Starting(t)' = 0
  BY DEF Exit, FreeInst, IdleDisp, Live, Starting
<1>2. \A t \in Task : Cardinality(Live(t))' = 0
  BY <1>1, FS_EmptySet
<1>3. OverlapBalanced'
  BY <1>1, <1>2 DEF OverlapBalanced
<1>4. Capped' /\ Admitted'
  BY <1>1, LimitType DEF Exit, IdleDisp, Capped, Admitted, Unlimited
<1> QED BY <1>2, <1>3, <1>4 DEF OverlapInv

(* What a step does to the number of executions of every task: one starts, *)
(* one ends, all end, or nothing changes.                                  *)
LEMMA NextOverlap ==
  ASSUME OverlapInv, [Next]_vars
  PROVE  /\ OverlapInv'
         /\ \/ \A t \in Task : Cardinality(Live(t))' = Cardinality(Live(t))
            \/ \A t \in Task : Cardinality(Live(t))' = 0
            \/ \E u \in Task :
                 /\ Unlimited(u) \/ Cardinality(Live(u)) < Def[u].instances
                 /\ \A t \in Task : Cardinality(Live(t))' =
                      IF t = u THEN Cardinality(Live(t)) + 1 ELSE Cardinality(Live(t))
            \/ \E u \in Task :
                 /\ Cardinality(Live(u)) > 0
                 /\ \A t \in Task : Cardinality(Live(t))' =
                      IF t = u THEN Cardinality(Live(t)) - 1 ELSE Cardinality(Live(t))
<1>0. TypeInv'
  BY NextTyped DEF OverlapInv
<1>1. CASE UNCHANGED <<overlap, disp, inst>>
  BY <1>0, <1>1, AsideOverlap
<1>2. CASE QueueLoop
  <2>1. CASE \E i \in Instance : Spawn(i)
    BY <1>0, <2>1, SpawnOverlap
  <2>2. CASE \A i \in Instance : ~Spawn(i)
    BY <1>0, <1>2, <2>2, QueueLoopOverlap
  <2> QED BY <2>1, <2>2
<1>3. ASSUME NEW i \in Instance, Future(i)
      PROVE  \/ OverlapInv' /\ \A t \in Task : Live(t)' = Live(t)
             \/ Finish(i) /\ UNCHANGED daemonVars
  <2> SUFFICES ASSUME ~Finish(i) PROVE OverlapInv' /\ \A t \in Task : Live(t)' = Live(t)
    BY <1>3 DEF Future
  <2>1. UNCHANGED <<overlap, disp>> /\ \A j \in Instance : inst'[j].task = inst[j].task
    BY <1>3, FutureKeepsTasks DEF OverlapInv
  <2>2. Admitted' /\ \A t \in Task : Starting(t)' = Starting(t)
    BY <2>1 DEF OverlapInv, Admitted, Unlimited, Starting
  <2> QED BY <1>0, <2>1, <2>2, QuietStep
<1>4. CASE \E i \in Instance : Future(i)
  BY <1>0, <1>3, <1>4, FinishOverlap
<1>5. CASE Exit
  BY <1>0, <1>5, ExitOverlap
<1>6. CASE Watchdog
  BY <1>1, <1>6
  DEF Watchdog, WatchdogScan, WatchdogReload, WatchdogWrite, WatchdogDone,
      WatchdogSignal, wdRest
<1>7. CASE Stop \/ EndDrain \/ Restart
  BY <1>1, <1>7 DEF Stop, EndDrain, Restart, queueVars
<1>8. CASE \E t \in Task : \/ Dispatch(t) \/ Cancel(t) \/ CancelSignal(t)
                           \/ Requeue(t) \/ Remove(t) \/ Pause(t) \/ Timer(t)
                           \/ OrphanExit(t)
  BY <1>1, <1>8
  DEF Dispatch, Cancel, CancelSignal, Requeue, Remove, Pause, Timer, ReEnqueue,
      OrphanExit, queueVars
<1>9. CASE UNCHANGED vars
  BY <1>1, <1>9 DEF vars, queueVars
<1>10. CASE CronLoop
  BY <1>1, <1>10
  DEF CronLoop, StartScan, CronStep, OnDue, CronFinish, CronExpire, CronFire, cronRest
<1> QED BY <1>2, <1>4, <1>5, <1>6, <1>7, <1>8, <1>9, <1>10 DEF Next

(* OverlapInv is inductive.                                                *)
LEMMA OverlapInvariant == Spec => []OverlapInv
<1>1. OverlapInv /\ [Next]_vars => OverlapInv'
  BY NextOverlap
<1> QED BY <1>1, InitOverlap, PTL DEF Spec

(* The overlap counter is always the number of futures under way: no path  *)
(* through a future, no store error and no shutdown unbalances it.         *)
THEOREM OverlapAlwaysBalanced == Spec => []OverlapBalanced
<1>1. OverlapInv => OverlapBalanced
  BY DEF OverlapInv
<1> QED BY <1>1, OverlapInvariant, PTL

(* max_instances holds: no interleaving of queue loop, futures, clients,   *)
(* triggers, watchdog and restarts exceeds it.                             *)
THEOREM ConcurrencyAlwaysCapped == Spec => []ConcurrencyCap
<1>1. OverlapInv => ConcurrencyCap
  <2> SUFFICES ASSUME OverlapInv, NEW t \in Task, ~Unlimited(t)
               PROVE  Cardinality(Live(t)) <= Def[t].instances
    BY DEF ConcurrencyCap
  <2>1. overlap[t] = Cardinality(Live(t)) + Starting(t) /\ overlap[t] <= Def[t].instances
    BY DEF OverlapInv, OverlapBalanced, Capped
  <2>2. Starting(t) \in {0, 1}
    BY DEF Starting
  <2> QED BY <2>1, <2>2, LiveFinite, LimitType
<1> QED BY <1>1, OverlapInvariant, PTL

-----------------------------------------------------------------------------
(* Refinement                                                              *)

(* A step of the daemon is a step of the semaphore, or leaves it alone.    *)
LEMMA StepRefines ==
  ASSUME OverlapInv, [Next]_vars
  PROVE  [Semaphore!Next]_Executions
<1>1. \A t \in Task : Executions[t] = Cardinality(Live(t))
  BY DEF Executions
<1>2. Executions' = [t \in Task |-> Cardinality(Live(t))']
  BY DEF Executions
<1>3. CASE \A t \in Task : Cardinality(Live(t))' = Cardinality(Live(t))
  BY <1>2, <1>3 DEF Executions
<1>4. CASE \A t \in Task : Cardinality(Live(t))' = 0
  BY <1>2, <1>4 DEF Semaphore!Next, Semaphore!Clear
<1>5. ASSUME NEW u \in Task,
             Unlimited(u) \/ Cardinality(Live(u)) < Def[u].instances,
             \A t \in Task : Cardinality(Live(t))' =
               IF t = u THEN Cardinality(Live(t)) + 1 ELSE Cardinality(Live(t))
      PROVE  Semaphore!Next
  <2>1. Executions' = [Executions EXCEPT ![u] = @ + 1]
    BY <1>2, <1>5 DEF Executions
  <2>2. Semaphore!Start(u)
    BY <1>1, <1>5, <2>1 DEF Semaphore!Start, LimitOf
  <2> QED BY <2>2 DEF Semaphore!Next
<1>6. ASSUME NEW u \in Task, Cardinality(Live(u)) > 0,
             \A t \in Task : Cardinality(Live(t))' =
               IF t = u THEN Cardinality(Live(t)) - 1 ELSE Cardinality(Live(t))
      PROVE  Semaphore!Next
  <2>1. Executions' = [Executions EXCEPT ![u] = @ - 1]
    BY <1>2, <1>6 DEF Executions
  <2>2. Semaphore!End(u)
    BY <1>1, <1>6, <2>1 DEF Semaphore!End
  <2> QED BY <2>2 DEF Semaphore!Next
<1> QED BY <1>3, <1>4, <1>5, <1>6, NextOverlap

(* The daemon implements the per-task semaphore of module Admission.       *)
THEOREM DaemonImplementsAdmission == Spec => ImplementsAdmission
<1>1. Init => Semaphore!Init
  <2> SUFFICES ASSUME Init PROVE \A t \in Task : Cardinality(Live(t)) = 0
    BY DEF Semaphore!Init, Executions
  <2>1. \A t \in Task : Live(t) = {}
    BY DEF Init, QueueInit, FreeInst, Live
  <2> QED BY <2>1, FS_EmptySet
<1>2. OverlapInv /\ [Next]_vars => [Semaphore!Next]_Executions
  BY StepRefines
<1> QED
  BY <1>1, <1>2, OverlapInvariant, PTL DEF Spec, ImplementsAdmission, Semaphore!Spec
=============================================================================
