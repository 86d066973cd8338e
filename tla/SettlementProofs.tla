-------------------------- MODULE SettlementProofs --------------------------
(***************************************************************************)
(* Proofs about what becomes of a task, on top of those of DaemonProofs    *)
(* and ExecutionProofs, each with the inductive invariant it rests on:     *)
(*   OwnerInv   a Running row has an owner (RunningHasOwner);              *)
(*   CarryInv   a Pending row that goes on is carried by a timestamp, the  *)
(*              list, a timer, a loop or a future (NoTaskLost and          *)
(*              TriggersSurvive);                                          *)
(*   PlaceInv   the id of a one-shot task is in one place at a time;       *)
(*   BudgetInv  who has it there has read no more attempts than the budget *)
(*              (AttemptsWithinBudget);                                    *)
(*   DoneInv    one that has succeeded is nowhere (SuccessIsFinal).        *)
(***************************************************************************)
EXTENDS ExecutionProofs

(* What the theorems below assume of a configuration: the store answers;   *)
(* the daemon's memory is not lost without the rows; a run_at trigger is   *)
(* not skipped.                                                            *)
StoreHolds == "store" \notin Faults
Survives == Sqlite => "crash" \notin Faults /\ "stop" \notin Requests
NoSkippedRunAt == \A t \in Task : Def[t].kind = "runat" => ~Def[t].skips

-----------------------------------------------------------------------------
(* What the steps do to the rows.                                          *)

(* A write reaches one row, unless it is gone.                             *)
LEMMA Written ==
  ASSUME TypeInv, NEW t \in Task, NEW new, Update(t, new)
  PROVE  /\ \A u \in Task \ {t} : row'[u] = row[u]
         /\ row[t].state = "absent" => row'[t] = row[t]
         /\ row[t].state # "absent" => row'[t] = new
BY DEF Update, TypeInv, RowOK

(* The writes of single columns.                                           *)
LEMMA ColumnsWritten ==
  ASSUME TypeInv, NEW t \in Task
  PROVE  /\ \A s : UpdateState(t, s) =>
              /\ \A u \in Task \ {t} : row'[u] = row[u]
              /\ row[t].state = "absent" => row'[t] = row[t]
              /\ row[t].state # "absent" => row'[t].state = s
              /\ row'[t].next = row[t].next /\ row'[t].attempts = row[t].attempts
              /\ row'[t].runs = row[t].runs
         /\ \A n : SetAttempts(t, n) =>
              /\ \A u \in Task \ {t} : row'[u] = row[u]
              /\ row[t].state = "absent" => row'[t] = row[t]
              /\ row[t].state # "absent" => row'[t].attempts = n
              /\ row'[t].state = row[t].state /\ row'[t].next = row[t].next
              /\ row'[t].runs = row[t].runs
         /\ \A x : UpdateNextFire(t, x) =>
              /\ \A u \in Task \ {t} : row'[u] = row[u]
              /\ row[t].state = "absent" => row'[t] = row[t]
              /\ row[t].state # "absent" => row'[t].next = x
              /\ row'[t].state = row[t].state /\ row'[t].attempts = row[t].attempts
              /\ row'[t].runs = row[t].runs
         /\ IncrementRuns(t) =>
              /\ \A u \in Task \ {t} : row'[u] = row[u]
              /\ row[t].state = "absent" => row'[t] = row[t]
              /\ row'[t].state = row[t].state /\ row'[t].next = row[t].next
              /\ row'[t].attempts = row[t].attempts
<1>1. row[t] \in Row
  BY DEF TypeInv, RowOK
<1>2. ASSUME NEW s, UpdateState(t, s)
      PROVE  /\ \A u \in Task \ {t} : row'[u] = row[u]
             /\ row[t].state = "absent" => row'[t] = row[t]
             /\ row[t].state # "absent" => row'[t].state = s
             /\ row'[t].next = row[t].next /\ row'[t].attempts = row[t].attempts
             /\ row'[t].runs = row[t].runs
  <2> DEFINE new == [row[t] EXCEPT !.state = s]
  <2>1. /\ new.state = s /\ new.next = row[t].next /\ new.attempts = row[t].attempts
        /\ new.runs = row[t].runs
    BY <1>1 DEF Row
  <2>2. Update(t, new)
    BY <1>2 DEF UpdateState
  <2> HIDE DEF new
  <2> QED BY <2>1, <2>2, Written
<1>3. ASSUME NEW n, SetAttempts(t, n)
      PROVE  /\ \A u \in Task \ {t} : row'[u] = row[u]
             /\ row[t].state = "absent" => row'[t] = row[t]
             /\ row[t].state # "absent" => row'[t].attempts = n
             /\ row'[t].state = row[t].state /\ row'[t].next = row[t].next
             /\ row'[t].runs = row[t].runs
  <2> DEFINE new == [row[t] EXCEPT !.attempts = n]
  <2>1. /\ new.attempts = n /\ new.next = row[t].next /\ new.state = row[t].state
        /\ new.runs = row[t].runs
    BY <1>1 DEF Row
  <2>2. Update(t, new)
    BY <1>3 DEF SetAttempts
  <2> HIDE DEF new
  <2> QED BY <2>1, <2>2, Written
<1>4. ASSUME NEW x, UpdateNextFire(t, x)
      PROVE  /\ \A u \in Task \ {t} : row'[u] = row[u]
             /\ row[t].state = "absent" => row'[t] = row[t]
             /\ row[t].state # "absent" => row'[t].next = x
             /\ row'[t].state = row[t].state /\ row'[t].attempts = row[t].attempts
             /\ row'[t].runs = row[t].runs
  <2> DEFINE new == [row[t] EXCEPT !.next = x]
  <2>1. /\ new.next = x /\ new.attempts = row[t].attempts /\ new.state = row[t].state
        /\ new.runs = row[t].runs
    BY <1>1 DEF Row
  <2>2. Update(t, new)
    BY <1>4 DEF UpdateNextFire
  <2> HIDE DEF new
  <2> QED BY <2>1, <2>2, Written
<1>5. ASSUME IncrementRuns(t)
      PROVE  /\ \A u \in Task \ {t} : row'[u] = row[u]
             /\ row[t].state = "absent" => row'[t] = row[t]
             /\ row'[t].state = row[t].state /\ row'[t].next = row[t].next
             /\ row'[t].attempts = row[t].attempts
  <2> DEFINE n == Saturate(row[t].runs, RunsMax)
             new == [row[t] EXCEPT !.runs = n]
  <2>1. /\ new.next = row[t].next /\ new.attempts = row[t].attempts
        /\ new.state = row[t].state
    BY <1>1 DEF Row
  <2>2. Update(t, new)
    BY <1>5 DEF IncrementRuns
  <2> HIDE DEF new
  <2> QED BY <2>1, <2>2, Written
<1> QED BY <1>2, <1>3, <1>4, <1>5

(* Only the success of a periodic task is counted before it is settled.    *)
CountsPeriodic ==
  \A i \in Instance : inst[i].pc \in {"count", "rest"} => Periodic(inst[i].task)

(* A future writes the row of its own task: it leaves a row that is gone   *)
(* alone, makes a row Pending only to arm it next or after a run of a      *)
(* periodic task, and does not leave its row Running behind.               *)
LEMMA FutureWrites ==
  ASSUME StoreHolds, TypeInv, CountsPeriodic, NEW i \in Instance, FutureStep(i),
         NEW t \in Task, t = inst[i].task
  PROVE  /\ \A u \in Task \ {t} : row'[u] = row[u]
         /\ \A j \in Instance \ {i} : inst'[j] = inst[j]
         /\ inst[i].pc # "free" /\ (inst'[i].pc # "free" => inst'[i].task = t)
         /\ row[t].state = "absent" => row'[t] = row[t]
         /\ row'[t].state \in {row[t].state, "cancelled", "failed", "success", "pending"}
         /\ row'[t].state = "pending" /\ row[t].state # "pending" =>
              inst'[i].pc = "arm" \/ (Periodic(t) /\ row'[t].next = row[t].next)
         /\ row'[t].next \in {row[t].next, "some"}
         /\ inst[i].pc = "arm" => row[t].state = "absent" \/ row'[t].next = "some"
         /\ inst[i].pc \in Unsettled => inst'[i].pc \in Unsettled \/ row'[t].state # "running"
         /\ inst'[i].pc \in {"count", "rest"} => Periodic(t)
         /\ UNCHANGED <<queue, delayed, disp>>
<1> USE DEF TypeInv, InstOK, CountsPeriodic
<1>0. i \in Instance /\ inst[i].pc # "free"
  BY QueueAssumption
<1>1. ASSUME NEW from, NEW to \in InstPC \ {"free"}, Step(i, from, to)
      PROVE  /\ inst[i].pc = from /\ inst'[i].pc = to /\ inst'[i].task = t
             /\ \A j \in Instance \ {i} : inst'[j] = inst[j]
  BY <1>1 DEF Step
<1>2. CASE Start(i) \/ RegisterFlag(i) \/ UnregisterFlag(i)
  BY <1>0, <1>1, <1>2 DEF Start, RegisterFlag, UnregisterFlag, InstPC, Unsettled
<1>3. CASE Execute(i)
  <2>1. /\ inst'[i].pc = "unflag" /\ inst'[i].task = t /\ inst[i].pc = "exec"
        /\ \A j \in Instance \ {i} : inst'[j] = inst[j]
    BY <1>3 DEF Execute
  <2> QED BY <1>0, <1>3, <2>1 DEF Execute, futureRest, Unsettled
<1>4. OnFailure(i) \in {"attempt", "fail"}
  BY DEF OnFailure
<1>5. CASE Verdict(i)
  <2>1. /\ Judge(i) \in {"attempt", "fail", "count", "succeed", "guard"}
        /\ Judge(i) = "count" => Periodic(t)
    BY <1>4 DEF Judge
  <2>2. PICK to \in {"cancelled", "attempt", "fail", "count", "succeed", "guard"} :
          /\ inst' = [inst EXCEPT ![i].pc = to, ![i].out = "none"]
          /\ to = "count" => Periodic(t)
    BY <1>5, <2>1 DEF Verdict
  <2>3. /\ inst'[i].pc = to /\ inst'[i].task = t /\ inst[i].pc = "verdict"
        /\ \A j \in Instance \ {i} : inst'[j] = inst[j]
    BY <1>5, <2>2 DEF Verdict
  <2> QED BY <1>0, <1>5, <2>2, <2>3 DEF Verdict, futureRest, Unsettled
<1>6. CASE GuardInterrupted(i)
  <2>1. /\ \/ inst'[i].pc \in {"attempt", "fail"}
           \/ inst'[i].pc = "finish" /\ row[t].state = "interrupted"
        /\ inst'[i].task = t /\ inst[i].pc = "guard"
        /\ \A j \in Instance \ {i} : inst'[j] = inst[j]
    BY <1>1, <1>4, <1>6 DEF GuardInterrupted, InstPC
  <2> QED BY <1>0, <1>6, <2>1 DEF GuardInterrupted, futureRest, Unsettled
<1>7. CASE Finish(i)
  <2>1. /\ inst[i].pc = "finish" /\ inst'[i].pc = "free"
        /\ \A j \in Instance \ {i} : inst'[j] = inst[j]
    BY <1>7 DEF Finish, FreeInst
  <2> QED BY <1>7, <2>1 DEF Finish, Unsettled
<1>8. ~WriteFails
  BY DEF WriteFails, StoreHolds
<1>9. CASE WriteCancelled(i) \/ WriteFailed(i) \/ WriteSuccess(i) \/ WriteRest(i)
             \/ RewriteSuccess(i)
  <2>1. PICK from \in InstPC, s \in {"cancelled", "failed", "success", "pending"},
             to \in {"finish", "failed", "tally"} :
          /\ Step(i, from, to) /\ UpdateState(t, s) /\ UNCHANGED futureRest
          /\ from # "arm" /\ (s = "pending" => from = "rest")
          /\ from \notin {"free", "pend"}
    BY <1>8, <1>9
       DEF WriteState, WriteCancelled, WriteFailed, WriteSuccess, WriteRest, RewriteSuccess,
           InstPC
  <2>2. to \in InstPC \ {"free"}
    BY DEF InstPC
  <2> QED BY <1>0, <1>1, <2>1, <2>2, ColumnsWritten DEF futureRest, Unsettled
<1>10. CASE FailedAttempts(i) \/ RetryAttempts(i)
  <2>1. PICK from \in {"failed", "attempt"}, to \in {"finish", "pend"} :
          /\ Step(i, from, to) /\ SetAttempts(t, Saturate(inst[i].base, U32Max))
          /\ UNCHANGED futureRest /\ (from = "attempt" => to = "pend")
    BY <1>8, <1>10 DEF FailedAttempts, RetryAttempts
  <2>2. to \in InstPC \ {"free"}
    BY DEF InstPC
  <2> QED BY <1>0, <1>1, <2>1, <2>2, ColumnsWritten DEF futureRest, Unsettled
<1>11. CASE RetryPending(i)
  <2>1. Step(i, "pend", "arm") /\ UpdateState(t, "pending") /\ UNCHANGED futureRest
    BY <1>8, <1>11 DEF RetryPending
  <2>2. "arm" \in InstPC \ {"free"}
    BY DEF InstPC
  <2> QED BY <1>0, <1>1, <2>1, <2>2, ColumnsWritten DEF futureRest, Unsettled
<1>12. CASE RetryNextFire(i)
  <2>1. Step(i, "arm", "finish") /\ UpdateNextFire(t, "some") /\ UNCHANGED futureRest
    BY <1>8, <1>12 DEF RetryNextFire
  <2>2. "finish" \in InstPC \ {"free"}
    BY DEF InstPC
  <2> QED BY <1>0, <1>1, <2>1, <2>2, ColumnsWritten DEF futureRest, Unsettled
<1>13. CASE CountPeriodic(i) \/ TallyOnce(i)
  <2>1. PICK from \in {"count", "tally"}, to \in {"succeed", "rest", "resucceed", "finish"} :
          /\ Step(i, from, to) /\ UNCHANGED futureRest /\ (to = "rest" => from = "count")
          /\ \/ IncrementRuns(t) /\ (from = "count" => to \in {"succeed", "rest"})
             \/ row[t].state = "absent" /\ row' = row
    BY <1>13 DEF CountPeriodic, TallyOnce, CountRun, StoreHolds
  <2>2. to \in InstPC \ {"free"}
    BY DEF InstPC
  <2> QED BY <1>0, <1>1, <2>1, <2>2, ColumnsWritten DEF futureRest, Unsettled
<1> QED
  BY <1>2, <1>3, <1>5, <1>6, <1>7, <1>9, <1>10, <1>11, <1>12, <1>13 DEF FutureStep, Settle

-----------------------------------------------------------------------------
(* A Running row has an owner.                                             *)

(* Where the rows die with the daemon none is left when it is down; where  *)
(* they do not, it is always up.                                           *)
PhaseInv ==
  /\ Survives /\ Sqlite => phase = "up"
  /\ Survives /\ phase = "down" => \A t \in Task : row[t].state = "absent"

OwnerInv == TypeInv /\ CountsPeriodic /\ PhaseInv /\ (Survives => RunningHasOwner)

(* A step of the queue loop marks the row it has loaded as Running, or     *)
(* expires it, and touches no other: it reserves, and then spawns, an      *)
(* execution for the row it marked.                                        *)
LEMMA LoopWrites ==
  ASSUME StoreHolds, TypeInv, QueueLoop
  PROVE  /\ \A t \in Task : row[t].state = "absent" => row'[t] = row[t]
         /\ \A t \in Task :
              \/ row'[t].state = row[t].state
              \/ row'[t].state = "expired"
              \/ row'[t].state = "running" /\ disp'.task = t /\ disp'.pc = "count"
         /\ \A t \in Task :
              disp.task = t /\ disp.pc \in {"count", "spawn"} =>
                \/ disp'.task = t /\ disp'.pc = "spawn"
                \/ \E i \in Instance : inst'[i].pc = "queued" /\ inst'[i].task = t
         /\ \A i \in Instance : inst[i].pc # "free" => inst'[i] = inst[i]
         /\ \A i \in Instance : inst'[i] # inst[i] => inst'[i].pc = "queued"
         /\ UNCHANGED <<phase, cron>>
<1> USE DEF TypeInv, DispOK, InstOK
<1>0. UNCHANGED <<phase, cron>>
  BY DEF QueueLoop, daemonVars
<1>1. ~WriteFails
  BY DEF WriteFails, StoreHolds
<1>2. CASE \/ Drain \/ LoadDrop \/ LoadTask \/ LoadTooEarly \/ Overlapping \/ CountFails
           \/ Admit \/ ScanRetries \/ (\E t \in Task : ScanEnqueue(t)) \/ LoopEnds
  BY <1>0, <1>2
  DEF Drain, LoadDrop, LoadTask, LoadTooEarly, Overlapping, CountFails, Admit, ScanRetries,
      ScanEnqueue, LoopEnds, At
<1>3. CASE Expire \/ RateLimited \/ ScanClear
  <2>1. /\ disp.task \in Task /\ disp.pc \in {"expire", "gate", "clear"}
        /\ UNCHANGED inst
        /\ \/ UpdateState(disp.task, "expired") \/ row' = row
           \/ \E x : UpdateNextFire(disp.task, x)
    BY <1>1, <1>3 DEF Expire, RateLimited, ScanClear, At
  <2>2. ASSUME NEW t \in Task
        PROVE  /\ row[t].state = "absent" => row'[t] = row[t]
               /\ row'[t].state \in {row[t].state, "expired"}
    BY <2>1, ColumnsWritten
  <2> QED BY <1>0, <2>1, <2>2
<1>4. CASE MarkRunning
  <2>1. /\ disp.task \in Task /\ disp.pc = "mark" /\ UNCHANGED inst
        /\ UpdateState(disp.task, "running")
        /\ disp'.task = disp.task /\ disp'.pc = "count"
    BY <1>1, <1>4 DEF MarkRunning, At, Goto
  <2>2. ASSUME NEW t \in Task
        PROVE  /\ row[t].state = "absent" => row'[t] = row[t]
               /\ \/ row'[t].state = row[t].state
                  \/ row'[t].state = "running" /\ t = disp.task
    BY <2>1, ColumnsWritten
  <2> QED BY <1>0, <2>1, <2>2
<1>5. CASE OnStart
  BY <1>0, <1>5 DEF OnStart, At, Goto
<1>6. ASSUME NEW i \in Instance, Spawn(i)
      PROVE  /\ UNCHANGED row /\ disp.pc = "spawn"
             /\ inst[i].pc = "free" /\ inst'[i].pc = "queued" /\ inst'[i].task = disp.task
             /\ \A j \in Instance \ {i} : inst'[j] = inst[j]
  BY <1>6 DEF Spawn, At
<1>7. CASE \E i \in Instance : Spawn(i)
  BY <1>0, <1>6, <1>7
<1> QED BY <1>2, <1>3, <1>4, <1>5, <1>7 DEF QueueLoop, ProcessOne

(* A step of the cron loop finishes, expires or rolls on a row, and neither*)
(* loads nor starts anything.                                              *)
LEMMA CronWrites ==
  ASSUME StoreHolds, TypeInv, CronLoop
  PROVE  /\ \A t \in Task : row[t].state = "absent" => row'[t] = row[t]
         /\ \A t \in Task : row'[t].state \in {row[t].state, "success", "expired"}
         /\ \A t \in Task : row'[t].next # row[t].next => cron.plan[t] = "fire"
         /\ UNCHANGED <<phase, queue, disp, inst>>
<1> USE DEF TypeInv
<1>1. ~WriteFails
  BY DEF WriteFails, StoreHolds
<1>2. UNCHANGED <<phase, queue, disp, inst>>
  BY DEF CronLoop, StartScan, CronStep, OnDue, CronFinish, CronExpire, CronFire, cronRest
<1>3. \/ row' = row
      \/ \E t \in Task : \/ UpdateState(t, "success") \/ UpdateState(t, "expired")
                         \/ (cron.plan[t] = "fire" /\ \E x : UpdateNextFire(t, x))
  BY <1>1
  DEF CronLoop, StartScan, CronStep, OnDue, CronFinish, CronExpire, CronFire
<1>4. ASSUME NEW t \in Task, NEW u \in Task,
             \/ UpdateState(u, "success") \/ UpdateState(u, "expired")
             \/ (cron.plan[u] = "fire" /\ \E x : UpdateNextFire(u, x))
      PROVE  /\ row[t].state = "absent" => row'[t] = row[t]
             /\ row'[t].state \in {row[t].state, "success", "expired"}
             /\ row'[t].next # row[t].next => cron.plan[t] = "fire"
  BY <1>4, ColumnsWritten
<1> QED BY <1>2, <1>3, <1>4

(* The other steps of a daemon that goes on: only a dispatch fills an      *)
(* absent row, and none marks a row Running.                               *)
LEMMA AsideWrites ==
  ASSUME TypeInv, StoreHolds, PhaseInv,
         \/ Watchdog \/ Stop \/ EndDrain \/ Restart \/ UNCHANGED vars
         \/ \E t \in Task : \/ Dispatch(t) \/ Cancel(t) \/ CancelSignal(t) \/ Requeue(t)
                            \/ Remove(t) \/ Pause(t) \/ Timer(t) \/ OrphanExit(t)
  PROVE  /\ \A t \in Task : row'[t].state = "running" => row[t].state = "running"
         /\ \A t \in Task : row[t].state = "absent" /\ phase = "down" =>
              row'[t].state = "absent"
         /\ phase' = "down" => phase = "down"
         /\ phase' # phase => "stop" \in Requests \/ phase # "up"
         /\ UNCHANGED <<disp, inst>>
<1> USE DEF TypeInv
<1>0. row \in [Task -> Row]
  BY DEF RowOK
<1>1. CASE Watchdog
  <2>1. \/ row' = row \/ (wd.task \in Task /\ UpdateState(wd.task, "interrupted"))
    BY <1>1
    DEF Watchdog, WatchdogScan, WatchdogReload, WatchdogWrite, WatchdogDone, WatchdogSignal,
        WriteFails, WdOK
  <2>2. ASSUME NEW t \in Task
        PROVE  /\ row'[t].state = "running" => row[t].state = "running"
               /\ row[t].state = "absent" => row'[t].state = "absent"
    BY <2>1, ColumnsWritten
  <2> QED
    BY <1>1, <2>2
    DEF Watchdog, WatchdogScan, WatchdogReload, WatchdogWrite, WatchdogDone, WatchdogSignal,
        wdRest
<1>2. CASE Stop
  BY <1>2 DEF Stop, queueVars
<1>3. CASE EndDrain
  <2>1. ASSUME NEW t \in Task
        PROVE  row'[t].state = "running" => row[t].state = "running"
    BY <1>0, <1>3 DEF EndDrain, MarkRunningAsInterrupted, WriteFails
  <2> QED BY <1>3, <2>1 DEF EndDrain, queueVars
<1>4. CASE Restart
  <2>1. /\ phase = "down" /\ phase' = "up" /\ UNCHANGED <<disp, inst>>
        /\ row' = RearmStuckRunAt(IF Sqlite THEN ResetRunningToPending(orphan) ELSE row)
    BY <1>4 DEF Restart, queueVars, StoreHolds
  <2>2. ASSUME NEW t \in Task
        PROVE  /\ row'[t].state = "running" => row[t].state = "running"
               /\ row[t].state = "absent" => row'[t].state = "absent"
    <3> DEFINE reset == IF Sqlite THEN ResetRunningToPending(orphan) ELSE row
    <3>1. reset[t] \in Row /\ reset[t].state \in {row[t].state, "pending"}
          /\ (row[t].state = "absent" => reset[t] = row[t])
      BY <1>0 DEF ResetRunningToPending, Row, Active
    <3>2. row'[t].state = reset[t].state
      <4>1. row'[t] \in {reset[t], [reset[t] EXCEPT !.next = "some"]}
        BY <2>1 DEF RearmStuckRunAt
      <4> HIDE DEF reset
      <4> QED BY <3>1, <4>1 DEF Row
    <3> HIDE DEF reset
    <3> QED BY <3>1, <3>2
  <2> QED BY <2>1, <2>2
<1>5. CASE UNCHANGED vars
  BY <1>5 DEF vars, queueVars, daemonVars
<1>6. ASSUME NEW t \in Task, Dispatch(t) \/ Cancel(t) \/ Requeue(t) \/ Remove(t) \/ Pause(t)
      PROVE  /\ phase = "up" /\ phase' = phase /\ UNCHANGED <<disp, inst>>
             /\ \A u \in Task : row'[u].state = "running" => row[u].state = "running"
  <2>1. phase = "up" /\ phase' = phase /\ UNCHANGED <<disp, inst>>
    BY <1>6 DEF Dispatch, Cancel, Requeue, Remove, Pause, daemonVars, queueVars
  <2>2. ASSUME NEW new, row' = [row EXCEPT ![t] = new],
               new.state = "running" => row[t].state = "running"
        PROVE  \A u \in Task : row'[u].state = "running" => row[u].state = "running"
    BY <1>0, <2>2
  <2>3. \A u \in Task : row'[u].state = "running" => row[u].state = "running"
    <3>1. CASE Dispatch(t)
      <4> DEFINE new == [Absent EXCEPT !.state = "pending", !.next = FirstFire(t)]
      <4>1. new.state = "pending"
        BY DEF Absent
      <4>2. row' = [row EXCEPT ![t] = new]
        BY <3>1 DEF Dispatch, InsertTask
      <4> HIDE DEF new
      <4> QED BY <2>2, <4>1, <4>2
    <3>2. CASE Cancel(t)
      BY <1>0, <3>2 DEF Cancel, CancelTask, Row
    <3>3. CASE Requeue(t)
      <4> DEFINE new == [row[t] EXCEPT !.state = "pending", !.attempts = 0,
                                       !.cancel = FALSE, !.next = "some"]
      <4>1. new.state = "pending"
        BY <1>0 DEF Row
      <4>2. row' = [row EXCEPT ![t] = new]
        BY <3>3 DEF Requeue, RequeueTask
      <4> HIDE DEF new
      <4> QED BY <2>2, <4>1, <4>2
    <3>4. CASE Remove(t)
      BY <2>2, <3>4 DEF Remove, RemoveTask, Absent
    <3>5. CASE Pause(t)
      BY <1>0, <3>5 DEF Pause, SetPaused, Row
    <3> QED BY <1>6, <3>1, <3>2, <3>3, <3>4, <3>5
  <2> QED BY <2>1, <2>3
<1>7. CASE \E t \in Task : CancelSignal(t) \/ Timer(t) \/ OrphanExit(t)
  BY <1>7 DEF CancelSignal, Timer, ReEnqueue, OrphanExit, daemonVars, queueVars
<1>8. CASE \E t \in Task : Dispatch(t) \/ Cancel(t) \/ Requeue(t) \/ Remove(t) \/ Pause(t)
  BY <1>6, <1>8
<1> QED BY <1>1, <1>2, <1>3, <1>4, <1>5, <1>7, <1>8

(* The queue loop changes which futures there are by spawning one, and     *)
(* the cron loop and the clients not at all.                               *)
LEMMA CountsKept ==
  ASSUME CountsPeriodic,
         \A i \in Instance : inst'[i] # inst[i] => inst'[i].pc \notin {"count", "rest"}
  PROVE  CountsPeriodic'
BY DEF CountsPeriodic, Periodic

(* Every step of the daemon.                                               *)
LEMMA NextOwned ==
  ASSUME StoreHolds, OwnerInv, [Next]_vars
  PROVE  CountsPeriodic' /\ PhaseInv' /\ (Survives => RunningHasOwner')
<1> USE DEF OwnerInv
<1>1. ASSUME NEW i \in Instance, Future(i)
      PROVE  CountsPeriodic' /\ PhaseInv' /\ (Survives => RunningHasOwner')
  <2>0. inst[i].pc # "free" /\ inst[i].task \in Task
    <3>1. inst[i].pc # "free"
      BY <1>1
      DEF Future, FutureStep, Start, RegisterFlag, Execute, UnregisterFlag, Verdict,
          GuardInterrupted, Settle, Finish, Step, WriteCancelled, WriteFailed, WriteSuccess,
          WriteRest, RewriteSuccess, WriteState, FailedAttempts, RetryAttempts,
          RetryPending, RetryNextFire, CountPeriodic, TallyOnce, CountRun
    <3> QED BY <3>1 DEF TypeInv, InstOK
  <2> DEFINE t == inst[i].task
  <2>1. FutureStep(i) /\ UNCHANGED phase
    BY <1>1 DEF Future, daemonVars
  <2>2. /\ \A u \in Task \ {t} : row'[u] = row[u]
        /\ \A j \in Instance \ {i} : inst'[j] = inst[j]
        /\ (inst'[i].pc # "free" => inst'[i].task = t)
        /\ row[t].state = "absent" => row'[t] = row[t]
        /\ row'[t].state \in {row[t].state, "cancelled", "failed", "success", "pending"}
        /\ inst[i].pc \in Unsettled => inst'[i].pc \in Unsettled \/ row'[t].state # "running"
        /\ inst'[i].pc \in {"count", "rest"} => Periodic(t)
        /\ UNCHANGED disp
    BY <2>0, <2>1, FutureWrites
  <2> HIDE DEF t
  <2>3. CountsPeriodic'
    BY <2>2 DEF CountsPeriodic, Periodic
  <2>4. PhaseInv'
    BY <2>1, <2>2 DEF PhaseInv
  <2>5. Survives => RunningHasOwner'
    <3> SUFFICES ASSUME Survives, NEW u \in Task, row'[u].state = "running"
                 PROVE  \/ disp'.task = u /\ disp'.pc \in {"count", "spawn"}
                        \/ \E j \in Instance : inst'[j].task = u /\ inst'[j].pc \in Unsettled
      BY DEF RunningHasOwner, Live, Unsettled
    <3>1. row[u].state = "running"
      BY <2>2
    <3>2. \/ disp.task = u /\ disp.pc \in {"count", "spawn"}
          \/ \E j \in Instance : inst[j].task = u /\ inst[j].pc \in Unsettled
      BY <3>1 DEF RunningHasOwner, Live
    <3>3. CASE disp.task = u /\ disp.pc \in {"count", "spawn"}
      BY <2>2, <3>3
    <3>4. ASSUME NEW j \in Instance, inst[j].task = u, inst[j].pc \in Unsettled
          PROVE  inst'[j].task = u /\ inst'[j].pc \in Unsettled
      <4>1. CASE j = i
        BY <2>2, <3>4, <4>1 DEF t, Unsettled
      <4>2. CASE j # i
        BY <2>2, <3>4, <4>2
      <4> QED BY <4>1, <4>2
    <3> QED BY <3>2, <3>3, <3>4
  <2> QED BY <2>3, <2>4, <2>5
<1>2. CASE QueueLoop
  <2>1. CountsPeriodic'
    BY <1>2, LoopWrites, CountsKept
  <2>2. PhaseInv'
    BY <1>2, LoopWrites DEF PhaseInv
  <2>3. Survives => RunningHasOwner'
    <3> SUFFICES ASSUME Survives, NEW u \in Task, row'[u].state = "running"
                 PROVE  \/ disp'.task = u /\ disp'.pc \in {"count", "spawn"}
                        \/ \E j \in Instance : inst'[j].task = u /\ inst'[j].pc \in Unsettled
      BY DEF RunningHasOwner, Live, Unsettled
    <3>1. row[u].state = "running" \/ (disp'.task = u /\ disp'.pc = "count")
      BY <1>2, LoopWrites
    <3>2. CASE row[u].state = "running"
      <4>1. \/ disp.task = u /\ disp.pc \in {"count", "spawn"}
            \/ \E j \in Instance : inst[j].task = u /\ inst[j].pc \in Unsettled
        BY <3>2 DEF RunningHasOwner, Live
      <4>2. CASE disp.task = u /\ disp.pc \in {"count", "spawn"}
        BY <1>2, <4>2, LoopWrites DEF Unsettled
      <4>3. ASSUME NEW j \in Instance, inst[j].task = u, inst[j].pc \in Unsettled
            PROVE  inst'[j] = inst[j]
        BY <1>2, <4>3, LoopWrites DEF Unsettled
      <4> QED BY <4>1, <4>2, <4>3
    <3> QED BY <3>1, <3>2
  <2> QED BY <2>1, <2>2, <2>3
<1>3. CASE CronLoop
  BY <1>3, CronWrites DEF CountsPeriodic, Periodic, PhaseInv, RunningHasOwner, Live
<1>4. CASE Exit
  <2>1. /\ \A i \in Instance : inst'[i].pc = "free"
        /\ row' = IF Sqlite THEN row ELSE [t \in Task |-> Absent]
    BY <1>4 DEF Exit, FreeInst
  <2>2. Survives => ~Sqlite
    BY <1>4 DEF Exit, PhaseInv, Survives
  <2> QED
    BY <2>1, <2>2 DEF CountsPeriodic, PhaseInv, RunningHasOwner, Absent
<1>5. CASE \/ Watchdog \/ Stop \/ EndDrain \/ Restart \/ UNCHANGED vars
           \/ \E t \in Task : \/ Dispatch(t) \/ Cancel(t) \/ CancelSignal(t) \/ Requeue(t)
                              \/ Remove(t) \/ Pause(t) \/ Timer(t) \/ OrphanExit(t)
  <2>1. /\ \A t \in Task : row'[t].state = "running" => row[t].state = "running"
        /\ \A t \in Task : row[t].state = "absent" /\ phase = "down" =>
             row'[t].state = "absent"
        /\ phase' = "down" => phase = "down"
        /\ phase' # phase => "stop" \in Requests \/ phase # "up"
        /\ UNCHANGED <<disp, inst>>
    BY <1>5, AsideWrites
  <2> QED
    BY <2>1 DEF CountsPeriodic, Periodic, PhaseInv, Survives, RunningHasOwner, Live
<1> QED BY <1>1, <1>2, <1>3, <1>4, <1>5 DEF Next

(* The daemon starts that way.                                             *)
LEMMA InitOwned == Init => CountsPeriodic /\ PhaseInv /\ RunningHasOwner
BY DEF Init, StoreInit, QueueInit, Absent, FreeInst, CountsPeriodic, PhaseInv,
       RunningHasOwner

(* A Running row always has an execution that will still settle it, or a   *)
(* dispatch that has just marked it: whatever clients, the watchdog, the   *)
(* cron loop and earlier executions of the task write meanwhile.           *)
THEOREM RunningAlwaysOwned == StoreHolds /\ Survives => (Spec => []RunningHasOwner)
<1> SUFFICES ASSUME StoreHolds, Survives PROVE Spec => []RunningHasOwner
  OBVIOUS
<1>1. Init => OwnerInv
  BY InitTyped, InitOwned DEF OwnerInv
<1>2. OwnerInv /\ [Next]_vars => OwnerInv'
  BY NextTyped, NextOwned DEF OwnerInv
<1>3. OwnerInv => RunningHasOwner
  BY DEF OwnerInv
<1> QED BY <1>1, <1>2, <1>3, PTL DEF Spec

-----------------------------------------------------------------------------
(* A Pending row is carried on.                                            *)

(* The parts of Carried.                                                   *)
Armed(t) == RetryDue(t) \/ CronDue(t)
InQueue(t) == \E j \in 1..Len(queue) : queue[j] = t
Loading(t) == disp.task = t /\ disp.pc \in {"load", "expire", "gate", "mark"}
Arming(t) == \E i \in Instance : inst[i].task = t /\ inst[i].pc = "arm"

(* The tasks that some trigger of their own brings back, or that no crash  *)
(* takes away.                                                             *)
Keeps(t) == Survives \/ Def[t].kind \in {"runat", "interval", "cron"}

(* A cron row always has its next_fire, because the retry scan, which      *)
(* clears that of a row it has enqueued, passes cron rows over.            *)
ArmedCron ==
  \A t \in Task : Def[t].kind = "cron" /\ row[t].state # "absent" => row[t].next = "some"
ScanPlain ==
  disp.pc \in {"scan", "clear"} =>
    /\ \A t \in disp.todo : Def[t].kind # "cron"
    /\ disp.pc = "clear" => disp.task \in disp.todo /\ InQueue(disp.task)

(* Whether the row is cancelled or paused does not matter.                 *)
Carrying ==
  phase # "down" =>
    \A t \in Task : Keeps(t) /\ row[t].state = "pending" => Carried(t)

CarryInv == OwnerInv /\ ArmedCron /\ ScanPlain /\ Carrying

(* The pending list does not overflow.                                     *)
Roomy == Len(queue) < MaxPending

(* Carried is the disjunction of its parts, before and after a step.       *)
LEMMA CarriedParts ==
  ASSUME NEW t \in Task
  PROVE  /\ Carried(t) <=> \/ Armed(t) \/ t \in cron.due \/ InQueue(t) \/ delayed[t] > 0
                           \/ Loading(t) \/ Arming(t)
         /\ Carried(t)' <=> \/ Armed(t)' \/ t \in cron'.due \/ InQueue(t)'
                            \/ delayed'[t] > 0 \/ Loading(t)' \/ Arming(t)'
BY DEF Carried, Armed, InQueue, Loading, Arming, Live

(* A Pending row with a timestamp is armed: one of the two scans looks at  *)
(* each kind of task.                                                      *)
LEMMA SomeArms ==
  ASSUME NEW t \in Task
  PROVE  /\ row[t].state = "pending" /\ row[t].next = "some" => Armed(t)
         /\ row'[t].state = "pending" /\ row'[t].next = "some" => Armed(t)'
BY DEF Armed, RetryDue, CronDue

(* A Pending row whose next_fire stays, or is set, stays armed.            *)
LEMMA StaysArmed ==
  ASSUME NEW t \in Task, Armed(t), row'[t].state = "pending",
         row'[t].next \in {row[t].next, "some"}
  PROVE  Armed(t)'
BY DEF Armed, RetryDue, CronDue

(* An enqueued id waits in the list, with all that waited there.           *)
LEMMA EnqueueHolds ==
  ASSUME queue \in Seq(Task), NEW t \in Task, Enqueue(t)
  PROVE  /\ \A u \in Task : InQueue(u) => InQueue(u)'
         /\ Roomy => InQueue(t)'
<1>1. CASE Roomy
  <2>1. PICK k \in 0..Len(queue) : queue' = Inserted(queue, k, t)
    BY <1>1 DEF Enqueue, Push, Inserted, Roomy
  <2>2. /\ Len(queue') = Len(queue) + 1
        /\ \A m \in 1..Len(queue') :
             queue'[m] = IF m <= k THEN queue[m]
                         ELSE IF m = k + 1 THEN t ELSE queue[m - 1]
    BY <2>1, PushEntries
  <2>3. queue'[k + 1] = t /\ k + 1 \in 1..Len(queue')
    BY <2>2
  <2>4. ASSUME NEW j \in 1..Len(queue)
        PROVE  \E m \in 1..Len(queue') : queue'[m] = queue[j]
    <3>1. CASE j <= k
      BY <2>2, <3>1
    <3>2. CASE j > k
      <4>1. j + 1 \in 1..Len(queue') /\ queue'[j + 1] = queue[j]
        BY <2>2, <3>2
      <4> QED BY <4>1
    <3> QED BY <3>1, <3>2
  <2> QED BY <2>3, <2>4 DEF InQueue
<1>2. CASE ~Roomy
  BY <1>2 DEF Enqueue, InQueue, Roomy
<1> QED BY <1>1, <1>2

(* The loop takes the first id and leaves the others.                      *)
LEMMA DrainHolds ==
  ASSUME queue \in Seq(Task), Drain
  PROVE  \A u \in Task : InQueue(u) => u = Head(queue) \/ InQueue(u)'
<1>1. /\ Len(queue') = Len(queue) - 1 /\ queue # <<>>
      /\ \A m \in 1..Len(queue') : queue'[m] = queue[m + 1]
  BY DEF Drain
<1> SUFFICES ASSUME NEW u \in Task, NEW j \in 1..Len(queue), queue[j] = u
             PROVE  u = Head(queue) \/ InQueue(u)'
  BY DEF InQueue
<1>2. CASE j = 1
  BY <1>1, <1>2
<1>3. CASE j # 1
  <2>1. j - 1 \in 1..Len(queue') /\ queue'[j - 1] = u
    BY <1>1, <1>3
  <2> QED BY <2>1 DEF InQueue
<1> QED BY <1>2, <1>3

(* A step that makes no row Pending, and takes nothing from what carries   *)
(* the tasks on, keeps the invariant.                                      *)
LEMMA StillCarried ==
  ASSUME NEW t \in Task, Carried(t), row'[t].state = "pending",
         row'[t].next \in {row[t].next, "some"},
         t \in cron.due => t \in cron'.due,
         InQueue(t) => InQueue(t)',
         delayed[t] > 0 => delayed'[t] > 0,
         Loading(t) => Loading(t)',
         UNCHANGED inst
  PROVE  Carried(t)'
<1>1. Arming(t) => Arming(t)'
  BY DEF Arming
<1> QED BY <1>1, CarriedParts, StaysArmed

(* A future's step.                                                        *)
LEMMA FutureCarries ==
  ASSUME StoreHolds, CarryInv, NEW i \in Instance, Future(i)
  PROVE  ArmedCron' /\ ScanPlain' /\ Carrying'
<1> USE DEF CarryInv, OwnerInv
<1>0. inst[i].task \in Task
  <2>1. inst[i].pc # "free"
    BY DEF Future, FutureStep, Start, RegisterFlag, Execute, UnregisterFlag, Verdict,
           GuardInterrupted, Settle, Finish, Step, WriteCancelled, WriteFailed,
           WriteSuccess, WriteRest, RewriteSuccess, WriteState, FailedAttempts,
           RetryAttempts, RetryPending, RetryNextFire, CountPeriodic, TallyOnce, CountRun
  <2> QED BY <2>1 DEF TypeInv, InstOK
<1> DEFINE t == inst[i].task
<1>1. FutureStep(i) /\ UNCHANGED <<phase, cron>>
  BY DEF Future, daemonVars
<1>2. /\ \A u \in Task \ {t} : row'[u] = row[u]
      /\ \A j \in Instance \ {i} : inst'[j] = inst[j]
      /\ inst[i].pc # "free" /\ (inst'[i].pc # "free" => inst'[i].task = t)
      /\ row[t].state = "absent" => row'[t] = row[t]
      /\ row'[t].state = "pending" /\ row[t].state # "pending" =>
           inst'[i].pc = "arm" \/ (Periodic(t) /\ row'[t].next = row[t].next)
      /\ row'[t].next \in {row[t].next, "some"}
      /\ inst[i].pc = "arm" => row[t].state = "absent" \/ row'[t].next = "some"
      /\ UNCHANGED <<queue, delayed, disp>>
  BY <1>0, <1>1, FutureWrites
<1>3. t \in Task /\ t = inst[i].task
  BY <1>0
<1> HIDE DEF t
<1>4. ArmedCron'
  BY <1>2, <1>3 DEF ArmedCron
<1>5. ScanPlain'
  BY <1>2 DEF ScanPlain, InQueue
<1>6. Carrying'
  <2> SUFFICES ASSUME phase # "down", NEW u \in Task, Keeps(u),
                      row'[u].state = "pending"
               PROVE  Carried(u)'
    BY <1>1 DEF Carrying, Keeps, Survives
  <2>1. /\ InQueue(u) => InQueue(u)'
        /\ Loading(u) => Loading(u)'
        /\ delayed'[u] = delayed[u] /\ cron' = cron
    BY <1>1, <1>2 DEF InQueue, Loading
  <2>2. CASE row[u].state = "pending"
    <3>1. Carried(u)
      BY <2>2 DEF Carrying
    <3>2. Armed(u) => Armed(u)'
      BY <1>2, StaysArmed
    <3>3. ASSUME NEW j \in Instance, inst[j].task = u, inst[j].pc = "arm"
          PROVE  Arming(u)' \/ Armed(u)'
      <4>1. CASE j # i
        BY <1>2, <3>3, <4>1 DEF Arming
      <4>2. CASE j = i
        BY <1>2, <1>3, <2>2, <3>3, <4>2, SomeArms
      <4> QED BY <4>1, <4>2
    <3> QED BY <2>1, <3>1, <3>2, <3>3, CarriedParts DEF Arming
  <2>3. CASE row[u].state # "pending"
    <3>1. u = t
      BY <1>2, <2>3
    <3>2. CASE inst'[i].pc = "arm"
      <4>1. Arming(u)'
        BY <1>2, <3>1, <3>2 DEF Arming
      <4> QED BY <4>1, CarriedParts
    <3>3. CASE Periodic(t) /\ row'[t].next = row[t].next
      <4>1. Def[t].kind = "interval" \/ row[t].next = "some"
        BY <1>2, <1>3, <2>3, <3>1, <3>3 DEF Periodic, ArmedCron
      <4>2. Armed(u)'
        BY <2>3, <3>1, <3>3, <4>1, SomeArms DEF Armed, CronDue
      <4> QED BY <4>2, CarriedParts
    <3> QED BY <1>2, <2>3, <3>1, <3>2, <3>3
  <2> QED BY <2>2, <2>3
<1> QED BY <1>4, <1>5, <1>6

(* The invariant of a step that leaves next_fire, the queue loop and the   *)
(* pending list as they are.                                               *)
LEMMA ScanKept ==
  ASSUME ScanPlain, UNCHANGED disp, \A u \in Task : InQueue(u) => InQueue(u)', DispOK
  PROVE  ScanPlain'
BY DEF ScanPlain, DispOK

(* A step of the queue loop.                                               *)
LEMMA LoopCarries ==
  ASSUME StoreHolds, CarryInv, QueueLoop
  PROVE  ArmedCron' /\ ScanPlain' /\ Carrying'
<1> USE DEF CarryInv, OwnerInv
<1>0. /\ UNCHANGED <<phase, cron>> /\ DispOK /\ queue \in Seq(Task)
      /\ row \in [Task -> Row]
  BY DEF QueueLoop, daemonVars, TypeInv, QueueOK, RowOK
<1>1. ~WriteFails
  BY DEF WriteFails, StoreHolds
<1>2. \A t \in Task : phase # "down" /\ Keeps(t) /\ row[t].state = "pending" => Carried(t)
  BY DEF Carrying
<1>3. ASSUME NEW t \in Task, UNCHANGED <<queue, row>>, delayed' = delayed
      PROVE  InQueue(t) => InQueue(t)'
  BY <1>3 DEF InQueue
<1>4. ASSUME disp'.pc \notin {"scan", "clear"} PROVE ScanPlain'
  BY <1>4 DEF ScanPlain
<1>5. ASSUME UNCHANGED row PROVE ArmedCron'
  BY <1>5 DEF ArmedCron
<1>6. ASSUME \A t \in Task : phase # "down" /\ Keeps(t) /\ row'[t].state = "pending"
                               => Carried(t)'
      PROVE  Carrying'
  BY <1>0, <1>6 DEF Carrying, Keeps, Survives
<1>7. CASE Drain
  <2>1. /\ Head(queue) \in Task /\ disp.pc = "idle"
        /\ disp'.pc = "load" /\ disp'.task = Head(queue)
        /\ UNCHANGED <<row, delayed, inst>>
    BY <1>0, <1>7 DEF Drain, At, IdleDisp
  <2>2. ASSUME NEW t \in Task, Carried(t), row[t].state = "pending" PROVE Carried(t)'
    <3>1. CASE InQueue(t)
      BY <1>0, <1>7, <2>1, <3>1, DrainHolds, CarriedParts DEF Loading
    <3>2. CASE ~InQueue(t)
      BY <1>0, <2>1, <2>2, <3>2, StillCarried DEF Loading
    <3> QED BY <3>1, <3>2
  <2> QED BY <1>2, <1>4, <1>5, <1>6, <2>1, <2>2
<1>8. CASE LoadDrop \/ CountFails
  <2>1. /\ disp.pc \in {"load", "gate"} /\ disp.task \in Task
        /\ disp'.pc = "idle" /\ UNCHANGED <<row, queue, delayed, inst>>
        /\ row[disp.task].state # "pending"
    BY <1>0, <1>8
    DEF LoadDrop, CountFails, StoreHolds, At, GoIdle, IdleDisp, DispOK, Terminal
  <2>2. ASSUME NEW t \in Task, Carried(t), row[t].state = "pending" PROVE Carried(t)'
    BY <1>0, <2>1, <2>2, StillCarried DEF Loading, InQueue
  <2> QED BY <1>2, <1>4, <1>5, <1>6, <2>1, <2>2
<1>9. CASE LoadTask \/ Admit
  <2>1. /\ disp.pc \in {"load", "gate"} /\ disp.task \in Task
        /\ disp'.pc \in {"gate", "expire", "mark"} /\ disp'.task = disp.task
        /\ UNCHANGED <<row, queue, delayed, inst>>
    BY <1>0, <1>9 DEF LoadTask, Admit, At, Goto, DispOK
  <2>2. ASSUME NEW t \in Task, Carried(t), row[t].state = "pending" PROVE Carried(t)'
    BY <1>0, <2>1, <2>2, StillCarried DEF Loading, InQueue
  <2> QED BY <1>2, <1>4, <1>5, <1>6, <2>1, <2>2
<1>10. CASE LoadTooEarly \/ Overlapping
  <2>1. /\ disp.pc \in {"load", "gate"} /\ disp.task \in Task
        /\ disp'.pc = "idle" /\ UNCHANGED <<row, queue, inst>>
        /\ delayed' = [delayed EXCEPT ![disp.task] = @ + 1]
    BY <1>0, <1>10 DEF LoadTooEarly, Overlapping, Defer, At, GoIdle, IdleDisp, DispOK
  <2>2. /\ \A t \in Task : delayed[t] > 0 => delayed'[t] > 0
        /\ delayed'[disp.task] > 0
    BY <2>1 DEF TypeInv, QueueOK
  <2>3. ASSUME NEW t \in Task, Carried(t), row[t].state = "pending" PROVE Carried(t)'
    <3>1. CASE t = disp.task
      BY <2>2, <3>1, CarriedParts
    <3>2. CASE t # disp.task
      BY <1>0, <2>1, <2>2, <2>3, <3>2, StillCarried DEF Loading, InQueue
    <3> QED BY <3>1, <3>2
  <2> QED BY <1>2, <1>4, <1>5, <1>6, <2>1, <2>3
<1>11. CASE RateLimited
  <2>1. /\ disp.pc = "gate" /\ disp.task \in Task
        /\ disp'.pc = "idle" /\ UNCHANGED <<queue, inst>>
        /\ delayed' = [delayed EXCEPT ![disp.task] = @ + 1]
        /\ UpdateNextFire(disp.task, "some") \/ row' = row
    BY <1>0, <1>1, <1>11 DEF RateLimited, Defer, At, GoIdle, IdleDisp, DispOK
  <2>2. /\ \A t \in Task : delayed[t] > 0 => delayed'[t] > 0
        /\ delayed'[disp.task] > 0
    BY <2>1 DEF TypeInv, QueueOK
  <2>3. \A t \in Task : /\ row'[t].state = row[t].state
                        /\ row'[t].next \in {row[t].next, "some"}
                        /\ row[t].state = "absent" => row'[t] = row[t]
    BY <2>1, ColumnsWritten
  <2>4. ASSUME NEW t \in Task, Carried(t), row[t].state = "pending" PROVE Carried(t)'
    <3>1. CASE t = disp.task
      BY <2>2, <3>1, CarriedParts
    <3>2. CASE t # disp.task
      BY <1>0, <2>1, <2>2, <2>3, <2>4, <3>2, StillCarried DEF Loading, InQueue
    <3> QED BY <3>1, <3>2
  <2>5. ArmedCron'
    BY <2>3 DEF ArmedCron
  <2> QED BY <1>2, <1>4, <1>6, <2>1, <2>3, <2>4, <2>5
<1>12. CASE Expire \/ MarkRunning
  <2>1. /\ disp.pc \in {"expire", "mark"} /\ disp.task \in Task
        /\ disp'.pc \in {"idle", "count"} /\ UNCHANGED <<queue, inst, delayed>>
        /\ \E s \in {"expired", "running"} : UpdateState(disp.task, s)
    BY <1>0, <1>1, <1>12 DEF Expire, MarkRunning, At, Goto, GoIdle, IdleDisp, DispOK
  <2>2. \A t \in Task : /\ row'[t].state = "pending" => row[t].state = "pending"
                                                         /\ t # disp.task
                        /\ row'[t].next = row[t].next
                        /\ row[t].state = "absent" => row'[t] = row[t]
    BY <2>1, ColumnsWritten
  <2>3. ASSUME NEW t \in Task, Carried(t), row'[t].state = "pending" PROVE Carried(t)'
    BY <1>0, <2>1, <2>2, <2>3, StillCarried DEF Loading, InQueue
  <2>4. ArmedCron'
    BY <2>2 DEF ArmedCron
  <2> QED BY <1>2, <1>4, <1>6, <2>1, <2>2, <2>3, <2>4
<1>13. CASE OnStart \/ LoopEnds
  <2>1. /\ disp.pc \in {"count", "idle"} /\ disp'.pc \in {"spawn", "ended"}
        /\ UNCHANGED <<row, queue, delayed, inst>>
    BY <1>0, <1>13 DEF OnStart, LoopEnds, At, Goto, DispOK
  <2>2. ASSUME NEW t \in Task, Carried(t), row[t].state = "pending" PROVE Carried(t)'
    BY <1>0, <2>1, <2>2, StillCarried DEF Loading, InQueue
  <2> QED BY <1>2, <1>4, <1>5, <1>6, <2>1, <2>2
<1>14. CASE \E i \in Instance : Spawn(i)
  <2>1. PICK i \in Instance : Spawn(i)
    BY <1>14
  <2>2. /\ disp.pc = "spawn" /\ disp'.pc = "idle" /\ UNCHANGED <<row, queue, delayed>>
        /\ inst[i].pc = "free" /\ \A j \in Instance \ {i} : inst'[j] = inst[j]
    BY <2>1 DEF Spawn, At, GoIdle, IdleDisp
  <2>3. ASSUME NEW t \in Task, Carried(t), row[t].state = "pending" PROVE Carried(t)'
    <3>1. /\ Arming(t) => Arming(t)'
          /\ InQueue(t) => InQueue(t)'
          /\ ~Loading(t)
      BY <2>2 DEF Arming, InQueue, Loading
    <3>2. Armed(t) => Armed(t)'
      BY <2>2, <2>3, StaysArmed
    <3> QED BY <1>0, <2>2, <2>3, <3>1, <3>2, CarriedParts
  <2> QED BY <1>2, <1>4, <1>5, <1>6, <2>2, <2>3
<1>15. CASE ScanRetries
  <2>1. /\ disp.pc = "idle" /\ disp'.pc = "scan" /\ UNCHANGED <<row, queue, delayed, inst>>
        /\ \A t \in disp'.todo : RetryDue(t)
    BY <1>15 DEF ScanRetries, At, IdleDisp
  <2>2. ASSUME NEW t \in Task, Carried(t), row[t].state = "pending" PROVE Carried(t)'
    BY <1>0, <2>1, <2>2, StillCarried DEF Loading, InQueue
  <2>3. ScanPlain'
    BY <2>1 DEF ScanPlain, RetryDue
  <2> QED BY <1>2, <1>5, <1>6, <2>1, <2>2, <2>3
<1>16. CASE \E t \in Task : ScanEnqueue(t)
  <2>1. PICK u \in Task : ScanEnqueue(u)
    BY <1>16
  <2>2. /\ disp.pc = "scan" /\ u \in disp.todo /\ Enqueue(u)
        /\ UNCHANGED <<row, delayed, inst>>
        /\ \/ Roomy /\ disp'.pc = "clear" /\ disp'.task = u /\ disp'.todo = disp.todo
           \/ disp'.pc \in {"idle", "scan"} /\ disp'.todo \subseteq disp.todo
    <3>1. disp \in [pc : DispPC, task : Task \cup {None}, base : 0..U32Max,
                    todo : SUBSET Task]
      BY <1>0 DEF DispOK
    <3>2. /\ disp.pc = "scan" /\ u \in disp.todo /\ Enqueue(u)
          /\ UNCHANGED <<row, delayed, inst>>
      BY <2>1 DEF ScanEnqueue, At
    <3>3. CASE Roomy
      BY <2>1, <3>1, <3>2, <3>3 DEF ScanEnqueue, Roomy
    <3>4. CASE ~Roomy
      <4>1. ScanNext(u)
        BY <2>1, <3>4 DEF ScanEnqueue, Roomy
      <4> QED BY <3>1, <3>2, <4>1 DEF ScanNext
    <3> QED BY <3>3, <3>4
  <2>3. /\ \A t \in Task : InQueue(t) => InQueue(t)'
        /\ Roomy => InQueue(u)'
    BY <1>0, <2>2, EnqueueHolds
  <2>4. ASSUME NEW t \in Task, Carried(t), row[t].state = "pending" PROVE Carried(t)'
    BY <1>0, <2>2, <2>3, <2>4, StillCarried DEF Loading
  <2>5. ScanPlain'
    BY <2>2, <2>3 DEF ScanPlain
  <2> QED BY <1>2, <1>5, <1>6, <2>2, <2>4, <2>5
<1>17. CASE ScanClear
  <2>1. /\ disp.pc = "clear" /\ disp.task \in Task /\ disp.task \in disp.todo
        /\ Def[disp.task].kind # "cron" /\ InQueue(disp.task)
        /\ disp'.pc \in {"idle", "scan"} /\ disp'.todo \subseteq disp.todo
        /\ UNCHANGED <<queue, inst, delayed>>
        /\ UpdateNextFire(disp.task, "none")
    BY <1>0, <1>1, <1>17 DEF ScanClear, ScanNext, At, DispOK, ScanPlain
  <2>2. \A t \in Task : /\ row'[t].state = row[t].state
                        /\ t # disp.task => row'[t].next = row[t].next
                        /\ row[t].state = "absent" => row'[t] = row[t]
    BY <2>1, ColumnsWritten
  <2>3. \A t \in Task : InQueue(t) => InQueue(t)'
    BY <2>1 DEF InQueue
  <2>4. ASSUME NEW t \in Task, Carried(t), row[t].state = "pending" PROVE Carried(t)'
    <3>1. CASE t = disp.task
      BY <2>1, <2>3, <3>1, CarriedParts
    <3>2. CASE t # disp.task
      BY <1>0, <2>1, <2>2, <2>3, <2>4, <3>2, StillCarried DEF Loading
    <3> QED BY <3>1, <3>2
  <2>5. ArmedCron'
    BY <2>1, <2>2 DEF ArmedCron
  <2>6. ScanPlain'
    BY <2>1 DEF ScanPlain
  <2> QED BY <1>2, <1>6, <2>2, <2>4, <2>5, <2>6
<1> QED
  BY <1>7, <1>8, <1>9, <1>10, <1>11, <1>12, <1>13, <1>14, <1>15, <1>16, <1>17
  DEF QueueLoop, ProcessOne

(* A step of the cron loop.                                                *)
LEMMA CronCarries ==
  ASSUME StoreHolds, NoSkippedRunAt, CarryInv, CronLoop
  PROVE  ArmedCron' /\ ScanPlain' /\ Carrying'
<1> USE DEF CarryInv, OwnerInv
<1>0. /\ UNCHANGED <<phase, queue, disp, inst>> /\ DispOK
      /\ delayed \in [Task -> Nat] /\ cron.plan \in [Task -> CronVerdict]
      /\ cron.due \subseteq Task
  BY CronWrites DEF TypeInv, QueueOK, PhaseOK
<1>1. ~WriteFails
  BY DEF WriteFails, StoreHolds
<1>2. \A t \in Task : phase # "down" /\ Keeps(t) /\ row[t].state = "pending" => Carried(t)
  BY DEF Carrying
<1>3. ScanPlain'
  BY <1>0, ScanKept DEF InQueue
<1>4. \A t \in Task : (InQueue(t) => InQueue(t)') /\ (Loading(t) => Loading(t)')
  BY <1>0 DEF InQueue, Loading
<1>5. ASSUME \A t \in Task : phase # "down" /\ Keeps(t) /\ row'[t].state = "pending"
                               => Carried(t)'
      PROVE  Carrying'
  BY <1>0, <1>5 DEF Carrying, Keeps, Survives
<1>6. CASE StartScan
  <2>1. UNCHANGED <<row, delayed>> /\ cron'.due = cron.due
    BY <1>6 DEF StartScan, CronIdle
  <2>2. ASSUME NEW t \in Task, Carried(t), row[t].state = "pending" PROVE Carried(t)'
    BY <1>0, <1>4, <2>1, <2>2, StillCarried
  <2> QED BY <1>2, <1>3, <1>5, <2>1, <2>2 DEF ArmedCron
<1>7. ASSUME NEW u \in Task, CronFinish(u) \/ CronExpire(u)
      PROVE  ArmedCron' /\ Carrying'
  <2>1. /\ UNCHANGED delayed /\ cron'.due = cron.due
        /\ \E s \in {"success", "expired"} : UpdateState(u, s)
    <3>1. UNCHANGED delayed /\ cron'.due = cron.due
      BY <1>7 DEF CronFinish, CronExpire, CronDrop, cronRest, TypeInv, PhaseOK
    <3>2. UpdateState(u, "success") \/ UpdateState(u, "expired")
      BY <1>1, <1>7 DEF CronFinish, CronExpire
    <3> QED BY <3>1, <3>2
  <2>2. \A t \in Task : /\ row'[t].state = "pending" => row[t].state = "pending"
                        /\ row'[t].next = row[t].next
                        /\ row[t].state = "absent" => row'[t] = row[t]
    BY <2>1, ColumnsWritten
  <2>3. ASSUME NEW t \in Task, Carried(t), row'[t].state = "pending" PROVE Carried(t)'
    BY <1>0, <1>4, <2>1, <2>2, <2>3, StillCarried
  <2>4. ArmedCron'
    BY <2>2 DEF ArmedCron
  <2> QED BY <1>2, <1>5, <2>2, <2>3, <2>4
<1>8. ASSUME NEW u \in Task, CronFire(u)
      PROVE  ArmedCron' /\ Carrying'
  <2> DEFINE later == IF Def[u].kind = "runat" THEN "never" ELSE "some"
  <2>1. /\ UNCHANGED delayed /\ cron.due \subseteq cron'.due
        /\ u \notin cron'.due => Def[u].skips
        /\ UpdateNextFire(u, later)
    <3>1. UNCHANGED delayed /\ UpdateNextFire(u, later)
      BY <1>1, <1>8 DEF CronFire, cronRest
    <3>2. Def[u].skips \in BOOLEAN
      BY StoreAssumption DEF Definition
    <3>3. cron'.due = cron.due \cup {u} \/ (cron'.due = cron.due /\ Def[u].skips)
      <4>1. CASE Def[u].skips
        BY <1>8, <4>1 DEF CronFire
      <4>2. CASE ~Def[u].skips
        <5>1. Def[u].skips = FALSE
          BY <3>2, <4>2
        <5>2. {FALSE, Def[u].skips} = {FALSE}
          BY <5>1
        <5>3. \E skip \in {FALSE} :
                cron' = [plan |-> [cron.plan EXCEPT ![u] = "none"],
                         due  |-> IF skip THEN cron.due ELSE cron.due \cup {u}]
          BY <1>8, <5>2, Zenon DEF CronFire
        <5> QED BY <5>3
      <4> QED BY <4>1, <4>2
    <3> QED BY <3>1, <3>3
  <2>2. /\ \A t \in Task : row'[t].state = row[t].state
        /\ \A t \in Task : row[t].state = "absent" => row'[t] = row[t]
        /\ \A t \in Task \ {u} : row'[t] = row[t]
        /\ row[u].state # "absent" => row'[u].next = later
    BY <2>1, ColumnsWritten
  <2>3. Def[u].kind = "runat" => u \in cron'.due
    BY <2>1 DEF NoSkippedRunAt
  <2>4. ASSUME NEW t \in Task, Carried(t), row[t].state = "pending" PROVE Carried(t)'
    <3>1. CASE t # u
      BY <1>0, <1>4, <2>1, <2>2, <2>4, <3>1, StillCarried
    <3>2. CASE t = u /\ Def[u].kind = "runat"
      BY <2>3, <3>2, CarriedParts
    <3>3. CASE t = u /\ Def[u].kind # "runat"
      <4>1. row'[t].next = "some" /\ row'[t].state = "pending"
        BY <2>2, <2>4, <3>3
      <4> QED BY <4>1, SomeArms, CarriedParts
    <3> QED BY <3>1, <3>2, <3>3
  <2>5. ArmedCron'
    <3> SUFFICES ASSUME NEW t \in Task, Def[t].kind = "cron", row'[t].state # "absent"
                 PROVE  row'[t].next = "some"
      BY DEF ArmedCron
    <3> QED BY <2>2 DEF ArmedCron
  <2> QED BY <1>2, <1>5, <2>2, <2>4, <2>5
<1>9. CASE OnDue
  <2>1. /\ UNCHANGED row
        /\ delayed' = [t \in Task |-> IF t \in cron.due THEN delayed[t] + 1 ELSE delayed[t]]
    BY <1>9 DEF OnDue
  <2>2. \A t \in Task : /\ delayed[t] > 0 => delayed'[t] > 0
                        /\ t \in cron.due => delayed'[t] > 0
    BY <1>0, <2>1
  <2>3. ASSUME NEW t \in Task, Carried(t), row[t].state = "pending" PROVE Carried(t)'
    <3>1. CASE t \in cron.due
      BY <2>2, <3>1, CarriedParts
    <3>2. CASE t \notin cron.due
      BY <1>0, <1>4, <2>1, <2>2, <2>3, <3>2, StillCarried
    <3> QED BY <3>1, <3>2
  <2> QED BY <1>2, <1>3, <1>5, <2>1, <2>3 DEF ArmedCron
<1> QED BY <1>3, <1>6, <1>7, <1>8, <1>9 DEF CronLoop, CronStep

(* What clients write: a row they make Pending is due, or enqueued.        *)
LEMMA ClientCarries ==
  ASSUME StoreHolds, CarryInv, Roomy, NEW u \in Task,
         \/ Dispatch(u) \/ Cancel(u) \/ CancelSignal(u) \/ Requeue(u)
         \/ Remove(u) \/ Pause(u) \/ Timer(u) \/ OrphanExit(u)
  PROVE  ArmedCron' /\ ScanPlain' /\ Carrying'
<1> USE DEF CarryInv, OwnerInv
<1>0. /\ DispOK /\ queue \in Seq(Task) /\ delayed \in [Task -> Nat]
      /\ row \in [Task -> Row]
  BY DEF TypeInv, QueueOK, RowOK
<1>1. UNCHANGED <<phase, disp, inst, cron>>
  BY DEF Dispatch, Cancel, CancelSignal, Requeue, Remove, Pause, Timer, ReEnqueue,
         OrphanExit, daemonVars, queueVars
<1>2. /\ \A t \in Task : InQueue(t) => InQueue(t)'
      /\ Enqueue(u) => InQueue(u)'
  <2>1. CASE Enqueue(u)
    BY <1>0, <2>1, EnqueueHolds
  <2>2. CASE UNCHANGED queue
    <3>1. \A t \in Task : InQueue(t) => InQueue(t)'
      BY <2>2 DEF InQueue
    <3>2. ~Enqueue(u)
      <4> SUFFICES ASSUME Enqueue(u) PROVE FALSE
        OBVIOUS
      <4>1. PICK k \in 0..Len(queue) : queue' = Inserted(queue, k, u)
        BY DEF Enqueue, Push, Inserted, Roomy
      <4>2. Len(queue') = Len(queue) + 1
        BY <1>0, <4>1, PushEntries
      <4> QED BY <1>0, <2>2, <4>2
    <3> QED BY <3>1, <3>2
  <2> QED
    BY <2>1, <2>2
    DEF Dispatch, Cancel, CancelSignal, Requeue, Remove, Pause, Timer, ReEnqueue,
        OrphanExit, daemonVars, queueVars
<1>3. ScanPlain'
  BY <1>0, <1>1, <1>2, ScanKept
<1>4. /\ \A t \in Task \ {u} : row'[t] = row[t] /\ delayed'[t] = delayed[t]
      /\ \/ row'[u].state # "pending" /\ row'[u].next = row[u].next
                                      /\ row[u].state # "absent"
         \/ row'[u].state = "absent"
         \/ row'[u].state \in {"pending", row[u].state} /\ row'[u].next = "some"
         \/ row'[u].state = row[u].state /\ row'[u].next = row[u].next
                                         /\ (delayed'[u] = delayed[u] \/ InQueue(u)')
         \/ row'[u].state = "pending" /\ Def[u].kind = "once" /\ InQueue(u)'
  <2>1. CASE Dispatch(u)
    <3> DEFINE new == [Absent EXCEPT !.state = "pending", !.next = FirstFire(u)]
    <3>1. new.state = "pending" /\ new.next = FirstFire(u)
      BY DEF Absent
    <3>2. row' = [row EXCEPT ![u] = new] /\ UNCHANGED delayed
      BY <2>1 DEF Dispatch, InsertTask
    <3> HIDE DEF new
    <3>3. CASE Def[u].kind = "once"
      <4>1. InQueue(u)'
        BY <1>2, <2>1, <3>3 DEF Dispatch
      <4> QED BY <1>0, <3>1, <3>2, <3>3, <4>1
    <3>4. CASE Def[u].kind # "once"
      BY <1>0, <3>1, <3>2, <3>4 DEF FirstFire
    <3> QED BY <3>3, <3>4
  <2>2. CASE Cancel(u)
    BY <1>0, <2>2 DEF Cancel, CancelTask, queueVars, Row
  <2>3. CASE Requeue(u)
    <3> DEFINE new == [row[u] EXCEPT !.state = "pending", !.attempts = 0,
                                     !.cancel = FALSE, !.next = "some"]
    <3>1. new.state = "pending" /\ new.next = "some"
      BY <1>0 DEF Row
    <3>2. row' = [row EXCEPT ![u] = new] /\ UNCHANGED delayed
      BY <2>3 DEF Requeue, RequeueTask, queueVars
    <3> HIDE DEF new
    <3> QED BY <1>0, <3>1, <3>2
  <2>4. CASE Remove(u)
    BY <1>0, <2>4 DEF Remove, RemoveTask, queueVars, Absent
  <2>5. CASE Pause(u)
    BY <1>0, <2>5 DEF Pause, SetPaused, queueVars, Row
  <2>6. CASE Timer(u)
    BY <1>0, <1>2, <2>6 DEF Timer, ReEnqueue
  <2>7. CASE CancelSignal(u) \/ OrphanExit(u)
    BY <2>7 DEF CancelSignal, OrphanExit, queueVars
  <2> QED BY <2>1, <2>2, <2>3, <2>4, <2>5, <2>6, <2>7
<1>5. ArmedCron'
  BY <1>4 DEF ArmedCron
<1>6. ASSUME phase # "down", NEW t \in Task, Keeps(t), row'[t].state = "pending"
      PROVE  Carried(t)'
  <2>1. row[t].state = "pending" => Carried(t)
    BY <1>6 DEF Carrying
  <2>2. Loading(t) => Loading(t)'
    BY <1>1 DEF Loading
  <2>3. CASE t # u
    BY <1>1, <1>2, <1>4, <1>6, <2>1, <2>2, <2>3, StillCarried
  <2>4. CASE t = u /\ row'[u].next = "some"
    BY <1>6, <2>4, SomeArms, CarriedParts
  <2>5. CASE t = u /\ InQueue(u)'
    BY <2>5, CarriedParts
  <2>6. CASE /\ t = u /\ row[u].state = "pending" /\ row'[u].next = row[u].next
             /\ delayed'[u] = delayed[u]
    BY <1>1, <1>2, <1>6, <2>1, <2>2, <2>6, StillCarried
  <2> QED BY <1>4, <1>6, <2>3, <2>4, <2>5, <2>6
<1> QED BY <1>1, <1>3, <1>5, <1>6 DEF Carrying, Keeps, Survives

(* The watchdog, shutdown and restart.                                     *)
LEMMA AsideCarries ==
  ASSUME StoreHolds, CarryInv, Watchdog \/ Stop \/ EndDrain \/ Restart \/ UNCHANGED vars
  PROVE  ArmedCron' /\ ScanPlain' /\ Carrying'
<1> USE DEF CarryInv, OwnerInv
<1>0. /\ DispOK /\ queue \in Seq(Task) /\ delayed \in [Task -> Nat]
      /\ row \in [Task -> Row] /\ PhaseOK
  BY DEF TypeInv, QueueOK, RowOK
<1>1. UNCHANGED <<disp, inst, cron, queue, delayed>>
  BY DEF Watchdog, WatchdogScan, WatchdogReload, WatchdogWrite, WatchdogDone,
         WatchdogSignal, wdRest, Stop, EndDrain, Restart, queueVars, vars, daemonVars
<1>2. ScanPlain'
  BY <1>0, <1>1, ScanKept DEF InQueue
<1>3. CASE Watchdog \/ Stop \/ EndDrain \/ UNCHANGED vars
  <2>1. phase # "down" \/ (Watchdog /\ UNCHANGED phase) \/ UNCHANGED vars
    BY <1>3
    DEF Stop, EndDrain, Watchdog, WatchdogScan, WatchdogReload, WatchdogWrite, WatchdogDone,
        WatchdogSignal, wdRest
  <2>2. \A t \in Task : /\ row'[t].state = "pending" => row[t].state = "pending"
                        /\ row'[t].next = row[t].next
                        /\ row[t].state = "absent" => row'[t] = row[t]
    <3>1. CASE UNCHANGED row
      BY <3>1
    <3>2. CASE wd.task \in Task /\ UpdateState(wd.task, "interrupted")
      BY <3>2, ColumnsWritten
    <3>3. CASE MarkRunningAsInterrupted
      <4> SUFFICES ASSUME NEW t \in Task
                   PROVE  /\ row'[t].state = "pending" => row[t].state = "pending"
                          /\ row'[t].next = row[t].next
                          /\ row[t].state = "absent" => row'[t] = row[t]
        OBVIOUS
      <4>1. row[t] \in Row /\ row'[t] = IF row[t].state = "running"
                                        THEN [row[t] EXCEPT !.state = "interrupted"]
                                        ELSE row[t]
        BY <1>0, <3>3 DEF MarkRunningAsInterrupted
      <4> QED BY <4>1 DEF Row
    <3> QED
      BY <1>3, <3>1, <3>2, <3>3
      DEF Stop, EndDrain, Watchdog, WatchdogScan, WatchdogReload, WatchdogWrite,
          WatchdogDone, WatchdogSignal, WriteFails, queueVars, vars, TypeInv, WdOK
  <2>3. ASSUME phase # "down", NEW t \in Task, Keeps(t), row'[t].state = "pending"
        PROVE  Carried(t)'
    <3>1. row[t].state = "pending" /\ Carried(t)
      BY <2>2, <2>3 DEF Carrying
    <3> QED BY <1>1, <2>2, <2>3, <3>1, StillCarried DEF InQueue, Loading
  <2>4. ArmedCron'
    BY <2>2 DEF ArmedCron
  <2>5. phase' # "down" => phase # "down"
    BY <2>1 DEF vars, daemonVars
  <2> QED BY <1>2, <2>3, <2>4, <2>5 DEF Carrying, Keeps, Survives
<1>4. CASE Restart
  <2> DEFINE reset == IF Sqlite THEN ResetRunningToPending(orphan) ELSE row
  <2>1. phase = "down" /\ row' = RearmStuckRunAt(reset)
    BY <1>4 DEF Restart, StoreHolds
  <2>2. \A t \in Task : /\ reset[t] \in Row
                        /\ row[t].state = "absent" => reset[t] = row[t]
                        /\ reset[t].next \in {row[t].next, "some"}
                        /\ reset[t].state = "absent" => row[t].state = "absent"
    BY <1>0 DEF ResetRunningToPending, Row, Active
  <2>3. \A t \in Task : /\ row'[t] = reset[t] \/ row'[t] = [reset[t] EXCEPT !.next = "some"]
                        /\ Def[t].kind = "runat" /\ reset[t].state = "pending"
                             => row'[t].next # "never"
                        /\ row[t].state = "absent" => row'[t] = row[t]
    <3>0. \A t \in Task : row'[t] = IF /\ Def[t].kind = "runat"
                                       /\ reset[t].state = "pending"
                                       /\ reset[t].next = "never"
                                    THEN [reset[t] EXCEPT !.next = "some"]
                                    ELSE reset[t]
      BY <2>1 DEF RearmStuckRunAt
    <3> HIDE DEF reset
    <3> QED BY <2>2, <3>0 DEF Row
  <2> HIDE DEF reset
  <2>4. \A t \in Task : /\ row'[t].next \in {row[t].next, "some"}
                        /\ row'[t].state = reset[t].state
    BY <2>2, <2>3 DEF Row
  <2>5. ArmedCron'
    BY <2>2, <2>3, <2>4 DEF ArmedCron
  <2>6. ASSUME NEW t \in Task, Keeps(t), row'[t].state = "pending"
        PROVE  Carried(t)'
    <3>1. CASE Survives
      <4>1. row[t].state = "absent"
        BY <2>1, <3>1 DEF PhaseInv
      <4>2. row'[t] = row[t]
        BY <2>3, <4>1
      <4> QED BY <2>6, <4>1, <4>2
    <3>2. CASE Def[t].kind = "runat"
      <4>1. row'[t].next # "never"
        BY <2>3, <2>4, <2>6, <3>2
      <4> QED BY <3>2, <4>1, CarriedParts DEF Armed, CronDue
    <3>3. CASE Def[t].kind = "interval"
      BY <3>3, CarriedParts DEF Armed, CronDue
    <3>4. CASE Def[t].kind = "cron"
      BY <2>5, <2>6, <3>4, SomeArms, CarriedParts DEF ArmedCron
    <3> QED BY <2>6, <3>1, <3>2, <3>3, <3>4 DEF Keeps
  <2> QED BY <1>2, <2>5, <2>6 DEF Carrying, Keeps, Survives
<1> QED BY <1>3, <1>4

(* Every step of the daemon.                                               *)
LEMMA NextCarried ==
  ASSUME StoreHolds, NoSkippedRunAt, CarryInv, Roomy, [Next]_vars
  PROVE  ArmedCron' /\ ScanPlain' /\ Carrying'
<1>1. CASE Exit
  <2>1. phase' = "down" /\ disp'.pc = "idle"
        /\ row' = IF Sqlite THEN row ELSE [t \in Task |-> Absent]
    BY <1>1 DEF Exit, IdleDisp
  <2> QED
    BY <2>1 DEF CarryInv, ArmedCron, ScanPlain, Carrying, Absent
<1>2. CASE \E i \in Instance : Future(i)
  BY <1>2, FutureCarries
<1>3. CASE QueueLoop
  BY <1>3, LoopCarries
<1>4. CASE CronLoop
  BY <1>4, CronCarries
<1>5. CASE Watchdog \/ Stop \/ EndDrain \/ Restart \/ UNCHANGED vars
  BY <1>5, AsideCarries
<1>6. CASE \E t \in Task : \/ Dispatch(t) \/ Cancel(t) \/ CancelSignal(t) \/ Requeue(t)
                           \/ Remove(t) \/ Pause(t) \/ Timer(t) \/ OrphanExit(t)
  BY <1>6, ClientCarries
<1> QED BY <1>1, <1>2, <1>3, <1>4, <1>5, <1>6 DEF Next

(* The daemon starts that way.                                             *)
LEMMA InitCarried == Init => CarryInv
<1> SUFFICES ASSUME Init PROVE CarryInv
  OBVIOUS
<1>1. \A t \in Task : row[t].state = "absent"
  BY DEF Init, StoreInit, Absent
<1>2. disp.pc = "idle"
  BY DEF Init, QueueInit, IdleDisp
<1> QED
  BY <1>1, <1>2, InitTyped, InitOwned DEF CarryInv, OwnerInv, ArmedCron, ScanPlain, Carrying

(* No Pending task that goes on is ever forgotten while the pending list   *)
(* has room: at every moment, between any two steps of the loops, the      *)
(* futures and the clients, something holds it.                            *)
THEOREM NoTaskEverLost ==
  StoreHolds /\ Survives /\ NoSkippedRunAt => (Spec /\ []Roomy => []NoTaskLost)
<1> SUFFICES ASSUME StoreHolds, Survives, NoSkippedRunAt
             PROVE  Spec /\ []Roomy => []NoTaskLost
  OBVIOUS
<1>1. Init => CarryInv
  BY InitCarried
<1>2. CarryInv /\ Roomy /\ [Next]_vars => CarryInv'
  BY NextTyped, NextOwned, NextCarried DEF CarryInv, OwnerInv
<1>3. CarryInv => NoTaskLost
  BY DEF CarryInv, OwnerInv, PhaseInv, Carrying, Keeps, NoTaskLost, Settled
<1> QED BY <1>1, <1>2, <1>3, PTL DEF Spec

(* A task with a trigger of its own is carried on whatever crashes: the    *)
(* restarted daemon resets what was running, re-arms run_at rows, and      *)
(* finds the others' next_fire.  (A task that has only or_cron expressions *)
(* is left out: after a crash between the retry scan's clearing of its     *)
(* next_fire and its execution nothing holds it.)                          *)
THEOREM TriggersAlwaysSurvive ==
  StoreHolds /\ NoSkippedRunAt /\ (\A t \in Task : Def[t].kind # "orcron")
    => (Spec /\ []Roomy => []TriggersSurvive)
<1> SUFFICES ASSUME StoreHolds, NoSkippedRunAt, \A t \in Task : Def[t].kind # "orcron"
             PROVE  Spec /\ []Roomy => []TriggersSurvive
  OBVIOUS
<1>1. Init => CarryInv
  BY InitCarried
<1>2. CarryInv /\ Roomy /\ [Next]_vars => CarryInv'
  BY NextTyped, NextOwned, NextCarried DEF CarryInv, OwnerInv
<1>3. CarryInv => TriggersSurvive
  BY StoreAssumption DEF CarryInv, Carrying, Keeps, TriggersSurvive, Settled, Definition
<1> QED BY <1>1, <1>2, <1>3, PTL DEF Spec

-----------------------------------------------------------------------------
(* One-shot tasks: the id of one is in one place at a time.                *)

(* Every task is a one-shot; nobody requeues or replaces one; the watchdog *)
(* is off and the store answers.                                           *)
OneShots ==
  /\ StoreHolds /\ ~Watching /\ Requests \cap {"requeue", "remove"} = {}
  /\ \A t \in Task : Def[t].kind = "once"

(* Where an id can be: the pending list, a timer, the queue loop, a future *)
(* that has not finished, or a next_fire the retry scan has still to find. *)
Handled(t) == disp.task = t /\ disp.pc \in {"load", "expire", "gate", "mark", "count", "spawn"}
Working(t, i) == inst[i].task = t /\ inst[i].pc \notin {"free", "finish"}
Due(t) == row[t].next = "some" /\ ~(disp.pc = "clear" /\ disp.task = t)

Only(t, place) ==
  /\ InQueue(t) => place = "queue"
  /\ delayed[t] > 0 => place = "timer"
  /\ Handled(t) => place = "loop"
  /\ Due(t) => place = "due"
  /\ \A i \in Instance : Working(t, i) => place = "future"

Once(t) ==
  /\ \A j, k \in 1..Len(queue) : queue[j] = t /\ queue[k] = t => j = k
  /\ delayed[t] <= 1
  /\ \A i, j \in Instance : Working(t, i) /\ Working(t, j) => i = j

Place == {"queue", "timer", "loop", "due", "future", "none"}
OnePlace(t) == Once(t) /\ \E place \in Place : Only(t, place)

(* The retry scan works on rows that are still due; the cron loop fires    *)
(* nothing; and a daemon that is down holds no id in memory.               *)
ScanDue ==
  disp.pc \in {"scan", "clear"} =>
    /\ \A t \in disp.todo : row[t].next = "some"
    /\ disp.pc = "clear" => disp.task \in disp.todo /\ InQueue(disp.task)
Calm == wd.pc = "stopped" /\ cron.due = {} /\ \A t \in Task : cron.plan[t] # "fire"
DownDue == phase = "down" => \A t \in Task : Only(t, "due")

PlaceInv ==
  /\ TypeInv /\ CountsPeriodic /\ ScanDue /\ Calm /\ DownDue
  /\ \A t \in Task : OnePlace(t) /\ (row[t].state = "absent" => Only(t, "none")
                                                            /\ row[t].next = "none")

(* What is somewhere is nowhere else.                                      *)
LEMMA Whereabouts ==
  ASSUME NEW t \in Task, OnePlace(t)
  PROVE  /\ InQueue(t) => Only(t, "queue")
         /\ delayed[t] > 0 => Only(t, "timer")
         /\ Handled(t) => Only(t, "loop")
         /\ Due(t) => Only(t, "due")
         /\ \A i \in Instance : Working(t, i) => Only(t, "future")
BY DEF OnePlace, Only

(* An id that only leaves places stays where it was, or nowhere.           *)
LEMMA FewerPlaces ==
  ASSUME NEW t \in Task, Once(t), delayed'[t] \in {delayed[t], 0},
         InQueue(t)' => InQueue(t),
         \A j, k \in 1..Len(queue') : queue'[j] = t /\ queue'[k] = t => j = k,
         Handled(t)' => Handled(t), Due(t)' => Due(t),
         \A i \in Instance : Working(t, i)' => Working(t, i)
  PROVE  /\ Once(t)'
         /\ \A place : Only(t, place) => Only(t, place)'
         /\ OnePlace(t) => OnePlace(t)'
<1>1. Once(t)'
  BY DEF Once
<1>2. \A place : Only(t, place) => Only(t, place)'
  BY DEF Only
<1> QED BY <1>1, <1>2 DEF OnePlace

(* Only a new id comes into the list, once.                                *)
LEMMA EnqueuePlaces ==
  ASSUME queue \in Seq(Task), NEW t \in Task, Enqueue(t), ~InQueue(t), NEW u \in Task,
         \A j, k \in 1..Len(queue) : queue[j] = u /\ queue[k] = u => j = k
  PROVE  /\ \A j, k \in 1..Len(queue') : queue'[j] = u /\ queue'[k] = u => j = k
         /\ u # t /\ InQueue(u)' => InQueue(u)
<1>1. CASE Len(queue) < MaxPending
  <2>0. Len(queue) \in Nat
    OBVIOUS
  <2>1. PICK k \in 0..Len(queue) : queue' = Inserted(queue, k, t)
    BY <1>1 DEF Enqueue, Push, Inserted
  <2>2. /\ Len(queue') = Len(queue) + 1
        /\ \A m \in 1..Len(queue') :
             queue'[m] = IF m <= k THEN queue[m]
                         ELSE IF m = k + 1 THEN t ELSE queue[m - 1]
    BY <2>1, PushEntries
  <2> DEFINE from(m) == IF m <= k THEN m ELSE m - 1
  <2>3. ASSUME NEW m \in 1..Len(queue'), m # k + 1
        PROVE  from(m) \in 1..Len(queue) /\ queue'[m] = queue[from(m)]
    BY <2>0, <2>2, <2>3
  <2>4. queue'[k + 1] = t /\ k + 1 \in 1..Len(queue')
    BY <2>0, <2>2
  <2>5. ASSUME NEW m \in 1..Len(queue'), m # k + 1 PROVE queue'[m] # t
    BY <2>3, <2>5 DEF InQueue
  <2>6. ASSUME NEW j \in 1..Len(queue'), NEW m \in 1..Len(queue'),
               queue'[j] = u, queue'[m] = u
        PROVE  j = m
    <3>1. CASE j = k + 1 \/ m = k + 1
      BY <2>4, <2>5, <2>6, <3>1
    <3>2. CASE j # k + 1 /\ m # k + 1
      <4>1. from(j) = from(m)
        BY <2>3, <2>6, <3>2
      <4> QED BY <2>0, <2>2, <3>2, <4>1
    <3> QED BY <3>1, <3>2
  <2>7. u # t /\ InQueue(u)' => InQueue(u)
    BY <2>3, <2>4 DEF InQueue
  <2> QED BY <2>6, <2>7
<1>2. CASE ~(Len(queue) < MaxPending)
  BY <1>2 DEF Enqueue, InQueue
<1> QED BY <1>1, <1>2

(* The loop takes the first id, and it waited only there.                  *)
LEMMA DrainPlaces ==
  ASSUME queue \in Seq(Task), Drain, NEW u \in Task,
         \A j, k \in 1..Len(queue) : queue[j] = u /\ queue[k] = u => j = k
  PROVE  /\ \A j, k \in 1..Len(queue') : queue'[j] = u /\ queue'[k] = u => j = k
         /\ InQueue(u)' => InQueue(u) /\ u # Head(queue)
         /\ InQueue(Head(queue)) /\ Head(queue) \in Task
<1>0. Len(queue) \in Nat
  OBVIOUS
<1>1. /\ Len(queue') = Len(queue) - 1 /\ queue # <<>>
      /\ \A m \in 1..Len(queue') : queue'[m] = queue[m + 1] /\ m + 1 \in 1..Len(queue)
      /\ Head(queue) = queue[1] /\ 1 \in 1..Len(queue) /\ Head(queue) \in Task
  BY DEF Drain
<1>2. ASSUME NEW j \in 1..Len(queue'), NEW k \in 1..Len(queue'), queue'[j] = u, queue'[k] = u
      PROVE  j = k
  <2>1. j + 1 = k + 1
    BY <1>1, <1>2
  <2> QED BY <1>0, <1>1, <2>1
<1>3. ASSUME NEW j \in 1..Len(queue'), queue'[j] = u
      PROVE  InQueue(u) /\ u # Head(queue)
  <2>1. queue[j + 1] = u /\ j + 1 \in 1..Len(queue) /\ j + 1 # 1
    BY <1>0, <1>1, <1>3
  <2> QED BY <1>1, <2>1 DEF InQueue
<1>4. InQueue(u)' => InQueue(u) /\ u # Head(queue)
  BY <1>3 DEF InQueue
<1> QED BY <1>1, <1>2, <1>4 DEF InQueue

(* What a step that is not a future's may do to a task: its row, its place.*)
Rewritten(t) ==
  \/ /\ row'[t].attempts = row[t].attempts /\ row'[t].runs = row[t].runs
     /\ \/ row'[t].state = row[t].state
        \/ /\ row[t].state # "absent"
           /\ \/ row'[t].state = "success" /\ cron.plan[t] = "finish"
              \/ row'[t].state = "expired" /\ (cron.plan[t] = "expire" \/ Handled(t))
              \/ row'[t].state = "cancelled" /\ row[t].state = "pending"
              \/ row'[t].state = "running" /\ Handled(t)
              \/ row'[t].state \in Active /\ row[t].state \in Active
  \/ /\ row'[t].attempts = 0 /\ row'[t].runs = 0
     /\ row'[t].state = "absent" \/ (row'[t].state = "pending" /\ row[t].state = "absent")

Moved(t) ==
  /\ OnePlace(t)'
  /\ row'[t].state = "absent" => Only(t, "none")' /\ row'[t].next = "none"
  /\ \A place \in {"none", "future"} :
       Only(t, place) /\ row[t].state \in Terminal => Only(t, place)'
  /\ Rewritten(t)

Spawning ==
  \A i \in Instance :
    \/ inst'[i] = inst[i] \/ inst'[i].pc = "free"
    \/ /\ disp.pc = "spawn" /\ inst'[i].pc = "queued"
       /\ inst'[i].task = disp.task /\ inst'[i].base = disp.base

Snapshot == {"gate", "mark", "count", "spawn"}
Reading ==
  disp'.pc \in Snapshot =>
    \/ disp'.task = disp.task /\ disp.pc \in Snapshot /\ disp'.base = disp.base
    \/ /\ disp'.task = disp.task /\ disp.pc = "load"
       /\ row[disp.task].state \in Active /\ disp'.base = row[disp.task].attempts

Orderly ==
  (\A t \in Task : Moved(t)) /\ Spawning /\ Reading /\ ScanDue' /\ Calm' /\ DownDue'

(* A task the step does not move.                                          *)
LEMMA Bystander ==
  ASSUME PlaceInv, NEW t \in Task, delayed'[t] \in {delayed[t], 0},
         InQueue(t)' => InQueue(t),
         \A j, k \in 1..Len(queue') : queue'[j] = t /\ queue'[k] = t => j = k,
         Handled(t)' => Handled(t), Due(t)' => Due(t),
         \A i \in Instance : Working(t, i)' => Working(t, i),
         Rewritten(t),
         row'[t].state = "absent" => row[t].state = "absent" /\ row'[t].next = row[t].next
  PROVE  Moved(t)
<1>1. OnePlace(t) /\ Once(t)
  BY DEF PlaceInv, OnePlace
<1>2. OnePlace(t)' /\ \A place : Only(t, place) => Only(t, place)'
  BY <1>1, FewerPlaces
<1> QED BY <1>2 DEF Moved, PlaceInv

(* Nothing of the list changes.                                            *)
LEMMA SameQueue ==
  ASSUME UNCHANGED queue, NEW t \in Task, Once(t)
  PROVE  /\ InQueue(t)' <=> InQueue(t)
         /\ \A j, k \in 1..Len(queue') : queue'[j] = t /\ queue'[k] = t => j = k
BY DEF InQueue, Once

(* process_one goes on with the id it handles, drops it, or defers it.     *)
LEMMA HandlerMoves ==
  ASSUME PlaceInv, NEW u \in Task, Handled(u), UNCHANGED <<queue, inst>>,
         \/ delayed' = delayed /\ (disp'.pc = "idle" \/ Handled(u)')
         \/ delayed' = [delayed EXCEPT ![u] = @ + 1] /\ disp'.pc = "idle",
         \A t \in Task : /\ Rewritten(t) /\ row'[t].next = row[t].next
                         /\ row'[t].state = "absent" => row[t].state = "absent"
  PROVE  \A t \in Task : Moved(t)
<1>0. delayed \in [Task -> Nat] /\ \A t \in Task : OnePlace(t) /\ Once(t)
  BY DEF PlaceInv, OnePlace, TypeInv, QueueOK
<1>1. \A t \in Task : /\ InQueue(t)' <=> InQueue(t)
                      /\ Due(t)' <=> Due(t)
                      /\ \A i \in Instance : Working(t, i)' <=> Working(t, i)
  BY <1>0, SameQueue DEF Handled, Due, Working
<1>2. ASSUME NEW t \in Task, t # u PROVE Moved(t)
  <2>1. delayed'[t] = delayed[t]
    BY <1>0, <1>2
  <2>2. Handled(t)' => Handled(t)
    BY <1>2 DEF Handled
  <2> QED BY <1>0, <1>1, <2>1, <2>2, SameQueue, Bystander
<1>3. Moved(u)
  <2>1. Only(u, "loop") /\ delayed[u] = 0
    BY <1>0, Whereabouts DEF Only
  <2>2. Once(u)'
    BY <1>0, <1>1, <2>1, SameQueue DEF Once
  <2>3. CASE delayed' = delayed
    <3>1. Only(u, "loop")'
      BY <1>1, <2>1, <2>3 DEF Only
    <3> QED BY <2>1, <2>2, <3>1 DEF Moved, OnePlace, Place, Only, PlaceInv
  <2>4. CASE delayed' = [delayed EXCEPT ![u] = @ + 1] /\ disp'.pc = "idle"
    <3>1. ~Handled(u)'
      BY <2>4 DEF Handled
    <3>2. Only(u, "timer")'
      BY <1>1, <2>1, <3>1 DEF Only
    <3> QED BY <2>1, <2>2, <3>2 DEF Moved, OnePlace, Place, Only, PlaceInv
  <2> QED BY <2>3, <2>4
<1> QED BY <1>2, <1>3

(* A step of the queue loop.                                               *)
LEMMA LoopPlaces ==
  ASSUME OneShots, PlaceInv, QueueLoop
  PROVE  Orderly
<1> USE DEF PlaceInv
<1>0. /\ UNCHANGED <<phase, cron, wd>> /\ phase # "down" /\ DispOK /\ queue \in Seq(Task)
      /\ row \in [Task -> Row] /\ delayed \in [Task -> Nat]
      /\ \A t \in Task : OnePlace(t) /\ Once(t)
  BY DEF QueueLoop, daemonVars, TypeInv, QueueOK, RowOK, OnePlace
<1>1. ~WriteFails /\ StoreHolds /\ \A t \in Task : ~Periodic(t)
  BY DEF WriteFails, StoreHolds, OneShots, Periodic
<1>2. Calm' /\ DownDue'
  BY <1>0 DEF Calm, DownDue
<1>3. UNCHANGED inst => Spawning
  BY DEF Spawning
<1>4. ASSUME disp'.pc \notin {"scan", "clear"} PROVE ScanDue'
  BY <1>4 DEF ScanDue
<1>5. UNCHANGED row => \A t \in Task : Rewritten(t)
  BY DEF Rewritten
<1>6. disp.pc \in {"load", "expire", "gate", "mark", "count", "spawn"} =>
        disp.task \in Task /\ Handled(disp.task)
  BY <1>0 DEF DispOK, Handled
<1>7. CASE Drain
  <2>0. PICK u \in Task : u = Head(queue)
    BY <1>0, <1>7, DrainPlaces DEF Drain
  <2>1. /\ disp.pc = "idle" /\ disp'.pc = "load" /\ disp'.task = u
        /\ UNCHANGED <<row, delayed, inst>>
    BY <1>7, <2>0 DEF Drain, At, IdleDisp
  <2>2. \A t \in Task :
          /\ \A j, k \in 1..Len(queue') : queue'[j] = t /\ queue'[k] = t => j = k
          /\ InQueue(t)' => InQueue(t) /\ t # u
          /\ InQueue(u)
    BY <1>0, <1>7, <2>0, DrainPlaces DEF Once
  <2>3. \A t \in Task : /\ Due(t)' <=> Due(t)
                        /\ \A i \in Instance : Working(t, i)' <=> Working(t, i)
                        /\ t # u => ~Handled(t)'
    BY <2>1 DEF Handled, Due, Working
  <2>4. ASSUME NEW t \in Task, t # u PROVE Moved(t)
    BY <1>0, <1>5, <2>1, <2>2, <2>3, <2>4, Bystander
  <2>5. Moved(u)
    <3>1. Only(u, "queue")
      BY <1>0, <2>2, Whereabouts
    <3>2. Only(u, "loop")'
      BY <2>1, <2>2, <2>3, <3>1 DEF Only
    <3>3. Once(u)'
      BY <1>0, <2>1, <2>2, <2>3 DEF Once
    <3> QED
      BY <1>5, <2>1, <2>2, <3>1, <3>2, <3>3 DEF Moved, OnePlace, Place, Only
  <2> QED
    BY <1>2, <1>3, <1>4, <2>1, <2>4, <2>5 DEF Orderly, Reading, Snapshot
<1>8. CASE \/ LoadDrop \/ CountFails \/ LoadTask \/ LoadTooEarly \/ RateLimited
           \/ Overlapping \/ Admit \/ OnStart
  <2> DEFINE Deferred == /\ delayed' = [delayed EXCEPT ![disp.task] = @ + 1]
                         /\ disp'.pc = "idle"
             Onward == /\ delayed' = delayed /\ disp'.task = disp.task
                       /\ disp'.pc \in {"expire", "gate", "mark", "spawn"}
             Dropped == delayed' = delayed /\ disp'.pc = "idle"
  <2>1. /\ disp.pc \in {"load", "gate", "count"} /\ UNCHANGED <<row, queue, inst>>
        /\ Dropped \/ Onward \/ Deferred
        /\ Reading
    <3> USE DEF At, Goto, GoIdle, IdleDisp, Reading, Snapshot
    <3>1. CASE LoadDrop \/ CountFails
      BY <3>1 DEF LoadDrop, CountFails
    <3>2. CASE LoadTask
      <4>1. CASE disp' = [disp EXCEPT !.pc = "gate", !.base = row[disp.task].attempts]
        BY <1>0, <3>2, <4>1 DEF LoadTask, DispOK
      <4>2. CASE Goto("expire")
        BY <1>0, <3>2, <4>2 DEF LoadTask, DispOK
      <4> QED BY <3>2, <4>1, <4>2 DEF LoadTask
    <3>3. CASE LoadTooEarly \/ Overlapping
      BY <3>3 DEF LoadTooEarly, Overlapping, Defer
    <3>4. CASE RateLimited
      BY <1>1, <1>6, <3>4 DEF RateLimited, Defer
    <3>5. CASE Admit
      BY <1>0, <3>5 DEF Admit, DispOK
    <3>6. CASE OnStart
      BY <1>0, <3>6 DEF OnStart, DispOK
    <3> QED BY <1>8, <3>1, <3>2, <3>3, <3>4, <3>5, <3>6
  <2>3. \A t \in Task : Moved(t)
    BY <1>5, <1>6, <2>1, HandlerMoves DEF Handled
  <2> QED BY <1>2, <1>3, <1>4, <2>1, <2>3 DEF Orderly
<1>9. CASE Expire \/ MarkRunning
  <2>1. /\ disp.pc \in {"expire", "mark"} /\ UNCHANGED <<queue, inst, delayed>>
        /\ \/ disp.pc = "expire" /\ disp'.pc = "idle" /\ UpdateState(disp.task, "expired")
           \/ /\ disp.pc = "mark" /\ disp'.pc = "count" /\ disp'.task = disp.task
              /\ disp'.base = disp.base /\ UpdateState(disp.task, "running")
    BY <1>0, <1>1, <1>9
    DEF Expire, MarkRunning, At, Goto, GoIdle, IdleDisp, DispOK
  <2>2. \A t \in Task :
          /\ row'[t].attempts = row[t].attempts /\ row'[t].runs = row[t].runs
          /\ row'[t].next = row[t].next
          /\ \/ row'[t].state = row[t].state
             \/ t = disp.task /\ row'[t].state \in {"expired", "running"}
                              /\ row[t].state # "absent"
    BY <1>6, <2>1, ColumnsWritten
  <2>3. \A t \in Task : Rewritten(t) /\ (row'[t].state = "absent" => row[t].state = "absent")
    BY <1>6, <2>1, <2>2 DEF Rewritten
  <2>4. \A t \in Task : Moved(t)
    BY <1>6, <2>1, <2>2, <2>3, HandlerMoves DEF Handled
  <2>5. Reading
    BY <2>1 DEF Reading, Snapshot
  <2> QED BY <1>2, <1>3, <1>4, <2>1, <2>4, <2>5 DEF Orderly
<1>10. CASE ScanRetries \/ LoopEnds
  <2>1. /\ disp.pc = "idle" /\ disp'.pc \in {"scan", "ended"}
        /\ UNCHANGED <<row, queue, delayed, inst>>
    BY <1>0, <1>10 DEF ScanRetries, LoopEnds, At, Goto, IdleDisp, DispOK
  <2>2. \A t \in Task : /\ Due(t)' <=> Due(t)
                        /\ \A i \in Instance : Working(t, i)' <=> Working(t, i)
                        /\ ~Handled(t)'
    BY <2>1 DEF Due, Working, Handled
  <2>3. \A t \in Task : Moved(t)
    BY <1>0, <1>5, <2>1, <2>2, SameQueue, Bystander
  <2>4. ScanDue'
    BY <1>0, <1>10 DEF ScanRetries, LoopEnds, Goto, IdleDisp, RetryDue, ScanDue, DispOK
  <2> QED BY <1>2, <1>3, <2>1, <2>3, <2>4 DEF Orderly, Reading, Snapshot
<1>11. CASE \E i \in Instance : Spawn(i)
  <2>1. PICK i \in Instance : Spawn(i)
    BY <1>11
  <2>2. PICK u \in Task : u = disp.task /\ Handled(u)
    BY <1>6, <2>1 DEF Spawn, At
  <2>3. /\ disp.pc = "spawn" /\ disp'.pc = "idle" /\ UNCHANGED <<row, queue, delayed>>
        /\ inst[i].pc = "free" /\ \A j \in Instance \ {i} : inst'[j] = inst[j]
        /\ inst'[i].pc = "queued" /\ inst'[i].task = u /\ inst'[i].base = disp.base
    BY <2>1, <2>2 DEF Spawn, At, GoIdle, IdleDisp, TypeInv, InstOK
  <2>4. \A t \in Task : /\ Due(t)' <=> Due(t)
                        /\ ~Handled(t)'
                        /\ \A j \in Instance \ {i} : Working(t, j)' <=> Working(t, j)
                        /\ Working(t, i)' <=> t = u
    BY <2>3 DEF Due, Handled, Working
  <2>5. ASSUME NEW t \in Task, t # u PROVE Moved(t)
    BY <1>0, <1>5, <2>3, <2>4, <2>5, SameQueue, Bystander
  <2>6. Moved(u)
    <3>1. Only(u, "loop")
      BY <1>0, <2>2, Whereabouts
    <3>2. \A j \in Instance : ~Working(u, j)
      BY <3>1 DEF Only
    <3>3. Once(u)'
      BY <1>0, <2>3, <2>4, <3>2, SameQueue DEF Once
    <3>4. Only(u, "future")'
      BY <1>0, <2>3, <2>4, <3>1, SameQueue DEF Only
    <3>5. ~Only(u, "none") /\ ~Only(u, "future")
      BY <2>2 DEF Only
    <3> QED BY <1>5, <2>3, <3>3, <3>4, <3>5 DEF Moved, OnePlace, Place
  <2>7. Spawning
    BY <2>2, <2>3 DEF Spawning
  <2> QED BY <1>2, <1>4, <2>3, <2>5, <2>6, <2>7 DEF Orderly, Reading, Snapshot
<1>12. CASE \E u \in Task : ScanEnqueue(u)
  <2>1. PICK u \in Task : ScanEnqueue(u)
    BY <1>12
  <2>2. /\ disp.pc = "scan" /\ u \in disp.todo /\ Enqueue(u)
        /\ UNCHANGED <<row, delayed, inst>>
    BY <2>1 DEF ScanEnqueue, At
  <2>3. /\ \/ /\ Roomy /\ disp'.pc = "clear" /\ disp'.task = u /\ disp'.todo = disp.todo
           \/ /\ ~Roomy /\ disp'.pc \in {"idle", "scan"} /\ disp'.todo \subseteq disp.todo
    <3>1. disp \in [pc : DispPC, task : Task \cup {None}, base : 0..U32Max,
                    todo : SUBSET Task]
      BY <1>0 DEF DispOK
    <3>2. CASE Roomy
      BY <2>1, <3>1, <3>2 DEF ScanEnqueue, Roomy
    <3>3. CASE ~Roomy
      <4>1. ScanNext(u)
        BY <2>1, <3>3 DEF ScanEnqueue, Roomy
      <4> QED BY <3>1, <3>3, <4>1 DEF ScanNext
    <3> QED BY <3>2, <3>3
  <2>4. Due(u) /\ Only(u, "due") /\ ~InQueue(u)
    <3>1. Due(u)
      BY <2>2 DEF ScanDue, Due
    <3> QED BY <1>0, <3>1, Whereabouts DEF Only
  <2>5. \A t \in Task :
          /\ \A j, k \in 1..Len(queue') : queue'[j] = t /\ queue'[k] = t => j = k
          /\ t # u /\ InQueue(t)' => InQueue(t)
          /\ ~Handled(t)'
          /\ Due(t)' => Due(t)
          /\ \A i \in Instance : Working(t, i)' <=> Working(t, i)
    BY <1>0, <2>2, <2>3, <2>4, EnqueuePlaces DEF Once, Handled, Due, Working
  <2>6. ASSUME NEW t \in Task, t # u PROVE Moved(t)
    BY <1>0, <1>5, <2>2, <2>5, <2>6, Bystander
  <2>7. Moved(u)
    <3>1. CASE Roomy
      <4>1. ~Due(u)'
        BY <2>3, <3>1 DEF Due
      <4>2. Once(u)' /\ Only(u, "queue")'
        BY <1>0, <2>2, <2>4, <2>5, <4>1 DEF Once, Only
      <4>3. ~Only(u, "none") /\ ~Only(u, "future") /\ row'[u].state # "absent"
        BY <2>2, <2>4 DEF Only
      <4> QED BY <1>5, <2>2, <4>2, <4>3 DEF Moved, OnePlace, Place
    <3>2. CASE ~Roomy
      <4>1. UNCHANGED queue
        BY <2>2, <3>2 DEF Enqueue, Roomy
      <4> QED BY <1>0, <1>5, <2>2, <2>5, <4>1, SameQueue, Bystander
    <3> QED BY <3>1, <3>2
  <2>8. ScanDue'
    <3>1. Roomy => InQueue(u)'
      BY <1>0, <2>2, EnqueueHolds
    <3> QED BY <2>2, <2>3, <3>1 DEF ScanDue
  <2> QED BY <1>2, <1>3, <2>2, <2>3, <2>6, <2>7, <2>8 DEF Orderly, Reading, Snapshot
<1>13. CASE ScanClear
  <2>1. /\ disp.pc = "clear" /\ disp.task \in Task
        /\ disp'.pc \in {"idle", "scan"} /\ disp'.todo = disp.todo \ {disp.task}
        /\ UNCHANGED <<queue, inst, delayed>>
        /\ UpdateNextFire(disp.task, "none")
    BY <1>0, <1>1, <1>13 DEF ScanClear, ScanNext, At, DispOK
  <2>2. \A t \in Task : /\ row'[t].state = row[t].state
                        /\ row'[t].attempts = row[t].attempts /\ row'[t].runs = row[t].runs
                        /\ t # disp.task => row'[t].next = row[t].next
                        /\ t = disp.task /\ row[t].state # "absent" =>
                             row'[t].next = "none"
                        /\ row[t].state = "absent" => row'[t] = row[t]
    BY <2>1, ColumnsWritten
  <2>3. row[disp.task].state # "absent"
    <3>1. row[disp.task].next = "some"
      BY <2>1 DEF ScanDue
    <3> QED BY <2>1, <3>1
  <2>4. \A t \in Task : /\ Due(t)' => Due(t)
                        /\ \A i \in Instance : Working(t, i)' <=> Working(t, i)
                        /\ ~Handled(t)'
                        /\ Rewritten(t)
                        /\ row'[t].state = "absent" => row[t].state = "absent"
                                                       /\ row'[t].next = row[t].next
    BY <2>1, <2>2, <2>3 DEF Due, Working, Handled, Rewritten
  <2>5. \A t \in Task : Moved(t)
    BY <1>0, <2>1, <2>4, SameQueue, Bystander
  <2>6. ScanDue'
    BY <1>0, <2>1, <2>2 DEF ScanDue, DispOK
  <2> QED BY <1>2, <1>3, <2>1, <2>5, <2>6 DEF Orderly, Reading, Snapshot
<1> QED
  BY <1>7, <1>8, <1>9, <1>10, <1>11, <1>12, <1>13 DEF QueueLoop, ProcessOne

(* A step of the cron loop: it finishes and expires rows, but no one-shot  *)
(* is ever due by itself.                                                  *)
LEMMA CronPlaces ==
  ASSUME OneShots, PlaceInv, CronLoop
  PROVE  Orderly
<1> USE DEF PlaceInv
<1>0. /\ UNCHANGED <<phase, queue, disp, inst, wd>> /\ PhaseOK /\ DispOK
      /\ \A t \in Task : OnePlace(t) /\ Once(t)
  BY DEF CronLoop, StartScan, CronStep, OnDue, CronFinish, CronExpire, CronFire, cronRest,
         TypeInv, OnePlace
<1>1. ~WriteFails
  BY DEF WriteFails, StoreHolds, OneShots
<1>2. \/ StartScan /\ phase = "up"
      \/ \E u \in Task : CronFinish(u) \/ CronExpire(u)
  BY DEF CronLoop, CronStep, OnDue, CronFire, Calm
<1>3. UNCHANGED delayed
  BY <1>2 DEF StartScan, CronFinish, CronExpire
<1>4. phase # "down"
  BY DEF CronLoop
<1>5. Calm'
  <2>1. CASE StartScan
    <3>1. PICK plan \in [Task -> CronVerdict] :
            (\A t \in Task : CronDecides(t, plan[t])) /\ cron' = [cron EXCEPT !.plan = plan]
      BY <2>1 DEF StartScan
    <3>2. \A t \in Task : plan[t] # "fire"
      BY <3>1 DEF CronDecides, CronDue, OneShots
    <3>3. cron'.plan = plan /\ cron'.due = cron.due
      BY <1>0, <3>1 DEF PhaseOK
    <3> QED BY <1>0, <3>2, <3>3 DEF Calm
  <2>2. ASSUME NEW u \in Task, CronFinish(u) \/ CronExpire(u) PROVE Calm'
    <3>1. cron' = [cron EXCEPT !.plan[u] = "none"]
      BY <2>2 DEF CronFinish, CronExpire, CronDrop
    <3>2. cron'.plan = [cron.plan EXCEPT ![u] = "none"] /\ cron'.due = cron.due
      BY <1>0, <3>1 DEF PhaseOK
    <3> QED BY <1>0, <3>2 DEF Calm, PhaseOK
  <2> QED BY <1>2, <2>1, <2>2
<1>6. \A t \in Task : Rewritten(t) /\ row'[t].next = row[t].next
                      /\ (row'[t].state = "absent" => row[t].state = "absent")
  <2>1. CASE StartScan
    BY <2>1 DEF StartScan, Rewritten
  <2>2. ASSUME NEW u \in Task, CronFinish(u) \/ CronExpire(u), NEW t \in Task
        PROVE  Rewritten(t) /\ row'[t].next = row[t].next
               /\ (row'[t].state = "absent" => row[t].state = "absent")
    <3>1. \/ cron.plan[u] = "finish" /\ UpdateState(u, "success")
          \/ cron.plan[u] = "expire" /\ UpdateState(u, "expired")
      BY <1>1, <2>2 DEF CronFinish, CronExpire, CronDrop
    <3>2. /\ row'[t].attempts = row[t].attempts /\ row'[t].runs = row[t].runs
          /\ row'[t].next = row[t].next
          /\ \/ row'[t].state = row[t].state
             \/ t = u /\ row[t].state # "absent"
                /\ \/ cron.plan[u] = "finish" /\ row'[t].state = "success"
                   \/ cron.plan[u] = "expire" /\ row'[t].state = "expired"
      BY <3>1, ColumnsWritten
    <3> QED BY <3>2 DEF Rewritten
  <2> QED BY <1>2, <2>1, <2>2
<1>7. \A t \in Task : /\ Handled(t)' => Handled(t)
                      /\ Due(t)' => Due(t)
                      /\ \A i \in Instance : Working(t, i)' => Working(t, i)
  BY <1>0, <1>6 DEF Handled, Due, Working
<1>8. \A t \in Task : Moved(t)
  BY <1>0, <1>3, <1>6, <1>7, SameQueue, Bystander
<1>9. ScanDue'
  BY <1>0, <1>6 DEF ScanDue, InQueue, DispOK
<1> QED
  BY <1>0, <1>4, <1>5, <1>8, <1>9 DEF Orderly, Spawning, Reading, DownDue

(* A step that moves no id and changes no row but to cancel, interrupt or  *)
(* pause it.                                                               *)
LEMMA Unmoved ==
  ASSUME PlaceInv, UNCHANGED <<queue, delayed, disp, inst, cron>>, wd'.pc = wd.pc,
         phase' = "down" => phase = "down",
         \A t \in Task : /\ Rewritten(t) /\ row'[t].next = row[t].next
                         /\ row'[t].state = "absent" => row[t].state = "absent"
  PROVE  Orderly
<1> USE DEF PlaceInv
<1>0. DispOK /\ \A t \in Task : OnePlace(t) /\ Once(t)
  BY DEF TypeInv, OnePlace
<1>1. \A t \in Task : /\ Handled(t)' <=> Handled(t)
                      /\ Due(t)' <=> Due(t)
                      /\ InQueue(t)' <=> InQueue(t)
                      /\ \A i \in Instance : Working(t, i)' <=> Working(t, i)
  BY DEF Handled, Due, InQueue, Working
<1>2. \A t \in Task : Moved(t)
  BY <1>0, <1>1, SameQueue, Bystander
<1>3. ScanDue'
  BY <1>0 DEF ScanDue, InQueue, DispOK
<1>4. DownDue'
  BY <1>1 DEF DownDue, Only
<1> QED BY <1>2, <1>3, <1>4 DEF Orderly, Spawning, Reading, Calm

(* What clients do, and the timers.                                        *)
LEMMA ClientPlaces ==
  ASSUME OneShots, PlaceInv, NEW u \in Task,
         \/ Dispatch(u) \/ Cancel(u) \/ CancelSignal(u) \/ Requeue(u)
         \/ Remove(u) \/ Pause(u) \/ Timer(u) \/ OrphanExit(u)
  PROVE  Orderly
<1> USE DEF PlaceInv
<1>0. /\ DispOK /\ queue \in Seq(Task) /\ row \in [Task -> Row] /\ delayed \in [Task -> Nat]
      /\ \A t \in Task : OnePlace(t) /\ Once(t)
  BY DEF TypeInv, QueueOK, RowOK, OnePlace
<1>1. ~Requeue(u) /\ ~Remove(u)
  BY DEF OneShots, Requeue, Remove
<1>2. UNCHANGED <<phase, disp, inst, cron, wd>>
  BY DEF Dispatch, Cancel, CancelSignal, Requeue, Remove, Pause, Timer, ReEnqueue,
         OrphanExit, daemonVars, queueVars
<1>3. CASE Cancel(u) \/ Pause(u) \/ CancelSignal(u) \/ OrphanExit(u)
  <2>1. UNCHANGED <<queue, delayed>>
    BY <1>3 DEF Cancel, Pause, CancelSignal, OrphanExit, queueVars
  <2>2. /\ \A t \in Task \ {u} : row'[t] = row[t]
        /\ row'[u].next = row[u].next /\ row'[u].attempts = row[u].attempts
        /\ row'[u].runs = row[u].runs
        /\ \/ row'[u].state = row[u].state
           \/ row'[u].state = "cancelled" /\ row[u].state = "pending"
    BY <1>0, <1>3
    DEF Cancel, CancelTask, Pause, SetPaused, CancelSignal, OrphanExit, queueVars, Row
  <2>3. \A t \in Task : /\ Rewritten(t) /\ row'[t].next = row[t].next
                        /\ row'[t].state = "absent" => row[t].state = "absent"
    BY <2>2 DEF Rewritten
  <2> QED BY <1>2, <2>1, <2>3, Unmoved
<1>4. ASSUME Only(u, "none") \/ Only(u, "timer"), Enqueue(u), delayed'[u] = 0,
             \A t \in Task \ {u} : row'[t] = row[t] /\ delayed'[t] = delayed[t],
             row'[u].next = row[u].next, row'[u].state # "absent",
             row[u].state \in Terminal => delayed[u] > 0,
             Rewritten(u), phase # "down"
      PROVE  Orderly
  <2>1. ~InQueue(u) /\ ~Handled(u) /\ ~Due(u) /\ \A i \in Instance : ~Working(u, i)
    BY <1>4 DEF Only
  <2>2. \A t \in Task :
          /\ \A j, k \in 1..Len(queue') : queue'[j] = t /\ queue'[k] = t => j = k
          /\ t # u /\ InQueue(t)' => InQueue(t)
          /\ Handled(t)' => Handled(t)
          /\ Due(t)' => Due(t)
          /\ \A i \in Instance : Working(t, i)' <=> Working(t, i)
    BY <1>0, <1>2, <1>4, <2>1, EnqueuePlaces DEF Once, Handled, Due, Working
  <2>3. ASSUME NEW t \in Task, t # u PROVE Moved(t)
    BY <1>0, <1>4, <2>2, <2>3, Bystander DEF Rewritten
  <2>4. Moved(u)
    <3>1. Once(u)'
      BY <1>0, <1>2, <1>4, <2>2 DEF Once
    <3>2. Only(u, "queue")'
      BY <1>4, <2>1, <2>2 DEF Only
    <3>3. CASE row[u].state \notin Terminal
      BY <1>4, <3>1, <3>2, <3>3 DEF Moved, OnePlace, Place
    <3>4. CASE delayed[u] > 0
      BY <1>4, <3>1, <3>2, <3>4 DEF Moved, OnePlace, Place, Only
    <3> QED BY <1>4, <3>3, <3>4
  <2>5. ScanDue'
    <3>1. \A t \in Task : InQueue(t) => InQueue(t)'
      BY <1>0, <1>4, EnqueueHolds
    <3> QED BY <1>0, <1>2, <1>4, <3>1 DEF ScanDue, DispOK
  <2> QED BY <1>2, <1>4, <2>3, <2>4, <2>5 DEF Orderly, Spawning, Reading, DownDue, Calm
<1>5. CASE Dispatch(u)
  <2> DEFINE new == [Absent EXCEPT !.state = "pending", !.next = FirstFire(u)]
  <2>1. new.state = "pending" /\ new.next = "none" /\ new.attempts = 0 /\ new.runs = 0
    BY DEF Absent, FirstFire, OneShots
  <2>2. /\ row[u].state = "absent" /\ row' = [row EXCEPT ![u] = new] /\ UNCHANGED delayed
        /\ Enqueue(u) /\ phase = "up"
    BY <1>5 DEF Dispatch, InsertTask, OneShots
  <2> HIDE DEF new
  <2>3. row'[u] = new /\ \A t \in Task \ {u} : row'[t] = row[t]
    BY <1>0, <2>2
  <2>4. Only(u, "none") /\ row[u].next = "none" /\ delayed[u] = 0
    BY <1>0, <2>2 DEF Only
  <2>5. Rewritten(u)
    BY <2>1, <2>2, <2>3 DEF Rewritten
  <2> QED BY <1>4, <2>1, <2>2, <2>3, <2>4, <2>5 DEF Terminal
<1>6. CASE Timer(u)
  <2>1. /\ UNCHANGED row /\ Enqueue(u) /\ delayed[u] > 0
        /\ delayed' = [delayed EXCEPT ![u] = @ - 1]
    BY <1>6 DEF Timer, ReEnqueue
  <2>2. delayed[u] = 1 /\ delayed'[u] = 0 /\ \A t \in Task \ {u} : delayed'[t] = delayed[t]
    BY <1>0, <2>1 DEF Once
  <2>3. Only(u, "timer") /\ ~Only(u, "none") /\ ~Only(u, "due")
    BY <1>0, <2>1, Whereabouts DEF Only
  <2>4. row[u].state # "absent" /\ phase # "down"
    BY <2>3 DEF DownDue
  <2>5. Rewritten(u)
    BY <2>1 DEF Rewritten
  <2> QED BY <1>4, <2>1, <2>2, <2>3, <2>4, <2>5
<1> QED BY <1>1, <1>3, <1>5, <1>6

(* Shutdown, crash and restart.                                            *)
LEMMA AsidePlaces ==
  ASSUME OneShots, PlaceInv,
         Watchdog \/ Stop \/ EndDrain \/ Exit \/ Restart \/ UNCHANGED vars
  PROVE  Orderly
<1> USE DEF PlaceInv
<1>0. /\ DispOK /\ queue \in Seq(Task) /\ row \in [Task -> Row] /\ delayed \in [Task -> Nat]
      /\ \A t \in Task : OnePlace(t) /\ Once(t)
      /\ wd \in [pc : {"wait", "scan", "reload", "write", "stopped"},
                 task : Task \cup {None}, todo : SUBSET Task]
  BY DEF TypeInv, QueueOK, RowOK, OnePlace, WdOK
<1>1. ~Watchdog
  BY DEF Watchdog, WatchdogScan, WatchdogReload, WatchdogWrite, WatchdogDone,
         WatchdogSignal, Calm
<1>2. CASE Stop \/ EndDrain \/ UNCHANGED vars
  <2>1. UNCHANGED <<queue, delayed, disp, inst, cron>> /\ (phase' = "down" => phase = "down")
    BY <1>2 DEF Stop, EndDrain, queueVars, vars, daemonVars
  <2>2. wd'.pc = wd.pc
    BY <1>2 DEF Stop, EndDrain, vars, daemonVars, Calm
  <2>3. ASSUME NEW t \in Task
        PROVE  /\ Rewritten(t) /\ row'[t].next = row[t].next
               /\ row'[t].state = "absent" => row[t].state = "absent"
    <3>1. CASE UNCHANGED row
      BY <3>1 DEF Rewritten
    <3>2. CASE MarkRunningAsInterrupted
      <4>1. row[t] \in Row /\ row'[t] = IF row[t].state = "running"
                                        THEN [row[t] EXCEPT !.state = "interrupted"]
                                        ELSE row[t]
        BY <1>0, <3>2 DEF MarkRunningAsInterrupted
      <4> QED BY <4>1 DEF Row, Rewritten, Active
    <3> QED BY <1>2, <3>1, <3>2 DEF Stop, EndDrain, WriteFails, vars
  <2> QED BY <2>1, <2>2, <2>3, Unmoved
<1>3. CASE Exit
  <2>1. /\ queue' = <<>> /\ delayed' = [t \in Task |-> 0] /\ disp' = IdleDisp
        /\ inst' = [i \in Instance |-> FreeInst] /\ cron' = CronIdle /\ wd' = WdStart
        /\ row' = IF Sqlite THEN row ELSE [t \in Task |-> Absent]
    BY <1>3 DEF Exit
  <2>2. \A t \in Task : /\ ~InQueue(t)' /\ delayed'[t] = 0 /\ ~Handled(t)'
                        /\ \A i \in Instance : ~Working(t, i)'
                        /\ Due(t)' <=> row'[t].next = "some"
    <3>1. Len(queue') = 0
      BY <2>1
    <3> QED
      BY <2>1, <3>1 DEF InQueue, Handled, Working, Due, IdleDisp, FreeInst
  <2>3. \A t \in Task : Only(t, "due")' /\ Once(t)'
    <3>1. Len(queue') = 0
      BY <2>1
    <3> QED BY <2>2, <3>1 DEF Only, Once
  <2>4. \A t \in Task : row'[t] = row[t] \/ row'[t] = Absent
    BY <2>1
  <2>5. ASSUME NEW t \in Task PROVE Moved(t)
    <3>1. OnePlace(t)'
      BY <2>3 DEF OnePlace, Place
    <3>2. row'[t].state = "absent" => row'[t].next = "none"
      BY <2>4 DEF Absent
    <3>3. row'[t].next # "some" => \A place : Only(t, place)'
      BY <2>2 DEF Only
    <3>4. ASSUME NEW place \in {"none", "future"}, Only(t, place) PROVE row[t].next # "some"
      <4>1. ~Due(t) /\ ~InQueue(t)
        BY <3>4 DEF Only
      <4> QED BY <1>0, <4>1 DEF Due, ScanDue
    <3>5. Rewritten(t)
      BY <2>4 DEF Rewritten, Absent
    <3> QED BY <2>4, <3>1, <3>2, <3>3, <3>4, <3>5 DEF Moved, Absent
  <2>6. ScanDue' /\ Reading /\ Spawning /\ DownDue'
    BY <2>1, <2>3 DEF ScanDue, Reading, Snapshot, Spawning, DownDue, IdleDisp, FreeInst
  <2>7. Calm'
    BY <2>1 DEF Calm, CronIdle, WdStart, WdWait, OneShots
  <2> QED BY <2>5, <2>6, <2>7 DEF Orderly
<1>4. CASE Restart
  <2>1. /\ phase = "down" /\ phase' = "up" /\ UNCHANGED <<queue, delayed, disp, inst, cron, wd>>
        /\ row' = RearmStuckRunAt(IF Sqlite THEN ResetRunningToPending(orphan) ELSE row)
    BY <1>4 DEF Restart, queueVars, OneShots, StoreHolds
  <2>2. \A t \in Task : \/ row'[t] = row[t]
                        \/ /\ row[t].state \in {"running", "interrupted"}
                           /\ row'[t] = [row[t] EXCEPT !.state = "pending", !.next = "some"]
    BY <1>0, <2>1 DEF RearmStuckRunAt, ResetRunningToPending, OneShots
  <2>3. ASSUME NEW t \in Task PROVE Moved(t)
    <3>1. Only(t, "due") /\ Once(t)
      BY <1>0, <2>1 DEF DownDue
    <3>2. Only(t, "due")' /\ Once(t)'
      BY <2>1, <3>1 DEF Only, Once, InQueue, Handled, Working
    <3>3. CASE row'[t] = row[t]
      <4>1. \A place : Only(t, place) => Only(t, place)'
        BY <2>1, <3>3 DEF Only, InQueue, Handled, Working, Due
      <4> QED BY <3>2, <3>3, <4>1 DEF Moved, OnePlace, Place, Rewritten
    <3>4. CASE row[t].state \in {"running", "interrupted"}
               /\ row'[t] = [row[t] EXCEPT !.state = "pending", !.next = "some"]
      <4>1. /\ row'[t].state = "pending" /\ row'[t].attempts = row[t].attempts
            /\ row'[t].runs = row[t].runs
        BY <1>0, <3>4 DEF Row
      <4> QED BY <3>2, <3>4, <4>1 DEF Moved, OnePlace, Place, Rewritten, Active, Terminal
    <3> QED BY <2>2, <3>3, <3>4
  <2>4. ScanDue'
    <3>1. \A t \in Task : row[t].next = "some" => row'[t].next = "some"
      BY <1>0, <2>2 DEF Row
    <3> QED BY <1>0, <2>1, <3>1 DEF ScanDue, InQueue, DispOK
  <2> QED BY <2>1, <2>3, <2>4 DEF Orderly, Spawning, Reading, Calm, DownDue
<1> QED BY <1>1, <1>2, <1>3, <1>4

(* Every step that is not a future's.                                      *)
LEMMA OrderlySteps ==
  ASSUME OneShots, PlaceInv, [Next]_vars, \A i \in Instance : ~Future(i)
  PROVE  Orderly
BY LoopPlaces, CronPlaces, ClientPlaces, AsidePlaces DEF Next

(* The writes of the future of a one-shot, and where each leaves it.       *)
Settling(i, t) ==
  \/ /\ UNCHANGED row
     /\ inst[i].pc \notin {"arm", "tally", "resucceed"}
     /\ inst'[i].pc \notin {"failed", "tally", "resucceed"}
  \/ /\ inst[i].pc \in {"cancelled", "fail", "succeed", "resucceed"}
     /\ inst'[i].pc \in {"finish", "failed", "tally"}
     /\ row'[t].state \in {"cancelled", "failed", "success"}
     /\ inst[i].pc = "resucceed" => row'[t].state = "success"
     /\ row'[t].state = "success" => inst'[i].pc \in {"tally", "finish"}
     /\ row'[t].attempts = row[t].attempts /\ row'[t].runs = row[t].runs
     /\ row'[t].next = row[t].next
  \/ /\ \/ inst[i].pc = "failed" /\ inst'[i].pc = "finish"
        \/ inst[i].pc = "attempt" /\ inst'[i].pc = "pend"
     /\ row'[t].attempts = Saturate(inst[i].base, U32Max)
     /\ row'[t].state = row[t].state /\ row'[t].runs = row[t].runs
     /\ row'[t].next = row[t].next
  \/ /\ inst[i].pc = "pend" /\ inst'[i].pc = "arm"
     /\ row'[t].state = "pending"
     /\ row'[t].attempts = row[t].attempts /\ row'[t].runs = row[t].runs
     /\ row'[t].next = row[t].next
  \/ /\ inst[i].pc = "arm" /\ inst'[i].pc = "finish"
     /\ row'[t].next = "some"
     /\ row'[t].state = row[t].state /\ row'[t].runs = row[t].runs
     /\ row'[t].attempts = row[t].attempts
  \/ /\ inst[i].pc = "tally" /\ inst'[i].pc \in {"resucceed", "finish"}
     /\ row'[t].state = row[t].state /\ row'[t].attempts = row[t].attempts
     /\ row'[t].next = row[t].next

(* Every step of the future of a one-shot is one of those.                 *)
LEMMA OneShotFuture ==
  ASSUME OneShots, TypeInv, CountsPeriodic, NEW i \in Instance, FutureStep(i),
         NEW t \in Task, t = inst[i].task,
         row[t].state # "absent" \/ inst[i].pc = "finish"
  PROVE  /\ inst[i].pc = "finish" => inst'[i].pc = "free" /\ UNCHANGED row
         /\ inst[i].pc # "finish" =>
              /\ inst'[i].pc \notin {"free", "queued"}
              /\ inst'[i].task = t /\ inst'[i].base = inst[i].base
         /\ inst'[i].pc = "attempt" => inst[i].base < RetryLimit(t)
         /\ Settling(i, t)
<1> USE DEF TypeInv, InstOK
<1>0. i \in Instance /\ StoreHolds /\ ~WriteFails
  BY DEF OneShots, StoreHolds, WriteFails
<1>1. ASSUME NEW from, NEW to \in InstPC \ {"free"}, Step(i, from, to)
      PROVE  /\ inst[i].pc = from /\ inst'[i].pc = to /\ inst'[i].task = t
             /\ inst'[i].base = inst[i].base
  BY <1>1 DEF Step
<1>2. ~Periodic(t) /\ inst[i].pc \notin {"count", "rest"}
  BY DEF OneShots, Periodic, CountsPeriodic
<1>3. OnFailure(i) \in {"attempt", "fail"}
      /\ (OnFailure(i) = "attempt" => inst[i].base < RetryLimit(t))
  BY DEF OnFailure
<1>4. CASE Start(i) \/ RegisterFlag(i) \/ UnregisterFlag(i)
  BY <1>0, <1>1, <1>4 DEF Start, RegisterFlag, UnregisterFlag, InstPC, Settling
<1>5. CASE Execute(i)
  <2>1. /\ inst'[i].pc = "unflag" /\ inst'[i].task = t /\ inst[i].pc = "exec"
        /\ inst'[i].base = inst[i].base
    BY <1>5 DEF Execute
  <2> QED BY <1>5, <2>1 DEF Execute, Settling
<1>6. CASE Verdict(i)
  <2>1. /\ Judge(i) \in {"attempt", "fail", "succeed", "guard"}
        /\ Judge(i) = "attempt" => inst[i].base < RetryLimit(t)
    BY <1>2, <1>3 DEF Judge
  <2>2. PICK to \in {"cancelled", "attempt", "fail", "succeed", "guard"} :
          /\ inst' = [inst EXCEPT ![i].pc = to, ![i].out = "none"]
          /\ to = "attempt" => inst[i].base < RetryLimit(t)
    BY <1>6, <2>1 DEF Verdict
  <2>3. /\ inst'[i].pc = to /\ inst'[i].task = t /\ inst[i].pc = "verdict"
        /\ inst'[i].base = inst[i].base
    BY <1>6, <2>2 DEF Verdict
  <2> QED BY <1>6, <2>2, <2>3 DEF Verdict, Settling
<1>7. CASE GuardInterrupted(i)
  <2>1. /\ inst[i].pc = "guard" /\ UNCHANGED row
        /\ \E to \in {"finish", "attempt", "fail"} :
             Step(i, "guard", to) /\ (to = "attempt" => inst[i].base < RetryLimit(t))
    BY <1>3, <1>7 DEF GuardInterrupted
  <2> QED BY <1>1, <2>1 DEF InstPC, Settling
<1>8. CASE Finish(i)
  BY <1>8 DEF Finish, FreeInst, Settling
<1>9. CASE WriteCancelled(i) \/ WriteFailed(i) \/ WriteSuccess(i) \/ RewriteSuccess(i)
  <2>1. PICK from \in InstPC, s \in {"cancelled", "failed", "success"},
             to \in {"finish", "failed", "tally"} :
          /\ Step(i, from, to) /\ UpdateState(t, s)
          /\ <<from, s, to>> \in {<<"cancelled", "cancelled", "finish">>,
                                  <<"fail", "failed", "failed">>,
                                  <<"succeed", "success", "tally">>,
                                  <<"resucceed", "success", "finish">>}
    BY <1>0, <1>2, <1>9
       DEF WriteState, WriteCancelled, WriteFailed, WriteSuccess, RewriteSuccess, InstPC
  <2>2. to \in InstPC \ {"free"}
    BY DEF InstPC
  <2>3. /\ row'[t].state = s /\ row'[t].next = row[t].next
        /\ row'[t].attempts = row[t].attempts /\ row'[t].runs = row[t].runs
    BY <1>1, <2>1, <2>2, ColumnsWritten
  <2> QED BY <1>1, <2>1, <2>2, <2>3 DEF Settling
<1>10. CASE FailedAttempts(i) \/ RetryAttempts(i)
  <2>1. PICK from \in {"failed", "attempt"}, to \in {"finish", "pend"} :
          /\ Step(i, from, to) /\ SetAttempts(t, Saturate(inst[i].base, U32Max))
          /\ from = "attempt" <=> to = "pend"
    BY <1>0, <1>10 DEF FailedAttempts, RetryAttempts
  <2>2. to \in InstPC \ {"free"}
    BY DEF InstPC
  <2>3. /\ row'[t].state = row[t].state /\ row'[t].next = row[t].next
        /\ row'[t].attempts = Saturate(inst[i].base, U32Max) /\ row'[t].runs = row[t].runs
    BY <1>1, <2>1, <2>2, ColumnsWritten
  <2> QED BY <1>1, <2>1, <2>2, <2>3 DEF Settling
<1>11. CASE RetryPending(i)
  <2>1. Step(i, "pend", "arm") /\ UpdateState(t, "pending") /\ "arm" \in InstPC \ {"free"}
    BY <1>0, <1>11 DEF RetryPending, InstPC
  <2>2. /\ row'[t].state = "pending" /\ row'[t].next = row[t].next
        /\ row'[t].attempts = row[t].attempts /\ row'[t].runs = row[t].runs
    BY <1>1, <2>1, ColumnsWritten
  <2> QED BY <1>1, <2>1, <2>2 DEF Settling
<1>12. CASE RetryNextFire(i)
  <2>1. Step(i, "arm", "finish") /\ UpdateNextFire(t, "some") /\ "finish" \in InstPC \ {"free"}
    BY <1>0, <1>12 DEF RetryNextFire, InstPC
  <2>2. /\ row'[t].state = row[t].state /\ row'[t].next = "some"
        /\ row'[t].attempts = row[t].attempts /\ row'[t].runs = row[t].runs
    BY <1>1, <2>1, ColumnsWritten
  <2> QED BY <1>1, <2>1, <2>2 DEF Settling
<1>13. CASE TallyOnce(i)
  <2>1. inst[i].pc = "tally"
    BY <1>13 DEF TallyOnce, CountRun
  <2>2. PICK to \in {"resucceed", "finish"} : Step(i, "tally", to) /\ IncrementRuns(t)
    BY <1>0, <1>13, <2>1 DEF TallyOnce, CountRun, StoreHolds
  <2>3. to \in InstPC \ {"free"}
    BY DEF InstPC
  <2>4. /\ row'[t].state = row[t].state /\ row'[t].next = row[t].next
        /\ row'[t].attempts = row[t].attempts
    BY <2>2, ColumnsWritten
  <2> QED BY <1>1, <2>2, <2>3, <2>4 DEF Settling
<1>14. ~WriteRest(i) /\ ~CountPeriodic(i)
  BY <1>2 DEF WriteRest, WriteState, CountPeriodic, CountRun, Step
<1> QED
  BY <1>4, <1>5, <1>6, <1>7, <1>8, <1>9, <1>10, <1>11, <1>12, <1>13, <1>14
  DEF FutureStep, Settle

(* What a future's step leaves alone, and what it may do.                  *)
LEMMA FutureSettles ==
  ASSUME OneShots, PlaceInv, NEW i \in Instance, Future(i)
  PROVE  /\ inst[i].task \in Task /\ inst[i].pc # "free"
         /\ \A u \in Task \ {inst[i].task} : row'[u] = row[u]
         /\ \A j \in Instance \ {i} : inst'[j] = inst[j]
         /\ UNCHANGED <<queue, delayed, disp, phase, cron, wd>>
         /\ inst[i].pc = "finish" \/ row[inst[i].task].state # "absent"
         /\ inst[i].pc = "finish" => inst'[i].pc = "free" /\ UNCHANGED row
         /\ inst[i].pc # "finish" =>
              /\ inst'[i].pc \notin {"free", "queued"}
              /\ inst'[i].task = inst[i].task /\ inst'[i].base = inst[i].base
         /\ inst'[i].pc = "attempt" => inst[i].base < RetryLimit(inst[i].task)
         /\ Settling(i, inst[i].task)
         /\ CountsPeriodic'
<1>1. inst[i].pc # "free" /\ FutureStep(i) /\ UNCHANGED <<phase, cron, wd>>
  BY DEF Future, daemonVars, FutureStep, Start, RegisterFlag, Execute, UnregisterFlag,
         Verdict, GuardInterrupted, Settle, Finish, Step, WriteCancelled, WriteFailed,
         WriteSuccess, WriteRest, RewriteSuccess, WriteState, FailedAttempts,
         RetryAttempts, RetryPending, RetryNextFire, CountPeriodic, TallyOnce, CountRun
<1>2. PICK t \in Task : t = inst[i].task
  BY <1>1 DEF PlaceInv, TypeInv, InstOK
<1>3. inst[i].pc = "finish" \/ row[t].state # "absent"
  BY <1>1, <1>2 DEF PlaceInv, Only, Working
<1>4. /\ \A u \in Task \ {t} : row'[u] = row[u]
      /\ \A j \in Instance \ {i} : inst'[j] = inst[j]
      /\ inst'[i].pc \in {"count", "rest"} => Periodic(t)
      /\ (inst'[i].pc # "free" => inst'[i].task = t)
      /\ UNCHANGED <<queue, delayed, disp>>
  BY <1>1, <1>2, FutureWrites DEF PlaceInv, OneShots
<1>5. CountsPeriodic'
  BY <1>4 DEF PlaceInv, CountsPeriodic, Periodic
<1> QED BY <1>1, <1>2, <1>3, <1>4, <1>5, OneShotFuture DEF PlaceInv

(* A future's step: the id stays with it, becomes due, or is nowhere.      *)
LEMMA FuturePlaces ==
  ASSUME OneShots, PlaceInv, NEW i \in Instance, Future(i)
  PROVE  /\ CountsPeriodic' /\ ScanDue' /\ Calm' /\ DownDue'
         /\ \A t \in Task : OnePlace(t)' /\ (row'[t].state = "absent" => Only(t, "none")'
                                                             /\ row'[t].next = "none")
<1> USE DEF PlaceInv
<1>0. PICK t \in Task :
        /\ t = inst[i].task /\ inst[i].pc # "free"
        /\ \A u \in Task \ {t} : row'[u] = row[u]
        /\ \A j \in Instance \ {i} : inst'[j] = inst[j]
        /\ UNCHANGED <<queue, delayed, disp, phase, cron, wd>>
        /\ inst[i].pc = "finish" \/ row[t].state # "absent"
        /\ inst[i].pc = "finish" => inst'[i].pc = "free" /\ UNCHANGED row
        /\ inst[i].pc # "finish" => inst'[i].pc # "free" /\ inst'[i].task = t
        /\ Settling(i, t)
        /\ CountsPeriodic'
  BY FutureSettles
<1>1. /\ row'[t].next \in {row[t].next, "some"}
      /\ row'[t].next # row[t].next => inst'[i].pc = "finish"
      /\ row'[t].state = "absent" => row[t].state = "absent"
      /\ inst[i].pc = "arm" => row'[t].next = "some"
  BY <1>0 DEF Settling
<1>2. \A u \in Task : OnePlace(u) /\ Once(u)
  BY DEF OnePlace
<1>3. \A u \in Task : /\ InQueue(u)' <=> InQueue(u)
                      /\ Handled(u)' <=> Handled(u)
                      /\ \A j \in Instance : Working(u, j)' => Working(u, j)
                      /\ u # t => (Due(u)' <=> Due(u))
  BY <1>0 DEF InQueue, Handled, Working, Due
<1>4. ScanDue'
  <2>1. DispOK
    BY DEF TypeInv
  <2>2. \A u \in Task : row[u].next = "some" => row'[u].next = "some"
    BY <1>0, <1>1
  <2> QED BY <1>0, <1>3, <2>1, <2>2 DEF ScanDue, DispOK
<1>5. Calm'
  BY <1>0 DEF Calm
<1>6. ASSUME NEW u \in Task, u # t
      PROVE  OnePlace(u)' /\ \A place : Only(u, place) => Only(u, place)'
  BY <1>0, <1>2, <1>3, <1>6, SameQueue, FewerPlaces
<1>7. CASE inst[i].pc = "finish"
  <2>1. Due(t)' <=> Due(t)
    BY <1>0, <1>7 DEF Due
  <2>2. OnePlace(t)' /\ \A place : Only(t, place) => Only(t, place)'
    BY <1>0, <1>2, <1>3, <2>1, SameQueue, FewerPlaces
  <2> QED BY <1>0, <1>4, <1>5, <1>6, <1>7, <2>2 DEF DownDue
<1>8. CASE inst[i].pc # "finish"
  <2>1. Working(t, i) /\ Only(t, "future")
    BY <1>0, <1>2, <1>8, Whereabouts DEF Working
  <2>2. /\ ~InQueue(t)' /\ delayed'[t] = delayed[t] /\ ~(delayed[t] > 0) /\ ~Handled(t)'
        /\ \A j \in Instance : Working(t, j)' => j = i
    BY <1>0, <1>2, <1>3, <2>1 DEF Only, Once
  <2>3. row[t].next # "some"
    BY <2>1 DEF Only, Due, ScanDue
  <2>4. Once(t)'
    BY <1>0, <1>2, <1>3, <2>2, SameQueue DEF Once
  <2>5. Only(t, "future")' \/ Only(t, "due")'
    <3>1. CASE inst'[i].pc = "finish"
      <4>1. \A j \in Instance : ~Working(t, j)'
        BY <2>2, <3>1 DEF Working
      <4> QED BY <2>2, <4>1 DEF Only
    <3>2. CASE inst'[i].pc # "finish"
      <4>1. ~Due(t)'
        BY <1>1, <2>3, <3>2 DEF Due
      <4> QED BY <2>2, <4>1 DEF Only
    <3> QED BY <3>1, <3>2
  <2>6. phase # "down" /\ row'[t].state # "absent"
    BY <1>0, <1>1, <1>8, <2>1 DEF DownDue, Only
  <2> QED BY <1>0, <1>4, <1>5, <1>6, <2>4, <2>5, <2>6 DEF DownDue, OnePlace, Place
<1> QED BY <1>7, <1>8

(* Every step of the daemon.                                               *)
LEMMA NextPlaced ==
  ASSUME OneShots, PlaceInv, [Next]_vars
  PROVE  PlaceInv'
<1>1. TypeInv'
  BY NextTyped DEF PlaceInv
<1>2. CASE \E i \in Instance : Future(i)
  BY <1>1, <1>2, FuturePlaces DEF PlaceInv
<1>3. CASE \A i \in Instance : ~Future(i)
  <2>1. Orderly
    BY <1>3, OrderlySteps
  <2>2. \A i \in Instance : inst'[i] # inst[i] => inst'[i].pc \in {"free", "queued"}
    BY <2>1 DEF Orderly, Spawning
  <2>3. CountsPeriodic'
    BY <2>2, CountsKept DEF PlaceInv
  <2> QED BY <1>1, <2>1, <2>3 DEF Orderly, Moved, PlaceInv
<1> QED BY <1>2, <1>3

(* The daemon starts that way.                                             *)
LEMMA InitPlaced == ASSUME OneShots, Init PROVE PlaceInv
<1>1. TypeInv /\ CountsPeriodic
  BY InitTyped, InitOwned
<1>2. /\ Len(queue) = 0 /\ disp.pc = "idle" /\ phase = "up"
      /\ \A t \in Task : delayed[t] = 0 /\ row[t].state = "absent" /\ row[t].next = "none"
      /\ \A i \in Instance : inst[i].pc = "free"
  BY DEF Init, QueueInit, StoreInit, Absent, FreeInst, IdleDisp
<1>3. \A t \in Task : Only(t, "none") /\ OnePlace(t)
  BY <1>2 DEF Only, OnePlace, Once, Place, InQueue, Handled, Working, Due
<1>4. Calm
  BY DEF Init, Calm, CronIdle, WdStart, WdWait, OneShots
<1> QED BY <1>1, <1>2, <1>3, <1>4 DEF PlaceInv, ScanDue, DownDue

-----------------------------------------------------------------------------
(* One-shot tasks: the retry budget.                                       *)

(* Whoever is about to execute or retry has read no more attempts than the *)
(* budget, and a row beyond it is settled, with its id nowhere.            *)
BudgetInv ==
  /\ PlaceInv
  /\ \A t \in Task :
       /\ row[t].attempts <= Saturate(RetryLimit(t), U32Max)
       /\ row[t].attempts > RetryLimit(t) => row[t].state \in Terminal /\ Only(t, "none")
  /\ disp.pc \in Snapshot => disp.base <= RetryLimit(disp.task)
  /\ \A i \in Instance : inst[i].pc # "free" =>
       /\ inst[i].base <= RetryLimit(inst[i].task)
       /\ inst[i].pc = "attempt" => inst[i].base < RetryLimit(inst[i].task)
       /\ inst[i].pc = "failed" => row[inst[i].task].state \in Terminal

(* A limit is an attempts value; one more than it saturates.               *)
LEMMA BudgetLimit ==
  ASSUME NEW t \in Task
  PROVE  /\ RetryLimit(t) \in 0..U32Max /\ U32Max \in Nat
         /\ Saturate(RetryLimit(t), U32Max) \in 0..U32Max
         /\ RetryLimit(t) <= Saturate(RetryLimit(t), U32Max)
         /\ \A n \in 0..U32Max :
              /\ n <= RetryLimit(t) =>
                   Saturate(n, U32Max) <= Saturate(RetryLimit(t), U32Max)
              /\ n < RetryLimit(t) => Saturate(n, U32Max) <= RetryLimit(t)
<1>1. RetryLimit(t) \in 0..U32Max /\ U32Max \in Nat
  BY StoreAssumption DEF RetryLimit, Definition
<1>2. ASSUME NEW max \in Nat, NEW limit \in 0..max, NEW n \in 0..max
      PROVE  /\ Saturate(limit, max) \in 0..max /\ limit <= Saturate(limit, max)
             /\ n <= limit => Saturate(n, max) <= Saturate(limit, max)
             /\ n < limit => Saturate(n, max) <= limit
  BY DEF Saturate
<1> QED BY <1>1, <1>2

(* Every step of the daemon.                                               *)
LEMMA NextBudget ==
  ASSUME OneShots, BudgetInv, [Next]_vars
  PROVE  BudgetInv'
<1>0. PlaceInv /\ PlaceInv' /\ TypeInv /\ TypeInv'
  BY NextPlaced DEF BudgetInv, PlaceInv
<1>1. \A t \in Task : row[t].attempts \in 0..U32Max /\ row'[t].attempts \in 0..U32Max
  BY <1>0 DEF TypeInv, RowOK, Row
<1>2. /\ \A i \in Instance : inst[i].base \in 0..U32Max
      /\ \A i \in Instance : inst[i].pc # "free" => inst[i].task \in Task
      /\ \A i \in Instance : inst'[i].pc # "free" => inst'[i].task \in Task
      /\ disp.pc \in Snapshot \cup {"load"} => disp.task \in Task
  BY <1>0 DEF TypeInv, InstOK, DispOK, Snapshot
<1>3. CASE \E i \in Instance : Future(i)
  <2>1. PICK i \in Instance : Future(i)
    BY <1>3
  <2>2. PICK t \in Task :
        /\ t = inst[i].task /\ inst[i].pc # "free"
        /\ \A u \in Task \ {t} : row'[u] = row[u]
        /\ \A j \in Instance \ {i} : inst'[j] = inst[j]
        /\ UNCHANGED <<queue, delayed, disp>>
        /\ inst[i].pc = "finish" => inst'[i].pc = "free" /\ UNCHANGED row
        /\ inst[i].pc # "finish" =>
             /\ inst'[i].pc # "free"
             /\ inst'[i].task = t /\ inst'[i].base = inst[i].base
        /\ inst'[i].pc = "attempt" => inst[i].base < RetryLimit(t)
        /\ Settling(i, t)
    BY <1>0, <2>1, FutureSettles
  <2>3. /\ inst[i].base <= RetryLimit(t) /\ inst[i].base \in 0..U32Max
        /\ inst[i].pc = "attempt" => inst[i].base < RetryLimit(t)
        /\ inst[i].pc = "failed" => row[t].state \in Terminal
    BY <1>2, <2>2 DEF BudgetInv
  <2>4. row'[t].attempts # row[t].attempts =>
          /\ row'[t].attempts = Saturate(inst[i].base, U32Max)
          /\ inst[i].pc = "attempt" \/ (inst[i].pc = "failed" /\ inst'[i].pc = "finish")
    BY <2>2 DEF Settling
  <2>5. row'[t].attempts <= Saturate(RetryLimit(t), U32Max)
    BY <2>3, <2>4, BudgetLimit DEF BudgetInv
  <2>6. ASSUME row'[t].attempts > RetryLimit(t)
        PROVE  row'[t].state \in Terminal /\ Only(t, "none")'
    <3>1. CASE inst[i].pc = "finish"
      <4>1. row[t].state \in Terminal /\ Only(t, "none")
        BY <2>2, <2>6, <3>1 DEF BudgetInv
      <4>2. Only(t, "none")'
        BY <2>2, <3>1, <4>1 DEF Only, InQueue, Handled, Working, Due
      <4> QED BY <2>2, <3>1, <4>1, <4>2
    <3>2. CASE inst[i].pc # "finish"
      <4>1. Working(t, i)
        BY <2>2, <3>2 DEF Working
      <4>2. ~(row[t].attempts > RetryLimit(t))
        BY <4>1 DEF BudgetInv, Only
      <4>3. inst[i].pc = "failed" /\ inst'[i].pc = "finish"
        BY <1>1, <2>3, <2>4, <2>6, <4>2, BudgetLimit
      <4>4. Only(t, "future") /\ Once(t)
        BY <1>0, <4>1, Whereabouts DEF PlaceInv, OnePlace
      <4>5. row'[t].next = row[t].next /\ row'[t].state = row[t].state
        BY <2>2, <4>3 DEF Settling
      <4>6. Only(t, "none")'
        BY <2>2, <4>1, <4>3, <4>4, <4>5
           DEF Only, Once, InQueue, Handled, Working, Due
      <4> QED BY <2>3, <4>3, <4>5, <4>6
    <3> QED BY <3>1, <3>2
  <2>7. ASSUME NEW u \in Task, u # t
        PROVE  Only(u, "none") => Only(u, "none")'
    BY <2>2, <2>7 DEF Only, InQueue, Handled, Working, Due
  <2>8. \A u \in Task :
          /\ row'[u].attempts <= Saturate(RetryLimit(u), U32Max)
          /\ row'[u].attempts > RetryLimit(u) =>
               row'[u].state \in Terminal /\ Only(u, "none")'
    BY <2>2, <2>5, <2>6, <2>7 DEF BudgetInv
  <2>9. ASSUME NEW j \in Instance, inst'[j].pc # "free"
        PROVE  /\ inst'[j].base <= RetryLimit(inst'[j].task)
               /\ inst'[j].pc = "attempt" => inst'[j].base < RetryLimit(inst'[j].task)
               /\ inst'[j].pc = "failed" => row'[inst'[j].task].state \in Terminal
    <3>1. CASE j = i
      <4>1. inst'[i].pc = "failed" => row'[t].state \in Terminal
        BY <2>2 DEF Settling, Terminal
      <4> QED BY <2>2, <2>3, <2>9, <3>1, <4>1
    <3>2. CASE j # i
      <4>1. inst'[j] = inst[j] /\ inst[j].task \in Task
        BY <1>2, <2>2, <2>9, <3>2
      <4>2. inst[j].pc = "failed" => row'[inst[j].task] = row[inst[j].task]
        <5> SUFFICES ASSUME inst[j].pc = "failed", inst[j].task = t
                     PROVE  UNCHANGED row
          BY <2>2, <4>1
        <5>1. Working(t, j)
          BY DEF Working
        <5>2. ~Working(t, i)
          BY <1>0, <3>2, <5>1 DEF PlaceInv, OnePlace, Once
        <5> QED BY <2>2, <5>2 DEF Working
      <4> QED BY <2>9, <4>1, <4>2 DEF BudgetInv
    <3> QED BY <3>1, <3>2
  <2>10. disp'.pc \in Snapshot => disp'.base <= RetryLimit(disp'.task)
    BY <2>2 DEF BudgetInv, Snapshot, RetryLimit
  <2> QED BY <1>0, <2>8, <2>9, <2>10 DEF BudgetInv, RetryLimit, Snapshot
<1>4. CASE \A i \in Instance : ~Future(i)
  <2>1. Orderly
    BY <1>0, <1>4, OrderlySteps
  <2>2. ASSUME NEW t \in Task
        PROVE  /\ row'[t].attempts <= Saturate(RetryLimit(t), U32Max)
               /\ row'[t].attempts > RetryLimit(t) =>
                    row'[t].state \in Terminal /\ Only(t, "none")'
    <3>1. CASE row'[t].attempts = row[t].attempts /\ row[t].attempts > RetryLimit(t)
      <4>1. row[t].state \in Terminal /\ Only(t, "none")
        BY <3>1 DEF BudgetInv
      <4>2. ~Handled(t)
        BY <4>1 DEF Only
      <4>3. Rewritten(t) /\ Only(t, "none")'
        BY <2>1, <4>1 DEF Orderly, Moved
      <4>4. row'[t].attempts # 0
        BY <1>1, <3>1, BudgetLimit
      <4>5. row'[t].state \in Terminal
        BY <4>1, <4>2, <4>3, <4>4 DEF Rewritten, Terminal, Active
      <4> QED BY <3>1, <4>3, <4>5 DEF BudgetInv
    <3>2. CASE row'[t].attempts = row[t].attempts /\ ~(row[t].attempts > RetryLimit(t))
      BY <3>2 DEF BudgetInv
    <3>3. CASE row'[t].attempts = 0
      BY <3>3, BudgetLimit
    <3> QED BY <2>1, <3>1, <3>2, <3>3 DEF Orderly, Moved, Rewritten
  <2>3. disp'.pc \in Snapshot => disp'.base <= RetryLimit(disp'.task)
    <3> SUFFICES ASSUME disp'.pc \in Snapshot
                 PROVE  disp'.base <= RetryLimit(disp'.task)
      OBVIOUS
    <3>1. CASE disp'.task = disp.task /\ disp.pc \in Snapshot /\ disp'.base = disp.base
      BY <3>1 DEF BudgetInv
    <3>2. CASE /\ disp'.task = disp.task /\ disp.pc = "load"
               /\ row[disp.task].state \in Active
               /\ disp'.base = row[disp.task].attempts
      <4>1. ~(row[disp.task].attempts > RetryLimit(disp.task))
        BY <1>2, <3>2 DEF BudgetInv, Active, Terminal
      <4> QED BY <1>1, <1>2, <3>2, <4>1, BudgetLimit
    <3> QED BY <2>1, <3>1, <3>2 DEF Orderly, Reading
  <2>4. ASSUME NEW j \in Instance, inst'[j].pc # "free"
        PROVE  /\ inst'[j].base <= RetryLimit(inst'[j].task)
               /\ inst'[j].pc = "attempt" => inst'[j].base < RetryLimit(inst'[j].task)
               /\ inst'[j].pc = "failed" => row'[inst'[j].task].state \in Terminal
    <3>1. CASE inst'[j] = inst[j]
      <4>1. PICK t \in Task : t = inst[j].task
        BY <1>2, <2>4, <3>1
      <4>2. inst[j].pc = "failed" => row'[t].state \in Terminal
        <5> SUFFICES ASSUME inst[j].pc = "failed" PROVE row'[t].state \in Terminal
          OBVIOUS
        <5>1. Working(t, j) /\ row[t].state \in Terminal
          BY <4>1 DEF Working, BudgetInv
        <5>2. Only(t, "future")
          BY <1>0, <5>1, Whereabouts DEF PlaceInv
        <5>3. ~Handled(t) /\ Rewritten(t)
          BY <2>1, <5>2 DEF Only, Orderly, Moved
        <5>4. row'[t].state # "absent"
          <6>1. Working(t, j)'
            BY <3>1, <5>1 DEF Working
          <6> QED BY <1>0, <6>1 DEF PlaceInv, Only
        <5> QED BY <5>1, <5>3, <5>4 DEF Rewritten, Terminal, Active
      <4> QED BY <2>4, <3>1, <4>1, <4>2 DEF BudgetInv
    <3>2. CASE /\ disp.pc = "spawn" /\ inst'[j].pc = "queued"
               /\ inst'[j].task = disp.task /\ inst'[j].base = disp.base
      BY <3>2 DEF BudgetInv, Snapshot
    <3> QED BY <2>1, <2>4, <3>1, <3>2 DEF Orderly, Spawning
  <2> QED BY <1>0, <2>2, <2>3, <2>4 DEF BudgetInv, RetryLimit, Snapshot
<1> QED BY <1>3, <1>4

(* A one-shot that nobody requeues never records more attempts than its    *)
(* budget and the last failure, although they are written from a snapshot  *)
(* several awaits old, and whatever crashes between two writes.            *)
THEOREM AttemptsAlwaysWithinBudget == OneShots => (Spec => []AttemptsWithinBudget)
<1> SUFFICES ASSUME OneShots PROVE Spec => []AttemptsWithinBudget
  OBVIOUS
<1>1. Init => BudgetInv
  <2> SUFFICES ASSUME Init PROVE BudgetInv
    OBVIOUS
  <2>1. /\ \A t \in Task : row[t].attempts = 0
        /\ disp.pc = "idle" /\ \A i \in Instance : inst[i].pc = "free"
    BY DEF Init, StoreInit, QueueInit, Absent, IdleDisp, FreeInst
  <2> QED BY <2>1, InitPlaced, BudgetLimit DEF BudgetInv, Snapshot
<1>2. BudgetInv /\ [Next]_vars => BudgetInv'
  BY NextBudget
<1>3. BudgetInv => AttemptsWithinBudget
  BY DEF BudgetInv, AttemptsWithinBudget
<1> QED BY <1>1, <1>2, <1>3, PTL DEF Spec

-----------------------------------------------------------------------------
(* One-shot tasks: success.                                                *)

(* A one-shot that has succeeded, or been counted, is settled: all that is *)
(* left of it is the end of the future that counts it.                     *)
Done(t) == row[t].state = "success" \/ row[t].runs > 0

DoneInv ==
  /\ PlaceInv
  /\ \A t \in Task :
       Done(t) => /\ row[t].state \in Terminal /\ Only(t, "future")
                  /\ \A i \in Instance :
                       Working(t, i) => inst[i].pc \in {"tally", "resucceed"}
  /\ \A i \in Instance :
       inst[i].pc \in {"tally", "resucceed"} => row[inst[i].task].state \in Terminal
  /\ \A t \in Task : /\ cron.plan[t] # "finish"
                     /\ cron.plan[t] = "expire" => Def[t].expires

(* No task has an end date.                                                *)
Endless == \A t \in Task : ~Def[t].ends

(* The cron scan finishes no one-shot: one that has run is not active.     *)
LEMMA PlanKept ==
  ASSUME Endless, DoneInv, [Next]_vars
  PROVE  \A t \in Task : /\ cron'.plan[t] # "finish"
                         /\ cron'.plan[t] = "expire" => Def[t].expires
<1>0. PhaseOK /\ row \in [Task -> Row]
  BY DEF DoneInv, PlaceInv, TypeInv, RowOK
<1>1. CASE UNCHANGED cron
  BY <1>1 DEF DoneInv
<1>2. CASE cron' = CronIdle
  BY <1>2 DEF CronIdle
<1>3. CASE StartScan
  <2>1. PICK plan \in [Task -> CronVerdict] :
          (\A t \in Task : CronDecides(t, plan[t])) /\ cron' = [cron EXCEPT !.plan = plan]
    BY <1>3 DEF StartScan
  <2>2. ASSUME NEW t \in Task, row[t].state \in Active PROVE ~CronExhausted(t)
    <3>1. row[t].runs = 0
      <4>1. row[t].runs \in Nat /\ ~(row[t].runs > 0)
        BY <1>0, <2>2, StoreAssumption DEF DoneInv, Done, Row, Active, Terminal
      <4> QED BY <4>1
    <3> QED BY <3>1, StoreAssumption DEF CronExhausted, Definition
  <2>3. \A t \in Task : plan[t] # "finish" /\ (plan[t] = "expire" => Def[t].expires)
    BY <2>1, <2>2 DEF CronDecides, Endless
  <2> QED BY <1>0, <2>1, <2>3 DEF PhaseOK
<1>4. ASSUME NEW u \in Task, CronFinish(u) \/ CronExpire(u) \/ CronFire(u)
      PROVE  \A t \in Task : /\ cron'.plan[t] # "finish"
                             /\ cron'.plan[t] = "expire" => Def[t].expires
  <2>1. cron'.plan = [cron.plan EXCEPT ![u] = "none"]
    BY <1>0, <1>4 DEF CronFinish, CronExpire, CronFire, CronDrop, PhaseOK
  <2> QED BY <1>0, <2>1 DEF DoneInv, PhaseOK
<1> QED
  BY <1>1, <1>2, <1>3, <1>4
  DEF Next, QueueLoop, CronLoop, CronStep, OnDue, Watchdog, WatchdogScan, WatchdogReload,
      WatchdogWrite, WatchdogDone, WatchdogSignal, wdRest, Stop, EndDrain, Exit, Restart,
      Dispatch, Cancel, CancelSignal, Requeue, Remove, Pause, Timer, OrphanExit, Future,
      daemonVars, vars

(* Every step that is not a future's.                                      *)
LEMMA OrderlyDone ==
  ASSUME DoneInv, PlaceInv', Orderly, NEW t \in Task
  PROVE  /\ Done(t)' => /\ row'[t].state \in Terminal /\ Only(t, "future")'
                        /\ \A i \in Instance :
                             Working(t, i)' => inst'[i].pc \in {"tally", "resucceed"}
         /\ \A i \in Instance :
              inst'[i].task = t /\ inst'[i].pc \in {"tally", "resucceed"}
                => row'[t].state \in Terminal
         /\ row[t].state = "success" /\ ~Def[t].expires =>
              row'[t].state \in {"success", "absent"}
<1>0. Moved(t) /\ Rewritten(t) /\ Spawning
  BY DEF Orderly, Moved
<1>1. ASSUME Done(t)'
      PROVE  /\ row'[t].state \in Terminal /\ Only(t, "future")'
             /\ \A i \in Instance : Working(t, i)' => inst'[i].pc \in {"tally", "resucceed"}
  <2>1. Done(t)
    BY <1>0, <1>1 DEF Rewritten, Done, DoneInv, Active
  <2>2. row[t].state \in Terminal /\ Only(t, "future") /\ ~Handled(t)
    BY <2>1 DEF DoneInv, Only
  <2>3. Only(t, "future")'
    BY <1>0, <2>2 DEF Moved
  <2>4. row'[t].state \in Terminal
    BY <1>0, <1>1, <2>2 DEF Rewritten, Done, Terminal, Active
  <2>5. ASSUME NEW i \in Instance, Working(t, i)'
        PROVE  inst'[i].pc \in {"tally", "resucceed"}
    <3>1. inst'[i] = inst[i]
      BY <1>0, <2>2, <2>5 DEF Spawning, Working, Handled
    <3> QED BY <2>1, <2>5, <3>1 DEF DoneInv, Working
  <2> QED BY <2>3, <2>4, <2>5
<1>2. ASSUME NEW i \in Instance, inst'[i].task = t, inst'[i].pc \in {"tally", "resucceed"}
      PROVE  row'[t].state \in Terminal
  <2>1. inst'[i] = inst[i] /\ Working(t, i) /\ Working(t, i)'
    BY <1>0, <1>2 DEF Spawning, Working
  <2>2. row[t].state \in Terminal
    BY <1>2, <2>1 DEF DoneInv
  <2>3. ~Handled(t)
    BY <2>1, Whereabouts DEF DoneInv, PlaceInv, Only
  <2>4. row'[t].state # "absent"
    BY <2>1 DEF PlaceInv, Only
  <2> QED BY <1>0, <2>2, <2>3, <2>4 DEF Rewritten, Terminal, Active
<1>3. row[t].state = "success" /\ ~Def[t].expires => row'[t].state \in {"success", "absent"}
  BY <1>0 DEF Rewritten, DoneInv, Done, Only, Active
<1> QED BY <1>1, <1>2, <1>3

(* Every step of a future.                                                 *)
LEMMA FutureDone ==
  ASSUME OneShots, DoneInv, NEW i \in Instance, Future(i), NEW u \in Task
  PROVE  /\ Done(u)' => /\ row'[u].state \in Terminal /\ Only(u, "future")'
                        /\ \A j \in Instance :
                             Working(u, j)' => inst'[j].pc \in {"tally", "resucceed"}
         /\ \A j \in Instance :
              inst'[j].task = u /\ inst'[j].pc \in {"tally", "resucceed"}
                => row'[u].state \in Terminal
         /\ row[u].state = "success" => row'[u].state = "success"
<1> USE DEF DoneInv
<1>0. PICK t \in Task :
        /\ t = inst[i].task /\ inst[i].pc # "free"
        /\ \A v \in Task \ {t} : row'[v] = row[v]
        /\ \A j \in Instance \ {i} : inst'[j] = inst[j]
        /\ UNCHANGED <<queue, delayed, disp>>
        /\ inst[i].pc = "finish" => inst'[i].pc = "free" /\ UNCHANGED row
        /\ inst[i].pc # "finish" => inst'[i].pc # "free" /\ inst'[i].task = t
        /\ Settling(i, t)
  BY FutureSettles
<1>1. /\ InQueue(u)' <=> InQueue(u)
      /\ Handled(u)' <=> Handled(u)
      /\ \A j \in Instance \ {i} : Working(u, j)' <=> Working(u, j)
      /\ Working(u, i)' => Working(u, i)
      /\ row'[u].next = row[u].next => (Due(u)' <=> Due(u))
  BY <1>0 DEF InQueue, Handled, Working, Due
<1>2. ASSUME UNCHANGED row, ~Working(u, i) \/ inst[i].pc = "finish"
      PROVE  /\ Done(u)' => /\ row'[u].state \in Terminal /\ Only(u, "future")'
                            /\ \A j \in Instance :
                                 Working(u, j)' => inst'[j].pc \in {"tally", "resucceed"}
             /\ \A j \in Instance :
                  inst'[j].task = u /\ inst'[j].pc \in {"tally", "resucceed"}
                    => row'[u].state \in Terminal
  BY <1>0, <1>1, <1>2 DEF Done, Only, Working
<1>3. CASE u # t \/ inst[i].pc = "finish"
  <2>1. row'[u] = row[u] /\ (Working(u, i)' => FALSE)
    BY <1>0, <1>3 DEF Working
  <2>2. Only(u, "future") => Only(u, "future")'
    BY <1>0, <1>1, <2>1 DEF Only
  <2>3. ASSUME NEW j \in Instance, Working(u, j)'
        PROVE  Working(u, j) /\ inst'[j] = inst[j]
    BY <1>0, <1>1, <2>1, <2>3
  <2> QED BY <2>1, <2>2, <2>3 DEF Done, Working
<1>4. CASE u = t /\ inst[i].pc # "finish"
  <2>1. Working(u, i) /\ Only(u, "future") /\ \A j \in Instance : Working(u, j) => j = i
    BY <1>0, <1>4, Whereabouts DEF Working, PlaceInv, OnePlace, Once
  <2>2. \A j \in Instance : Working(u, j)' => j = i
    BY <1>1, <2>1
  <2>3. Done(u) => row[u].state \in Terminal /\ inst[i].pc \in {"tally", "resucceed"}
    BY <2>1
  <2>4. row'[u].next = row[u].next => Only(u, "future")'
    BY <1>0, <1>1, <2>1 DEF Only
  <2>5. Done(u)' => /\ row'[u].state \in Terminal /\ row'[u].next = row[u].next
                    /\ inst'[i].pc \in {"tally", "resucceed", "finish"}
    BY <1>0, <1>4, <2>3 DEF Settling, Done, Terminal
  <2>6. inst'[i].pc \in {"tally", "resucceed"} => row'[u].state \in Terminal
    BY <1>0, <1>4 DEF Settling, Terminal
  <2>7. row[u].state = "success" => row'[u].state = "success"
    BY <1>0, <1>4, <2>3 DEF Settling, Done
  <2>8. ASSUME NEW j \in Instance, Working(u, j)', Done(u)'
        PROVE  inst'[j].pc \in {"tally", "resucceed"}
    BY <2>2, <2>5, <2>8 DEF Working
  <2>9. ASSUME NEW j \in Instance, inst'[j].task = u,
               inst'[j].pc \in {"tally", "resucceed"}
        PROVE  j = i
    BY <2>2, <2>9 DEF Working
  <2> QED BY <2>4, <2>5, <2>6, <2>7, <2>8, <2>9
<1> QED BY <1>3, <1>4

(* Every step of the daemon.                                               *)
LEMMA NextDone ==
  ASSUME OneShots, Endless, DoneInv, [Next]_vars
  PROVE  /\ DoneInv'
         /\ \A t \in Task : row[t].state = "success" /\ ~Def[t].expires =>
              row'[t].state \in {"success", "absent"}
<1>0. PlaceInv /\ PlaceInv'
  BY NextPlaced DEF DoneInv
<1>1. \A t \in Task : cron'.plan[t] # "finish" /\ (cron'.plan[t] = "expire" => Def[t].expires)
  BY PlanKept
<1>2. \A i \in Instance : inst'[i].pc \in {"tally", "resucceed"} => inst'[i].task \in Task
  BY <1>0 DEF PlaceInv, TypeInv, InstOK
<1>3. ASSUME NEW t \in Task
      PROVE  /\ Done(t)' => /\ row'[t].state \in Terminal /\ Only(t, "future")'
                            /\ \A i \in Instance :
                                 Working(t, i)' => inst'[i].pc \in {"tally", "resucceed"}
             /\ \A i \in Instance :
                  inst'[i].task = t /\ inst'[i].pc \in {"tally", "resucceed"}
                    => row'[t].state \in Terminal
             /\ row[t].state = "success" /\ ~Def[t].expires =>
                  row'[t].state \in {"success", "absent"}
  <2>1. CASE \E i \in Instance : Future(i)
    BY <2>1, FutureDone
  <2>2. CASE \A i \in Instance : ~Future(i)
    BY <1>0, <2>2, OrderlySteps, OrderlyDone
  <2> QED BY <2>1, <2>2
<1> QED BY <1>0, <1>1, <1>2, <1>3 DEF DoneInv

(* A one-shot that succeeded is done: no stale queue entry, timer, retry   *)
(* timestamp, cancel or restart makes it leave Success.                    *)
THEOREM SuccessAlwaysFinal == OneShots /\ Endless => (Spec => SuccessIsFinal)
<1> SUFFICES ASSUME OneShots, Endless PROVE Spec => SuccessIsFinal
  OBVIOUS
<1>1. Init => DoneInv
  <2> SUFFICES ASSUME Init PROVE DoneInv
    OBVIOUS
  <2>1. /\ \A t \in Task : row[t].state = "absent" /\ row[t].runs = 0
        /\ \A i \in Instance : inst[i].pc = "free"
        /\ \A t \in Task : cron.plan[t] = "none"
    BY DEF Init, StoreInit, QueueInit, Absent, FreeInst, CronIdle
  <2> QED BY <2>1, InitPlaced DEF DoneInv, Done
<1>2. DoneInv /\ [Next]_vars => DoneInv'
  BY NextDone
<1>3. DoneInv /\ [Next]_vars =>
        [\A t \in Task :
           Def[t].kind = "once" /\ ~Def[t].expires /\ row[t].state = "success"
             => row'[t].state \in {"success", "absent"}]_row
  BY NextDone
<1> QED BY <1>1, <1>2, <1>3, PTL DEF Spec, SuccessIsFinal
=============================================================================
