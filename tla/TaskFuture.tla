----------------------------- MODULE TaskFuture -----------------------------
(***************************************************************************)
(* The future process_one spawns for one execution: it waits for a pool    *)
(* permit, registers its cancel flag, runs the executor, and then decides  *)
(* the row's next state in several separately awaited store calls.         *)
(*                                                                         *)
(* The executor is an outcome:  ok / fail (a non-zero exit or a 5xx, which *)
(* may be retried) / fatal (a result the policy never retries, such as a   *)
(* 4xx) / error (no result: timeout, cancelled, spawn or network error).   *)
(***************************************************************************)
EXTENDS TaskQueue

futureRest == <<queue, delayed, disp, overlap, inFlight, flags, killed>>

Step(i, from, to) == inst[i].pc = from /\ inst' = [inst EXCEPT ![i].pc = to]

(* A slip to detect: the pool spawns without its semaphore.                *)
StartUnbounded(i) ==
  /\ Step(i, "queued", "register")
  /\ inFlight' = inFlight + 1
  /\ UNCHANGED <<row, queue, delayed, disp, overlap, flags, killed>>

(* The pool grants a permit; the counted future starts.                    *)
Start(i) ==
  /\ Step(i, "queued", "register")
  /\ inFlight < Permits
  /\ inFlight' = inFlight + 1
  /\ UNCHANGED <<row, queue, delayed, disp, overlap, flags, killed>>

(* A fresh flag, registered under the task id over any earlier one.        *)
RegisterFlag(i) ==
  /\ Step(i, "register", "exec")
  /\ flags' = [flags EXCEPT ![inst[i].task] = i]
  /\ killed' = killed \ {i}
  /\ UNCHANGED <<row, queue, delayed, disp, overlap, inFlight>>

(* The executor ends: by itself, at its timeout, or because it polls its   *)
(* flag and finds it set (an error, unless the end came first).            *)
Execute(i) ==
  /\ inst[i].pc = "exec"
  /\ \E o \in Outcome \ {"none"} :
       inst' = [inst EXCEPT ![i].pc = "unflag", ![i].out = o]
  /\ UNCHANGED <<row, futureRest>>

(* Unregister removes whatever flag the id maps to; the future's own flag  *)
(* has no reader left.                                                     *)
UnregisterFlag(i) ==
  /\ Step(i, "unflag", "verdict")
  /\ flags' = [flags EXCEPT ![inst[i].task] = None]
  /\ killed' = killed \ {i}
  /\ UNCHANGED <<row, queue, delayed, disp, overlap, inFlight>>

-----------------------------------------------------------------------------
(* Deciding.  acks_on_failure = false replaces retry_max by u32::MAX.      *)

RetryLimit(t) == IF Def[t].acks THEN Def[t].retryMax ELSE U32Max

(* A slip to detect: one retry too many.                                   *)
OnFailureOnceMore(i) ==
  IF inst[i].base <= RetryLimit(inst[i].task) THEN "attempt" ELSE "fail"

OnFailure(i) ==
  IF inst[i].base < RetryLimit(inst[i].task) THEN "attempt" ELSE "fail"

Judge(i) ==
  CASE inst[i].out = "ok"    -> IF Periodic(inst[i].task) THEN "count"
                                                          ELSE "succeed"
    [] inst[i].out = "fail"  -> OnFailure(i)
    [] inst[i].out = "fatal" -> "fail"
    [] OTHER                 -> "guard"

(* The row's cancel_requested is read once; an unreadable row counts as    *)
(* not cancelled.                                                          *)
Verdict(i) ==
  /\ inst[i].pc = "verdict"
  /\ \E cancelled \in {row[inst[i].task].cancel} \cup
                      (IF "store" \in Faults THEN {FALSE} ELSE {}) :
       inst' = [inst EXCEPT ![i].pc = IF cancelled THEN "cancelled" ELSE Judge(i),
                            ![i].out = "none"]
  /\ UNCHANGED <<row, futureRest>>

(* A slip to detect: the guard's condition is the wrong way round.         *)
GuardRunning(i) ==
  /\ inst[i].pc = "guard"
  /\ Step(i, "guard", IF row[inst[i].task].state = "interrupted"
                      THEN OnFailure(i) ELSE "finish")
  /\ UNCHANGED <<row, futureRest>>

(* After an executor error: leave a row the watchdog interrupted alone.    *)
GuardInterrupted(i) ==
  /\ inst[i].pc = "guard"
  /\ \/ /\ row[inst[i].task].state = "interrupted"
        /\ Step(i, "guard", "finish")
     \/ /\ row[inst[i].task].state # "interrupted" \/ "store" \in Faults
        /\ Step(i, "guard", OnFailure(i))
  /\ UNCHANGED <<row, futureRest>>

-----------------------------------------------------------------------------
(* Settling the row.  schedule_retry only runs when should_retry allowed a *)
(* retry, so its own "attempts exhausted" branch is dead.  A failed write  *)
(* is logged and the future goes on, except in schedule_retry, which gives *)
(* up at its first error.                                                  *)

WriteState(i, from, s, to) ==
  /\ Step(i, from, to)
  /\ UpdateState(inst[i].task, s) \/ WriteFails
  /\ UNCHANGED futureRest

(* A slip to detect: the early return of a cancelled future skips on_finish. *)
ReturnCancelled(i) ==
  /\ inst[i].pc = "cancelled"
  /\ inst' = [inst EXCEPT ![i] = FreeInst]
  /\ inFlight' = inFlight - 1
  /\ UpdateState(inst[i].task, "cancelled") \/ WriteFails
  /\ UNCHANGED <<queue, delayed, disp, overlap, flags, killed>>

WriteCancelled(i) == WriteState(i, "cancelled", "cancelled", "finish")

WriteFailed(i) == WriteState(i, "fail", "failed", "failed")

WriteSuccess(i) ==
  WriteState(i, "succeed", "success",
             IF Periodic(inst[i].task) THEN "finish" ELSE "tally")

WriteRest(i) == WriteState(i, "rest", "pending", "finish")

RewriteSuccess(i) == WriteState(i, "resucceed", "success", "finish")

FailedAttempts(i) ==
  /\ Step(i, "failed", "finish")
  /\ SetAttempts(inst[i].task, Saturate(inst[i].base, U32Max)) \/ WriteFails
  /\ UNCHANGED futureRest

RetryAttempts(i) ==
  /\ \/ /\ Step(i, "attempt", "pend")
        /\ SetAttempts(inst[i].task, Saturate(inst[i].base, U32Max))
     \/ Step(i, "attempt", "finish") /\ WriteFails
  /\ UNCHANGED futureRest

(* A slip to detect: a retry that sets no timestamp.                       *)
RetryUnarmed(i) == Step(i, "arm", "finish") /\ UNCHANGED <<row, futureRest>>

RetryPending(i) ==
  /\ \/ Step(i, "pend", "arm") /\ UpdateState(inst[i].task, "pending")
     \/ Step(i, "pend", "finish") /\ WriteFails
  /\ UNCHANGED futureRest

RetryNextFire(i) ==
  /\ Step(i, "arm", "finish")
  /\ UpdateNextFire(inst[i].task, "some") \/ WriteFails
  /\ UNCHANGED futureRest

(* increment_execution_count, before the state of a periodic task and      *)
(* after that of a one-shot task; it errs when the row is gone.            *)
CountRun(i, from, reached, otherwise) ==
  /\ inst[i].pc = from
  /\ \/ /\ row[inst[i].task].state # "absent"
        /\ Step(i, from, IF RunsExhausted(inst[i].task) THEN reached
                                                        ELSE otherwise)
        /\ IncrementRuns(inst[i].task)
     \/ /\ row[inst[i].task].state = "absent" \/ "store" \in Faults
        /\ Step(i, from, "finish")
        /\ UNCHANGED row
  /\ UNCHANGED futureRest

CountPeriodic(i) == CountRun(i, "count", "succeed", "rest")

TallyOnce(i) == CountRun(i, "tally", "resucceed", "finish")

(* on_finish, and the drop of the in-flight guard.                         *)
Finish(i) ==
  /\ inst[i].pc = "finish"
  /\ overlap' = [overlap EXCEPT ![inst[i].task] = IF @ > 0 THEN @ - 1 ELSE @]
  /\ inFlight' = inFlight - 1
  /\ inst' = [inst EXCEPT ![i] = FreeInst]
  /\ UNCHANGED <<row, queue, delayed, disp, flags, killed>>

Settle(i) ==
  \/ WriteCancelled(i) \/ WriteFailed(i) \/ WriteSuccess(i) \/ WriteRest(i)
  \/ RewriteSuccess(i) \/ FailedAttempts(i) \/ RetryAttempts(i)
  \/ RetryPending(i) \/ RetryNextFire(i) \/ CountPeriodic(i) \/ TallyOnce(i)

FutureStep(i) ==
  \/ Start(i) \/ RegisterFlag(i) \/ Execute(i) \/ UnregisterFlag(i)
  \/ Verdict(i) \/ GuardInterrupted(i) \/ Settle(i) \/ Finish(i)
=============================================================================
