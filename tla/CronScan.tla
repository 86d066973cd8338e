------------------------------ MODULE CronScan ------------------------------
(***************************************************************************)
(* CronScheduler: every second scan_once goes through a snapshot of the    *)
(* active tasks, finishes the ones that have run out, expires the ones that*)
(* waited too long, and fires the due ones.  It decides from the snapshot; *)
(* by the time it writes, the row may be somewhere else.                   *)
(***************************************************************************)
EXTENDS TaskFuture

VARIABLE cron \* plan: what scan_once still has to do; due: the ids it returns

CronVerdict == {"none", "finish", "expire", "fire"}
CronIdle == [plan |-> [t \in Task |-> "none"], due |-> {}]

cronRest == <<queue, disp, inst, overlap, inFlight, flags, killed>>

(* max_executions has been reached.                                        *)
CronExhausted(t) == Def[t].maxRuns > 0 /\ row[t].runs >= Def[t].maxRuns

(* Neither paused, nor cancelled, nor with the watchdog.                   *)
Triggerable(t) ==
  row[t].state \in {"pending", "running"} /\ ~row[t].paused /\ ~row[t].cancel

(* A slip to detect: a row without next_fire is never due.                 *)
CronDueArmed(t) == Def[t].kind # "once" /\ row[t].next = "some"

(* next_fire may have come.  Without one, run_at and created_at + interval *)
(* count; a cron expression is evaluated from now on, and is never due.    *)
CronDue(t) ==
  \/ Def[t].kind = "runat" /\ row[t].next # "never"
  \/ Def[t].kind = "interval"
  \/ Def[t].kind \in {"cron", "orcron"} /\ row[t].next = "some"

(* A scan that reached XHJOB_MAX_CRON_PER_TICK passes the rest over.       *)
CronDecides(t, verdict) ==
  \/ verdict = "none"
  \/ /\ row[t].state \in Active
     /\ IF CronExhausted(t) THEN verdict = "finish"
        ELSE \/ verdict = "expire" /\ Def[t].expires /\ row[t].state = "pending"
             \/ verdict = "finish" /\ Def[t].ends /\ Triggerable(t)
             \/ verdict = "fire" /\ Triggerable(t) /\ CronDue(t)

StartScan ==
  /\ cron = CronIdle
  /\ \E plan \in [Task -> CronVerdict] :
       /\ \A t \in Task : CronDecides(t, plan[t])
       /\ plan # CronIdle.plan
       /\ cron' = [cron EXCEPT !.plan = plan]
  /\ UNCHANGED <<row, delayed, cronRest>>

CronDrop(t, verdict) ==
  /\ cron.plan[t] = verdict
  /\ cron' = [cron EXCEPT !.plan[t] = "none"]

CronFinish(t) ==
  /\ CronDrop(t, "finish")
  /\ UpdateState(t, "success") \/ WriteFails
  /\ UNCHANGED <<delayed, cronRest>>

CronExpire(t) ==
  /\ CronDrop(t, "expire")
  /\ UpdateState(t, "expired") \/ WriteFails
  /\ UNCHANGED <<delayed, cronRest>>

(* next_fire rolls on, for run_at to u64::MAX; the id is due unless the    *)
(* trigger is skipped.                                                     *)
CronFire(t) ==
  /\ cron.plan[t] = "fire"
  /\ \E skip \in {FALSE, Def[t].skips} :
       cron' = [plan |-> [cron.plan EXCEPT ![t] = "none"],
                due  |-> IF skip THEN cron.due ELSE cron.due \cup {t}]
  /\ UpdateNextFire(t, IF Def[t].kind = "runat" THEN "never" ELSE "some") \/ WriteFails
  /\ UNCHANGED <<delayed, cronRest>>

(* on_due spawns a task that enqueues the due ids.                         *)
OnDue ==
  /\ cron.plan = CronIdle.plan /\ cron.due # {}
  /\ delayed' = [t \in Task |-> IF t \in cron.due THEN delayed[t] + 1 ELSE delayed[t]]
  /\ cron' = CronIdle
  /\ UNCHANGED <<row, cronRest>>

CronStep ==
  \/ OnDue
  \/ \E t \in Task : CronFinish(t) \/ CronExpire(t) \/ CronFire(t)
=============================================================================
