------------------------------- MODULE Pacing -------------------------------
(***************************************************************************)
(* One task on its clock: scan_once and scan_retries find it due by its    *)
(* next_fire, process_one lets it through or sends it back to a timer, the *)
(* rate limiter keeps the times it let through, and the end of an          *)
(* execution settles the row and its next_fire.  What several tasks,       *)
(* permits, crashes and the watchdog add is in module Daemon; each step    *)
(* there of several writes is one step here.  max_instances is 1.          *)
(***************************************************************************)
EXTENDS Schedule, FiniteSets

CONSTANTS
  Settings,    \* task: what clients define, as TaskBuilder holds it;
               \* store: "sqlite" or "memory"; asks: what its clients ask for
  Start,       \* when the daemon starts
  Horizon,     \* bound: when the clock stops
  MaxPending,  \* XHJOB_MAX_PENDING
  MaxTimers    \* bound: the sleeps at a time

ASSUME PacingAssumption ==
  /\ Start \in Nat \ {0} /\ Horizon \in Start..(U64Max - 1)
  /\ MaxPending \in Nat \ {0} /\ MaxTimers \in Nat
  /\ \A x \in Settings : x.task \in Params /\ x.store \in {"sqlite", "memory"}

VARIABLES
  setting,     \* of this behaviour
  now,
  row,         \* the task in the store, or None
  waiting,     \* how often its id is in the pending list
  timers,      \* spawned sleeps that will enqueue it again
  exec,        \* the copy of the row an execution works with, or None
  bucket,      \* the limiter's times, each with a number
  fired,       \* history: what was let through in the last window seconds
  lastDue,     \* history: the last cron firing, None once next_fire is not
               \* the expression's own
  notBefore    \* history: the earliest time of the retry

limiterVars == <<bucket, fired>>
clockVars == <<now, row, waiting, timers, exec, lastDue, notBefore>>
pacingVars == <<setting, clockVars, limiterVars>>

def == setting.task
store == setting.store

PacingInit ==
  /\ setting \in Settings
  /\ now = Start /\ row = None /\ waiting = 0 /\ timers = {} /\ exec = None
  /\ bucket = {} /\ fired = {}
  /\ lastDue = None /\ notBefore = 0

Min2(m, n) == IF m < n THEN m ELSE n

(* enqueue: a full list refuses the id, which is then only logged.         *)
Enqueued == Min2(waiting + 1, MaxPending)

(* A second passes.                                                        *)
Tick ==
  /\ now < Horizon
  /\ now' = now + 1
  /\ fired' = {f \in fired : f.t > now' - def.window}
  /\ UNCHANGED <<setting, row, waiting, timers, exec, bucket, lastDue,
                 notBefore>>

(* sleep(until - now): timers of the same second are told apart by k.      *)
Sleep(until) ==
  /\ Cardinality(timers) < MaxTimers
  /\ timers' = timers \cup
       {[at |-> until, k |-> CHOOSE k \in 1..MaxTimers :
                               [at |-> until, k |-> k] \notin timers]}

Wake ==
  /\ \E s \in timers : s.at <= now /\ timers' = timers \ {s}
  /\ waiting' = Enqueued
  /\ UNCHANGED <<setting, now, row, exec, lastDue, notBefore, limiterVars>>

-----------------------------------------------------------------------------
(* CronScheduler::scan_once.                                               *)

Expired == row.expires > 0 /\ row.state = "pending"
           /\ now > Saturating(row.created + row.expires)

Expire == row' = [row EXCEPT !.state = "expired"]

ScanExpires ==
  /\ row # None /\ Expired
  /\ Expire
  /\ UNCHANGED <<setting, now, waiting, timers, exec, lastDue, notBefore,
                 limiterVars>>

Started == row.start # None => now >= row.start

Scanned ==
  row # None /\ ~IsFinal(row) /\ ~Expired /\ ~row.paused /\ Started

(* The id is enqueued unless the trigger is left out.                      *)
Fire(fires) ==
  waiting' = IF fires /\ ~ShouldSkipTrigger(row, now) THEN Enqueued ELSE waiting

ScanRunAt ==
  /\ Scanned /\ row.runAt # None
  /\ (IF row.next = None THEN row.runAt ELSE row.next) <= now
  /\ Fire(TRUE)
  /\ row' = [row EXCEPT !.next = U64Max]
  /\ UNCHANGED <<setting, now, timers, exec, lastDue, notBefore, limiterVars>>

ScanInterval ==
  /\ Scanned /\ row.runAt = None /\ CronExprs(row) = {} /\ row.interval # None
  /\ (IF row.next = None THEN Saturating(row.created + row.interval)
                         ELSE row.next) <= now
  /\ Fire(TRUE)
  /\ \E j \in Jitters(row.jitter) :
       row' = [row EXCEPT !.next = WrapAt(now + row.interval + j)]
  /\ UNCHANGED <<setting, now, timers, exec, lastDue, notBefore, limiterVars>>

(* A slip to detect: next_fire rolls on from where it was.                 *)
RolledFromNext(j) == MinNextFire(CronExprs(row), row.next, row.zone) + j

(* Strictly after the next second.                                         *)
Rolled(j) == WrapAt(MinNextFire(CronExprs(row), now + 1, row.zone) + j)

(* Without a next occurrence next_fire stays, and is due again.            *)
ScanCron ==
  /\ Scanned /\ row.runAt = None /\ CronExprs(row) # {}
  /\ row.next # None /\ row.next <= now
  /\ Fire(ShouldFireDue(row, row.next, now))
  /\ IF Computable(CronExprs(row), now + 1, row.zone)
     THEN /\ \E j \in Jitters(row.jitter) : row' = [row EXCEPT !.next = Rolled(j)]
          /\ lastDue' = IF waiting' # waiting \/ lastDue = None THEN now ELSE lastDue
     ELSE row' = row /\ lastDue' = None
  /\ UNCHANGED <<setting, now, timers, exec, notBefore, limiterVars>>

(* TaskQueue::scan_retries, for rows without a primary expression.         *)
ScanRetries ==
  /\ row # None /\ row.state = "pending" /\ row.cron = None
  /\ row.next # None /\ row.next <= now
  /\ waiting < MaxPending
  /\ waiting' = waiting + 1
  /\ row' = [row EXCEPT !.next = None]
  /\ UNCHANGED <<setting, now, timers, exec, lastDue, notBefore, limiterVars>>

-----------------------------------------------------------------------------
(* RateLimiter.  The limits of a row are its builder's: no request changes *)
(* them.                                                                   *)

Limited == def.count > 0 /\ def.window > 0

(* A slip to detect: times of the last window less one second are kept.    *)
KeptShort ==
  {f \in bucket : f.t > (IF now > def.window THEN now - def.window + 1 ELSE 0)}

(* retain: what the window still holds.                                    *)
Kept == {f \in bucket : f.t > (IF now > def.window THEN now - def.window ELSE 0)}

Full == Cardinality(Kept) >= def.count

(* check_and_record lets the trigger pass, and notes it.                   *)
Pass ==
  IF Limited
  THEN /\ ~Full
       /\ LET f == [t |-> now,
                    k |-> CHOOSE k \in 1..(Cardinality(Kept) + 1) :
                            [t |-> now, k |-> k] \notin Kept]
          IN bucket' = Kept \cup {f} /\ fired' = fired \cup {f}
  ELSE UNCHANGED limiterVars

(* check_and_record refuses it.                                            *)
Refuse ==
  /\ Limited /\ Full
  /\ bucket' = Kept /\ fired' = fired

Forget == bucket' = {} /\ fired' = {}

-----------------------------------------------------------------------------
(* TaskQueue::process_one: the gates in their order.                       *)

Drain ==
  /\ waiting > 0
  /\ waiting' = waiting - 1
  /\ UNCHANGED <<setting, now>>

Gone == row # None => IsFinal(row)

ProcessGone ==
  /\ Drain /\ Gone
  /\ UNCHANGED <<row, timers, exec, lastDue, notBefore, limiterVars>>

ProcessExpired ==
  /\ Drain /\ ~Gone /\ Expired
  /\ Expire
  /\ UNCHANGED <<timers, exec, lastDue, notBefore, limiterVars>>

ProcessEarly ==
  /\ Drain /\ ~Gone /\ ~Expired /\ ~Started
  /\ Sleep(row.start)
  /\ UNCHANGED <<row, exec, lastDue, notBefore, limiterVars>>

Admits == ~Gone /\ ~Expired /\ Started

(* A slip to detect: a refused task waits for its trigger alone.           *)
ProcessLimitedForgets ==
  /\ Drain /\ Admits /\ Refuse
  /\ IF row.cron # None \/ row.interval # None
     THEN row' = [row EXCEPT !.next = WrapAt(now + def.window)] /\ lastDue' = None
     ELSE UNCHANGED <<row, lastDue>>
  /\ UNCHANGED <<exec, timers, notBefore>>

ProcessLimited ==
  /\ Drain /\ Admits /\ Refuse
  /\ IF row.cron # None \/ row.interval # None
     THEN row' = [row EXCEPT !.next = WrapAt(now + def.window)] /\ lastDue' = None
     ELSE UNCHANGED <<row, lastDue>>
  /\ Sleep(now + def.window)
  /\ UNCHANGED <<exec, notBefore>>

(* Another execution is under way: 200 ms.  The token is spent.            *)
ProcessOverlap ==
  /\ Drain /\ Admits /\ Pass
  /\ exec # None \/ row.state = "running"
  /\ Sleep(now)
  /\ UNCHANGED <<row, exec, lastDue, notBefore>>

ProcessStart ==
  /\ Drain /\ Admits /\ Pass
  /\ exec = None /\ row.state # "running"
  /\ exec' = row
  /\ row' = [row EXCEPT !.state = "running"]
  /\ notBefore' = 0
  /\ UNCHANGED <<timers, lastDue>>

-----------------------------------------------------------------------------
(* The end of an execution, with a code, or with an error of dispatch.     *)

Codes == IF exec.type = "http" THEN {200, 404, 503, None} ELSE {0, 1, None}

Outcome(code) ==
  CASE code # None /\ ~IsFailure(exec, code) ->
         IF exec.cron # None \/ exec.interval # None THEN "again" ELSE "success"
    [] OTHER -> IF ShouldRetry(exec, code) THEN "retry" ELSE "failed"

Settled(code) ==
  CASE Outcome(code) = "again" -> [row EXCEPT !.state = "pending"]
    [] Outcome(code) = "success" -> [row EXCEPT !.state = "success"]
    [] Outcome(code) = "failed" ->
         [row EXCEPT !.state = "failed", !.attempts = exec.attempts + 1]
    [] OTHER -> [row EXCEPT !.state = "pending", !.attempts = exec.attempts + 1,
                            !.next = NextRetry(exec, now)]

(* The delay the task asks for, on paper.                                  *)
IdealDelay ==
  exec.retryDelay *
    (IF exec.backoff THEN Min2(2^exec.attempts, BackoffCap) ELSE 1)

(* The row is whatever has the id by now; an error of dispatch returns     *)
(* before the limiter forgets the task.                                    *)
Finish(code) ==
  /\ exec # None /\ code \in Codes
  /\ exec' = None
  /\ row' = IF row = None THEN None ELSE Settled(code)
  /\ IF row # None /\ Outcome(code) = "retry"
     THEN notBefore' = now + IdealDelay /\ lastDue' = None
     ELSE UNCHANGED <<notBefore, lastDue>>
  /\ IF code # None /\ row # None /\ Outcome(code) \in {"success", "failed"}
        /\ def.count > 0
     THEN Forget
     ELSE UNCHANGED limiterVars
  /\ UNCHANGED <<setting, now, waiting, timers>>

PacingStep ==
  \/ Tick \/ Wake
  \/ ScanExpires \/ ScanRunAt \/ ScanInterval \/ ScanCron \/ ScanRetries
  \/ ProcessGone \/ ProcessExpired \/ ProcessEarly \/ ProcessLimited
  \/ ProcessOverlap \/ ProcessStart
  \/ \E code \in {0, 1, 200, 404, 503, None} : Finish(code)
=============================================================================
