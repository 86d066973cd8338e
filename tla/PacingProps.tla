---------------------------- MODULE PacingProps ----------------------------
(***************************************************************************)
(* What one task's clock and its clients are promised.                     *)
(***************************************************************************)
EXTENDS Requests

(* Every variable has its type.                                            *)
PacingTypeOK ==
  /\ now \in Start..Horizon /\ waiting \in 0..MaxPending
  /\ \A r \in {row, exec} \ {None} :
       /\ r.state \in {"pending", "running", "success", "failed", "expired"}
       /\ r.next \in U64 \cup {None} /\ r.attempts \in 0..(def.retryMax + 1)
  /\ \A s \in timers : s.at \in Nat
  /\ \A f \in bucket : f.t \in Start..now
  /\ lastDue \in U64 \cup {None} /\ notBefore \in Nat
  /\ author \in Call \cup {None}
  /\ permits \in 0..MaxConn
  /\ \A c \in Call : call[c].pc = "closed" => call[c].told # None

(* In any window of rate_limit_window seconds at most rate_limit_count     *)
(* triggers pass the limiter, through retries, overlaps, replacements and  *)
(* requeues, since it last forgot the task.                                *)
RateCap == Limited => Cardinality(fired) <= def.count

(* A one-shot task without a trigger is not retried before its backoff has *)
(* passed, however large the delay: unless it was replaced or given one.   *)
RetrySpaced ==
  [][exec = None /\ exec' # None /\ Cardinality({c \in Call :
         call[c].op # None /\ call[c].op.kind \in {"dispatch", "modify"}}) = 1
       /\ CronExprs(row) = {} /\ row.interval = None /\ row.runAt = None
     => now >= notBefore]_vars

(* A cron row is fired for an occurrence that has come since the last      *)
(* firing: however late, never twice for one and never for none, as long   *)
(* as next_fire is the expression's own.                                   *)
OccurrenceOnce ==
  [][ScanCron /\ lastDue # None /\ waiting' # waiting =>
       \E e \in CronExprs(row) : \E t \in Occurs[e][row.zone] :
         lastDue < t /\ t <= now]_vars

(* A task whose dispatch was acknowledged and which has not come to its    *)
(* end is always carried on by something: its id waits, a timer will       *)
(* enqueue it, an execution is under way, or a scan will find it due.      *)
(* Not a task of run_at and another trigger, nor one whose expressions     *)
(* have no next occurrence.                                                *)
Carried ==
  \/ waiting > 0 \/ timers # {} \/ exec # None
  \/ (row.next # None /\ (row.runAt # None => row.next # U64Max))
  \/ (CronExprs(row) = {} /\ row.interval # None)
AcknowledgedCarried ==
  Acknowledged(author) /\ row # None /\ row.state \in {"pending", "running"}
    /\ (row.runAt = None \/ (row.cron = None /\ row.interval = None))
    /\ Computable(CronExprs(row), now, row.zone)
  => Carried

(* With SQLite no sequence of dispatches, reschedules and modifications    *)
(* leaves a row whose expressions the scan cannot roll on, and which it    *)
(* would fire every second: as long as the zone is the one it came with.   *)
ScheduleParses ==
  store = "sqlite" /\ row # None /\ row.zone = def.zone =>
    \A e \in CronExprs(row) : Occurs[e][row.zone] # {}

(* A dispatch that began after another was acknowledged does not overwrite *)
(* its task unless it asks to replace it.                                  *)
NoSilentOverwrite ==
  [][\A c \in Call : Insert(c) /\ author # None /\ ~call[c].op.replace =>
       author # call[c].after]_vars

(* Every connection is served or dropped, whatever the others do.          *)
RequestServed == \A c \in Call : call[c].pc = "sent" ~> call[c].pc = "closed"
=============================================================================
