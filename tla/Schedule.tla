------------------------------ MODULE Schedule ------------------------------
(***************************************************************************)
(* When a task fires: the operators that turn a builder, a row and a clock *)
(* into next_fire, and a failure into a delay.  Times are whole seconds of *)
(* width Bits; a cron expression is the set of times it matches in a zone, *)
(* and an expression or a zone that does not parse matches none.           *)
(***************************************************************************)
EXTENDS Integers, FiniteSetsExt

CONSTANTS
  None,
  Expr, Zone,   \* cron expressions and time zones, as users write them
  Occurs,       \* [Expr -> [Zone -> set of times]]
  Bits,         \* width of the code's u64 times: 64
  BackoffCap,   \* 60: the delay grows to so many times retry_delay
  GraceDefault  \* MISFIRE_GRACE_TIME_SECS: 60

U64Max == 2^Bits - 1
U64 == 0..U64Max

Maybe(S) == S \cup {None}

(* TaskBuilder: what decides when and how often a task runs.               *)
Params ==
  [cron : Maybe(Expr), orCron : SUBSET Expr, interval : Maybe(U64),
   runAt : Maybe(U64), countdown : Maybe(U64), jitter : U64,
   start : Maybe(U64), expires : U64, type : {"shell", "http"}, safe : BOOLEAN,
   retryMax : U64, retryDelay : U64, backoff : BOOLEAN, coalesce : BOOLEAN,
   grace : U64, skip : SUBSET U64, count : U64, window : U64, zone : Zone]

(* struct Task: the same, and what the daemon adds.                        *)
Row ==
  [cron : Maybe(Expr), orCron : SUBSET Expr, interval : Maybe(U64),
   runAt : Maybe(U64), countdown : Maybe(U64), jitter : U64,
   start : Maybe(U64), expires : U64, type : {"shell", "http"}, safe : BOOLEAN,
   retryMax : U64, retryDelay : U64, backoff : BOOLEAN, coalesce : BOOLEAN,
   grace : U64, skip : SUBSET U64, count : U64, window : U64, zone : Zone,
   state : {"pending", "running", "success", "failed", "expired"},
   attempts : Nat, next : Maybe(U64), created : U64, paused : BOOLEAN]

ASSUME ScheduleAssumption ==
  /\ Bits \in Nat \ {0}
  /\ BackoffCap \in Nat \ {0} /\ GraceDefault \in Nat
  /\ Occurs \in [Expr -> [Zone -> SUBSET U64]]
  /\ None \notin Expr \cup Zone \cup U64 /\ None \notin Row

(* The fields of f, and those of g that f does not have.                   *)
Over(f, g) ==
  [k \in DOMAIN f \cup DOMAIN g |-> IF k \in DOMAIN f THEN f[k] ELSE g[k]]

(* A plain sum in a release build.                                         *)
WrapAt(n) == n % (U64Max + 1)

(* saturating_add and saturating_mul.                                      *)
Saturating(n) == IF n > U64Max THEN U64Max ELSE n

-----------------------------------------------------------------------------
(* Cron expressions.                                                       *)

(* next_fire: the first match strictly after from; without one, or with an *)
(* expression or a zone that does not parse, it is an error.               *)
Matches(e, from, z) == {t \in Occurs[e][z] : t > from}

(* The primary expression and the alternatives are one set of triggers.    *)
CronExprs(r) == ({r.cron} \ {None}) \cup r.orCron

(* One expression without a next match is an error for all of them.        *)
Computable(exprs, from, z) == \A e \in exprs : Matches(e, from, z) # {}
MinNextFire(exprs, from, z) ==
  Min(UNION {Matches(e, from, z) : e \in exprs})

(* A trigger that is late: coalesce fires it once, however late; otherwise *)
(* only within the grace time.                                             *)
ShouldFireDue(r, next, now) ==
  r.coalesce \/ now - next <= (IF r.grace > 0 THEN r.grace ELSE GraceDefault)

(* skip_dates and workdays_only: whether now falls on a day left out.      *)
ShouldSkipTrigger(r, now) == now \in r.skip

-----------------------------------------------------------------------------
(* TaskBuilder::build                                                      *)

(* A zero stands for an unset optional field.                              *)
Given(v) == IF v = 0 THEN None ELSE v

(* countdown is a run_at from now on, unless run_at is given.              *)
RunAt(b, now) ==
  IF Given(b.runAt) # None \/ Given(b.countdown) = None THEN Given(b.runAt)
  ELSE Saturating(now + b.countdown)

(* rand_jitter: below secs, none when it is 0.                             *)
Jitters(secs) == {0} \cup 0..(secs - 1)

(* The first next_fire, run_at before cron before interval; jitter is not  *)
(* for run_at.  Without a trigger there is none.                           *)
FirstFires(b, now) ==
  LET exprs == CronExprs(b)
      base == IF exprs # {} THEN MinNextFire(exprs, now, b.zone)
                            ELSE Saturating(now + b.interval)
  IN IF RunAt(b, now) # None THEN {RunAt(b, now)}
     ELSE IF exprs = {} /\ Given(b.interval) = None THEN {None}
     ELSE {Saturating(base + j) : j \in Jitters(b.jitter)}

Builds(b, now) ==
  RunAt(b, now) # None \/ Computable(CronExprs(b), now, b.zone)

(* The new task: the fields it is scheduled by, as the builder leaves them.*)
Task(b, next, now) ==
  Over([b EXCEPT !.runAt = RunAt(b, now), !.countdown = None,
                 !.interval = Given(@), !.start = Given(@)],
       [state |-> "pending", attempts |-> 0, next |-> next, created |-> now,
        paused |-> FALSE])

-----------------------------------------------------------------------------
(* Retry.                                                                  *)

Within(n, lo, hi) == lo <= n /\ n < hi

(* What counts as a failure: a result without a code is not one when the   *)
(* executor returned it, see Finish.                                       *)
IsFailure(t, code) ==
  IF t.type = "http" THEN ~Within(code, 200, 300) ELSE code # 0

(* GET, HEAD and OPTIONS are safe to send again, the others only when the  *)
(* task is declared idempotent; without an answer everything is.           *)
IsRetryable(t, code) ==
  \/ code = None
  \/ IF t.type = "http" THEN Within(code, 500, 600) /\ t.safe ELSE code # 0

ShouldRetry(t, code) == t.attempts < t.retryMax /\ IsRetryable(t, code)

(* 1 << attempts, within the width.                                        *)
Factor(attempts) == IF attempts >= Bits - 1 THEN U64Max ELSE 2^attempts

BackoffDelay(t) ==
  IF ~t.backoff THEN t.retryDelay
  ELSE Min({Saturating(t.retryDelay * Factor(t.attempts)),
            Saturating(t.retryDelay * BackoffCap)})

(* Slips to detect: the time of the retry is not bounded, or wraps.        *)
NextRetryPlain(t, now) == now + BackoffDelay(t)

NextRetryWraps(t, now) == WrapAt(now + BackoffDelay(t))

NextRetry(t, now) == Saturating(now + BackoffDelay(t))

-----------------------------------------------------------------------------
(* modify_job and reschedule_task of the two stores: a row and a patch, a  *)
(* function of some of the row's fields, give the row they leave behind    *)
(* and what they answer.                                                   *)

TriggerKeys == {"cron", "orCron", "interval", "runAt", "zone", "skip"}
PatchKeys ==
  TriggerKeys \cup {"expires", "jitter", "coalesce", "grace", "retryMax", "retryDelay",
                    "backoff", "paused"}
IsFinal(r) == r.state \in {"success", "failed", "expired", "cancelled"}
Answer(r, reply) == [row |-> r, reply |-> reply]

(* Recompute from the merged row.                                          *)
Recomputed(r, now) ==
  CASE CronExprs(r) # {}  -> MinNextFire(CronExprs(r), now, r.zone)
    [] CronExprs(r) = {} /\ r.interval # None -> Saturating(now + r.interval)
    [] CronExprs(r) = {} /\ r.interval = None /\ r.runAt # None -> r.runAt
    [] OTHER -> r.next

(* In memory: field by field into the row, then next_fire; an expression   *)
(* or zone that does not parse is an error that undoes nothing.            *)
ModifyInMemory(r, patch, now) ==
  LET merged == Over(patch, r)
  IN CASE IsFinal(r) -> Answer(r, "no")
       [] ~IsFinal(r) /\ DOMAIN patch \cap TriggerKeys = {} ->
            Answer(merged, "yes")
       [] OTHER ->
            IF Computable(CronExprs(merged), now, merged.zone)
            THEN Answer([merged EXCEPT !.next = Recomputed(merged, now)], "yes")
            ELSE Answer(merged, "error")

(* SQLite: next_fire only from the triggers of the patch, in the zone the  *)
(* row has had; one UPDATE at the end, or none.                            *)
Patched(patch, key, default) ==
  IF key \in DOMAIN patch THEN patch[key] ELSE default

PatchedNext(r, patch, now) ==
  LET p == [cron |-> Patched(patch, "cron", None),
            orCron |-> Patched(patch, "orCron", {}),
            interval |-> Patched(patch, "interval", None),
            runAt |-> Patched(patch, "runAt", None),
            zone |-> r.zone, next |-> r.next]
  IN Recomputed(p, now)

PatchedExprs(patch) ==
  ({Patched(patch, "cron", None)} \ {None}) \cup Patched(patch, "orCron", {})

(* A slip to detect: the columns are updated before the check.             *)
ModifySqliteEarly(r, patch, now) ==
  CASE IsFinal(r) -> Answer(r, "no")
    [] ~IsFinal(r) /\ ~Computable(PatchedExprs(patch), now, r.zone) ->
         Answer(Over(patch, r), "error")
    [] OTHER ->
         Answer([Over(patch, r) EXCEPT !.next = PatchedNext(r, patch, now)], "yes")

ModifySqlite(r, patch, now) ==
  CASE IsFinal(r) -> Answer(r, "no")
    [] ~IsFinal(r) /\ ~Computable(PatchedExprs(patch), now, r.zone) ->
         Answer(r, "error")
    [] OTHER ->
         Answer([Over(patch, r) EXCEPT !.next = PatchedNext(r, patch, now)], "yes")

(* Only a task with a primary expression; or_cron is not looked at.        *)
Reschedule(r, e, now) ==
  CASE r.cron = None \/ IsFinal(r) -> Answer(r, "no")
    [] r.cron # None /\ ~IsFinal(r) /\ ~Computable({e}, now, r.zone) ->
         Answer(r, "error")
    [] OTHER ->
         Answer([r EXCEPT !.cron = e,
                          !.next = MinNextFire({e}, now, r.zone)], "yes")

(* requeue_task: any terminal state, success included; due at once.        *)
Requeue(r, now) ==
  IF IsFinal(r)
  THEN Answer([r EXCEPT !.state = "pending", !.attempts = 0, !.next = now], "yes")
  ELSE Answer(r, "no")
=============================================================================
