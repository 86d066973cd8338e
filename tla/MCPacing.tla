------------------------------ MODULE MCPacing ------------------------------
(* Small tasks, their clients and their expressions.                       *)
EXTENDS PacingProps, TLC

CONSTANTS odd, late, bad, utc, nowhere

Occurrences ==
  odd :> (utc :> {5, 7, 9, 11} @@ nowhere :> {})
  @@ late :> (utc :> {8, 11} @@ nowhere :> {})
  @@ bad :> (utc :> {} @@ nowhere :> {})

Plain ==
  [cron |-> None, orCron |-> {}, interval |-> 0, runAt |-> 0, countdown |-> 0,
   jitter |-> 0, start |-> 0, expires |-> 0, type |-> "shell", safe |-> FALSE,
   retryMax |-> 0, retryDelay |-> 1, backoff |-> FALSE, coalesce |-> TRUE,
   grace |-> 0, skip |-> {}, count |-> 0, window |-> 0, zone |-> utc]

Dispatch(replace) == [kind |-> "dispatch", replace |-> replace]
Change(patch) == [kind |-> "modify", patch |-> patch]
To(e) == [kind |-> "reschedule", cron |-> e]
Pause == [kind |-> "pause", to |-> TRUE]
Requeued == [kind |-> "requeue"]
Listing == [kind |-> "list", state |-> "success"]

Setting(task, kind, second) ==
  [task |-> Builder(task), store |-> kind, asks |-> <<{Dispatch(FALSE)}, second>>]

(* A retried command; a request that starts late and whose retry delay of  *)
(* -4 is nearly for ever; a rate limited command; two cron tasks; an       *)
(* interval; a cron that does not parse; a countdown.                      *)
SomeSettings ==
  { Setting([Plain EXCEPT !.retryMax = 2, !.backoff = TRUE, !.expires = 3],
            "memory", {Dispatch(FALSE), Change([cron |-> late])}),
    Setting([Plain EXCEPT !.type = "http", !.safe = TRUE, !.retryMax = 1,
                          !.retryDelay = -4, !.start = 6],
            "sqlite", {Requeued, [kind |-> "remove"], [kind |-> "state"]}),
    Setting([Plain EXCEPT !.count = 1, !.window = 2, !.retryMax = 1],
            "sqlite", {Dispatch(TRUE), Requeued}),
    Setting([Plain EXCEPT !.cron = odd, !.orCron = {late}, !.jitter = 2],
            "sqlite", {Change([cron |-> bad]), Change([zone |-> nowhere]),
                       To(late), To(bad)}),
    Setting([Plain EXCEPT !.cron = odd, !.coalesce = FALSE, !.grace = 1,
                          !.skip = {7}, !.count = 1, !.window = 3],
            "memory", {Change([cron |-> bad]), Pause}),
    Setting([Plain EXCEPT !.interval = 2, !.retryMax = 1],
            "sqlite", {Change([interval |-> 3]), [kind |-> "get"]}),
    Setting([Plain EXCEPT !.cron = bad, !.interval = -1],
            "memory", {[kind |-> "remove"], Listing, Pause}),
    Setting([Plain EXCEPT !.countdown = 2],
            "sqlite", {[kind |-> "silent"], Dispatch(FALSE)}) }
=============================================================================
