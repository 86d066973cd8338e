------------------------------ MODULE MCDaemon ------------------------------
(* Task definitions and bounds for model checking module Daemon.           *)
EXTENDS DaemonProps, TLC

CONSTANTS a, b, i1, i2

OneShot == [prio |-> 0, kind |-> "once", retryMax |-> 1, acks |-> TRUE,
            instances |-> 1, overlap |-> FALSE, maxRuns |-> 0,
            expires |-> FALSE, delayed |-> FALSE, ends |-> FALSE,
            skips |-> FALSE, rated |-> FALSE,
            timed |-> TRUE]

(* a: one-shot, retried once; b: one-shot of higher priority.              *)
DefPair == a :> OneShot @@ b :> [OneShot EXCEPT !.prio = 1, !.retryMax = 0]

(* One one-shot task, retried once.                                        *)
DefOnce == [t \in Task |-> OneShot]

(* A one-shot task that may run once and is not retried.                   *)
DefWatched == [t \in Task |-> [OneShot EXCEPT !.retryMax = 0, !.maxRuns = 1]]

(* a: one-shot that expires, starts late and is rate limited; b: a cron    *)
(* task with an end date and skipped days, rate limited, retried without   *)
(* limit (acks_on_failure = false).                                        *)
DefGated == a :> [OneShot EXCEPT !.expires = TRUE, !.delayed = TRUE,
                                 !.rated = TRUE, !.retryMax = 0]
         @@ b :> [OneShot EXCEPT !.kind = "cron", !.rated = TRUE, !.acks = FALSE,
                                 !.ends = TRUE, !.skips = TRUE]

(* A run_at task, retried once.                                            *)
DefRunAt == [t \in Task |-> [OneShot EXCEPT !.kind = "runat"]]

(* An interval task without a limit, retried once.                         *)
DefEvery == [t \in Task |-> [OneShot EXCEPT !.kind = "interval"]]

Symmetry == Permutations({i1, i2})
=============================================================================
