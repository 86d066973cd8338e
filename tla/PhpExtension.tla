---------------------------- MODULE PhpExtension ----------------------------
(***************************************************************************)
(* What PHP sees of the daemon: how the Xhjob class turns the numbers a    *)
(* script gives into a TaskBuilder, and what a function returns for the    *)
(* daemon's reply, or for none.  A reply is "yes", "no", "error" or, to a  *)
(* question about the task, its state.                                     *)
(***************************************************************************)
EXTENDS Schedule

(* as u32 and as u64: a negative number wraps.                             *)
Unsigned(n) == n % (U64Max + 1)

(* The other setters take a negative number for 0.                         *)
Clamped(n) == IF n < 0 THEN 0 ELSE n

(* withRetry.                                                              *)
WithRetry(p) == [p EXCEPT !.retryMax = Unsigned(@), !.retryDelay = Unsigned(@)]

(* every, jitter, expires, misfireGraceTime, rateLimit.                    *)
WithClamped(p) ==
  [p EXCEPT !.interval = Clamped(@), !.jitter = Clamped(@),
            !.expires = Clamped(@), !.grace = Clamped(@),
            !.count = Clamped(@), !.window = Clamped(@)]

(* What the chain of setters leaves for dispatch; runAt and startAt are    *)
(* taken as they are.                                                      *)
Builder(p) == WithClamped(WithRetry(p))

-----------------------------------------------------------------------------
(* What a reply, or what a function returns for it, may say.               *)
Word ==
  {"yes", "no", "error", "unknown", "null",
   "pending", "running", "success", "failed", "expired"}

(* dispatch gives the id or an error.                                      *)
DispatchReturns(reply) == IF reply = "yes" THEN "yes" ELSE "error"

(* remove, pause, resume and cancel: whether the reply is ok.              *)
FlagReturns(reply) == IF reply = "error" THEN "no" ELSE "yes"

(* requeue, reschedule and modify: whether the daemon did it; an error and *)
(* silence read like a refusal.                                            *)
AnswerReturns(reply) == IF reply = "yes" THEN "yes" ELSE "no"

(* state: a task that is not there and a daemon that is not there are the  *)
(* same.                                                                   *)
StateReturns(reply) == IF reply = "error" THEN "unknown" ELSE reply

(* get: null stands for both.                                              *)
GetReturns(reply) == IF reply \in {"no", "error"} THEN "null" ELSE reply

Returns(kind, reply) ==
  CASE kind = "dispatch" -> DispatchReturns(reply)
    [] kind \in {"remove", "pause"} -> FlagReturns(reply)
    [] kind \in {"requeue", "reschedule", "modify"} -> AnswerReturns(reply)
    [] kind = "state" -> StateReturns(reply)
    [] kind = "get" -> GetReturns(reply)
    [] OTHER -> reply

-----------------------------------------------------------------------------
(* What the daemon answers about a row, or None.                           *)

(* state: its state, among what else StateInfo copies from it.             *)
StateInfo(r) == IF r = None THEN "error" ELSE r.state

(* get: the row itself.                                                    *)
TaskJson(r) == IF r = None THEN "no" ELSE r.state

(* list: the rows in a state, all when it is None.                         *)
Listed(r, state) ==
  IF r # None /\ (state # None => r.state = state) THEN "yes" ELSE "no"
=============================================================================
