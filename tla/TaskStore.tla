------------------------------ MODULE TaskStore ------------------------------
(***************************************************************************)
(* The task table: the columns of a task row that steer scheduling, and    *)
(* the store operations that change them.  Two stores implement the        *)
(* TaskStore trait: InMemoryStore (lost with the daemon) and SqliteStore   *)
(* (survives it).  Where they differ the constant Sqlite says which one.   *)
(*                                                                         *)
(* Time is abstracted: next_fire is "none", "some" timestamp that is, or   *)
(* becomes, due, or "never" (u64::MAX), and whoever compares it with now() *)
(* may find some timestamp due at any later moment.                        *)
(***************************************************************************)
EXTENDS Integers, Sequences, FiniteSets

CONSTANTS
  Task,      \* task ids
  Def,       \* the immutable definition of every task, see Definition
  Sqlite,    \* TRUE: SqliteStore; FALSE: InMemoryStore
  Faults,    \* which faults may happen: a subset of {"crash", "store"}
  U32Max,    \* the largest attempts value (u32::MAX in the code)
  RunsMax    \* bound on execution_count: it saturates here

VARIABLE row \* task id -> its row; a deleted or never inserted row is "absent"

Terminal == {"success", "failed", "cancelled", "expired"}
Active   == {"pending", "running", "interrupted"}

Row == [state    : Terminal \cup Active \cup {"absent"},
        attempts : 0..U32Max,
        next     : {"none", "some", "never"},
        cancel   : BOOLEAN,      \* cancel_requested
        paused   : BOOLEAN,
        runs     : 0..RunsMax]   \* execution_count

(* What TaskBuilder fixes for a task's lifetime.                           *)
Definition == [prio     : Int,
               kind     : {"once", "runat", "interval", "cron", "orcron"},
               retryMax : 0..U32Max,
               acks     : BOOLEAN,       \* acks_on_failure
               instances: Nat \ {0},     \* max_instances
               overlap  : BOOLEAN,       \* allow_overlap
               maxRuns  : 0..RunsMax,    \* max_executions, 0 = unlimited
               expires  : BOOLEAN,       \* expires > 0
               delayed  : BOOLEAN,       \* has a start_date
               ends     : BOOLEAN,       \* has an end_date
               skips    : BOOLEAN,       \* a trigger may be dropped: skip_dates,
                                         \* workdays_only, misfire without coalesce
               rated    : BOOLEAN,       \* has a rate limit
               timed    : BOOLEAN]       \* timeout > 0: the watchdog looks at it

ASSUME StoreAssumption ==
  /\ Def \in [Task -> Definition]
  /\ Sqlite \in BOOLEAN
  /\ Faults \subseteq {"crash", "store"}
  /\ U32Max \in Nat \ {0}
  /\ RunsMax \in Nat \ {0}

(* cron.is_some() || interval.is_some(): "orcron", a task whose only       *)
(* triggers are or_cron expressions, has neither.                          *)
Periodic(t) == Def[t].kind \in {"interval", "cron"}

Absent == [state |-> "absent", attempts |-> 0, next |-> "none",
           cancel |-> FALSE, paused |-> FALSE, runs |-> 0]

StoreInit == row = [t \in Task |-> Absent]

-----------------------------------------------------------------------------
(* Every store write is an UPDATE ... WHERE id: it changes nothing when    *)
(* the row is gone, and an SQLite write may fail.                          *)

Update(t, new) ==
  row' = IF row[t].state = "absent" THEN row ELSE [row EXCEPT ![t] = new]

WriteFails == "store" \in Faults /\ UNCHANGED row

UpdateState(t, s) == Update(t, [row[t] EXCEPT !.state = s])

SetAttempts(t, n) == Update(t, [row[t] EXCEPT !.attempts = n])

UpdateNextFire(t, next) == Update(t, [row[t] EXCEPT !.next = next])

(* A slip to detect: + 1 where the code has saturating_add.                *)
PlainAdd(n, max) == n + 1

Saturate(n, max) == IF n < max THEN n + 1 ELSE max

IncrementRuns(t) ==
  Update(t, [row[t] EXCEPT !.runs = Saturate(row[t].runs, RunsMax)])

(* The count increment_execution_count returns reached max_executions.     *)
RunsExhausted(t) ==
  Def[t].maxRuns > 0 /\ Saturate(row[t].runs, RunsMax) >= Def[t].maxRuns

-----------------------------------------------------------------------------
(* Operations of the IPC clients on one row.                               *)

(* TaskBuilder::build gives a triggered task its first next_fire.          *)
FirstFire(t) == IF Def[t].kind = "once" THEN "none" ELSE "some"

InsertTask(t) ==
  /\ row[t].state = "absent"
  /\ row' = [row EXCEPT ![t] = [Absent EXCEPT !.state = "pending",
                                              !.next = FirstFire(t)]]

RemoveTask(t) ==
  /\ row[t].state # "absent"
  /\ row' = [row EXCEPT ![t] = Absent]

(* A pending task is cancelled on the spot, a running one is asked to      *)
(* stop; any other state is refused.  Only SQLite also sets the flag of a  *)
(* pending row.                                                            *)
CancelTask(t) ==
  \/ /\ row[t].state = "pending"
     /\ row' = [row EXCEPT ![t].state = "cancelled",
                           ![t].cancel = row[t].cancel \/ Sqlite]
  \/ /\ row[t].state = "running"
     /\ row' = [row EXCEPT ![t].cancel = TRUE]

RequeueTask(t) ==
  /\ row[t].state \in Terminal
  /\ row' = [row EXCEPT ![t] = [row[t] EXCEPT !.state = "pending",
                                              !.attempts = 0,
                                              !.cancel = FALSE,
                                              !.next = "some"]]

SetPaused(t, paused) ==
  /\ row[t].state # "absent"
  /\ row' = [row EXCEPT ![t].paused = paused]

-----------------------------------------------------------------------------
(* Operations of the daemon on the whole table.                            *)

(* A slip to detect: every row is reset, whatever its state.               *)
ResetEveryRow(alive) ==
  [t \in Task |-> IF t \in alive \/ row[t].state = "absent" THEN row[t]
                  ELSE [row[t] EXCEPT !.state = "pending", !.next = "some"]]

(* The table after the start-up of a persistent daemon: every Running or   *)
(* Interrupted row whose recorded worker process is gone becomes Pending   *)
(* and due.  cancel and attempts are kept.                                 *)
ResetRunningToPending(alive) ==
  [t \in Task |->
     IF row[t].state \in {"running", "interrupted"} /\ t \notin alive
     THEN [row[t] EXCEPT !.state = "pending", !.next = "some"]
     ELSE row[t]]

(* A slip to detect: fired run_at rows are not looked for.                 *)
NoRearm(rows) == rows

(* Then a run_at row that had fired and was still Pending is due again.    *)
RearmStuckRunAt(rows) ==
  [t \in Task |->
     IF Def[t].kind = "runat" /\ rows[t].state = "pending" /\ rows[t].next = "never"
     THEN [rows[t] EXCEPT !.next = "some"]
     ELSE rows[t]]

MarkRunningAsInterrupted ==
  row' = [t \in Task |-> IF row[t].state = "running"
                         THEN [row[t] EXCEPT !.state = "interrupted"]
                         ELSE row[t]]
=============================================================================
