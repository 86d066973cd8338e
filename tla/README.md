# Verification of the xhjob task daemon

xhjob is a background task scheduler: a PHP extension sends tasks over a local
socket to a Rust daemon, which keeps them in a store, fires them when they are
due, runs them as shell commands or HTTP requests on a pool, and retries,
cancels, requeues and recovers them. This directory holds TLA+ modules of the
daemon's scheduling core, the TLC runs that check them and the theorems TLAPS
proves of them. Paths below are relative to the repository's Rust sources
(`src/` of the repository) unless they start with `docs/`.

## Inventory

| Part | State it keeps | Operations | What makes it correct |
|---|---|---|---|
| Task queue (`scheduler/queue.rs`) | pending list, cancel flags, in-flight counter | `enqueue`, `process_one`, `scan_retries`, `signal_cancel`, `wait_for_idle`, `run`, one future per execution | no task is lost, none runs more often at a time than allowed, a cancel reaches the execution, counters balance on every path |
| Overlap control (`scheduler/overlap.rs`) | running counter per task | `should_fire`, `on_start`, `on_finish` | a counting semaphore per task |
| Cron scheduler (`scheduler/cron.rs`) | none (works on the store) | `scan_once` every second, `rearm_stuck_run_at_tasks` at start-up | a due task is fired, a finished one is not, writes made from an older snapshot do no harm |
| Watchdog (`scheduler/watchdog.rs`) | none | `scan_once`, `start`, `stop` | interrupts only what still runs, stops when told to |
| Retry (`retry/mod.rs`) | attempts and next_fire in the row | `should_retry`, `schedule_retry`, `backoff_delay` | at most retry_max retries, a retry is armed |
| Store (`store/`) | tasks, results, events, chains, groups, chords | one method per operation, two implementations | each operation atomic; start-up recovery loses nothing; a refused change changes nothing |
| Task definition (`task/mod.rs`) | none: a builder | `build` | the first trigger time is the one the triggers mean |
| Daemon (`daemon_main.rs`) | the process: loops, connections, handlers, shutdown | start-up recovery, IPC handlers, drain and exit | stops when asked; a restart resumes what was unfinished; every connection is served or dropped |
| Pools (`pool/`) | semaphore permits; worker threads and their channel | `spawn`, `submit` | never more executions than permits; a panicking job does not cost a thread |
| Executors (`executor/`) | child process, cancel flag, lease | `execute_with_lease` | a child ends at its timeout or its cancel and is waited for; the lease names the live child; success is the child's own |
| Chains, groups, chords (`scheduler/chain.rs`, `group.rs`, `chord.rs`) | a record each in the store, a mutex per id | advance, summary and refresh, callback | each step once and in order, each callback once, a record never claims what did not happen |
| Rate limiter (`scheduler/rate_limit.rs`) | timestamps per task | `check_and_record`, `forget` | at most count triggers per window |
| Process control (`daemon/`) | pid file, socket file, process start time | start, stop, restart, status | one daemon per service, found by whoever asks |
| IPC (`ipc/`) | a connection | one request and one answer, with timeouts | an answer, or an error after the timeout |
| PHP extension (`lib.rs`, `outcome/mod.rs`) | a builder per `Xhjob` object | setters, one function per request | what PHP is told is what the daemon said |
| Worker limits, events, service, configuration, metrics, encryption | | | no scheduling decision depends on them except that a worker limit is a stop request |

The parts interact through the store (every loop reads and writes rows, each
call atomic, sequences of calls not), the pending list, the cancel flags and
the in-memory counters. What is hard: every loop works from a snapshot of a row
it read some awaits ago; four parties write a row's state (queue loop, future,
cron scan, watchdog) besides the clients; memory and table disagree after a
crash; a write that fails is logged and passed over; a handler is dropped after
15 seconds wherever it stands, while its client gave up after 5; processes know
of each other only through two files; children outlive the daemon.

## Modules

| Module | Models | Correspondence |
|---|---|---|
| `TaskStore` | the scheduling columns of a row, store operations | `row[t]`: `state`, `attempts`, `next` (next_fire: NULL, a timestamp, u64::MAX), `cancel` (cancel_requested), `paused`, `runs` (execution_count). `Def[t]` is what `TaskBuilder::build` fixes. Constant `Sqlite` chooses the store. |
| `TaskQueue` | pending list and queue loop | `disp` is the loop: its `pc` names the await at which it stands inside `process_one` or `scan_retries`, its `base` the attempts of the loaded snapshot. `delayed` counts the spawned timers and `on_due` tasks that will enqueue an id. |
| `TaskFuture` | the future of one execution | `inst[i]` is a future: waiting for a permit, registering its flag, executing, reading cancel_requested, and each of the store calls that settle the row. |
| `CronScan` | `CronScheduler::scan_once` and `run` | `cron.plan` is what the scan has decided from its snapshot and not yet written; `cron.due` the ids it will return. |
| `Daemon` | the process | IPC handlers, the loops above, the watchdog (`wd`), cancel handlers between `cancel_task` and `signal_cancel` (`signalling`), drain and exit (`phase`), crash, restart, children that outlive the daemon (`orphan`). |
| `Admission` | abstract specification | a counting semaphore per task. |
| `DaemonProps`, `OrchestrationProps`, `ThreadPoolProps`, `LifecycleProps` | properties of the modules they are named for | |
| `Orchestration` | chains, groups and chords | `rec` is the chain, group or chord record, `lock` the per-id mutex, `act[x]` a hook at the end of a future, or the handler that creates the record, at one of its awaits; `waiting[i]` counts how often a task's id is in the pending list. |
| `Executor` | `ShellExecutor`, `HttpExecutor` | `run[e]` is an execution at one of its waits, `child[e]` its process, `heir` the executions whose pipes a grandchild holds, `lease[t]` the worker pid in the row. |
| `ThreadPool` | thread mode: channel, workers, panics; crash and restart around them | extends `Executor`: a worker runs its steps; `row[t]` is what decides whether the next start executes the task again. |
| `Lifecycle` | `daemon/`: `start`, `stop`, `restart`, `status`, the daemon's own start-up and exit | `call[c]` is a PHP process inside one of these functions, `daemon[d]` a process, `pidfile` and `socket` the two files, `parent` whose child (and later zombie) a daemon is. |
| `Schedule` | the pure functions: `build`, `should_retry`, `is_failure`, `backoff_delay`, `next_retry_ts`, `min_next_fire_across`, `should_skip_trigger`, `should_fire_due`, `modify_job` in both stores, `reschedule_task`, `requeue_task` | operators on one row, with u64 arithmetic of `Bits` bits: wrapping and saturating where the code does either. |
| `Pacing` | one task on a clock of seconds: both scans, the gates of `process_one` in their order, the limiter, timers, the end of an execution | `now`, `row`, `waiting` (its id in the list), `timers` (sleeps), `exec` (the snapshot an execution works with), `bucket` (the limiter). `fired`, `lastDue`, `notBefore` are history. |
| `PhpExtension` | casts and clamps of the setters; what each PHP function returns for a reply, or for none | operators |
| `Requests` | the IPC server: connections, permits, handlers in steps, timeouts of both sides | extends `Pacing` and `PhpExtension`: `call[c]` is a connection with its request and its handler's place. |
| `PacingProps` | properties of `Requests` | |
| `DaemonProofs`, `ExecutionProofs`, `SettlementProofs` | proofs about `Daemon` | each extends the one before |
| `OrchestrationProofs`, `DependencyProofs` | proofs about `Orchestration` | the second extends the first |
| `ThreadPoolProofs`, `LifecycleProofs`, `PacingProofs` | proofs about `ThreadPool`, `Lifecycle`, `Pacing` | |
| `MC*` | definitions for the runs | |

The modules are four compositions. `Daemon` composes store, queue, futures, cron
scan and watchdog, with several tasks and abstract time. `Requests` composes the
clients, the IPC server and the same scheduler seen from one task, with concrete
time. `ThreadPool` composes the executors with the pool that drives them and the
start that follows a crash. `Orchestration` and `Lifecycle` stand beside them:
the first sees an execution as one step, the second sees a daemon as a process.

One action is what the code does between two awaits at which another party can
act. The futures' store calls are separate actions, because the row can change
between any two of them. Where two consecutive steps cannot be told apart they
are one action, and the comment at the action says why (`Overlapping`: the
counter and the row it reads are only raised by the same loop). `Dispatch` joins
insert and enqueue: an id in the list before or after its row is visible makes
no difference, since `process_one` drops an id without a row only if nobody
enqueues it afterwards. (`Requests` has them as two steps, because there the
handler may be dropped between them.)

Abstractions:

* Time in `Daemon`. A timestamp in next_fire may be found due by whoever looks
  at it, at any moment; `u64::MAX` never. Timers, timeouts, the expiry, start and
  end dates and the rate limit are choices that may come out either way when the
  task has such a setting. `Pacing` has these on a clock.
* An execution is one of four outcomes: ok, a failure that may be retried, one
  that may not, and an error without a result.
* A task that several triggers were given has the one that takes effect
  (run_at before cron before interval), as `scan_once` decides; `orcron` is a task
  with or_cron expressions and no cron.
* Events, results and metrics are left out of the future, and in `Daemon` so are
  the notifications of chains, groups and chords.
* In `Pacing` each step of `Daemon` that is several store calls is one step, and
  max_instances is 1; crashes, the watchdog, cancels, max_executions and end_date
  are left to `Daemon`. A cron expression is the set of its occurrences in a
  zone, empty when expression or zone cannot be parsed.
* `Executor`: a timeout may strike at any moment after the wait it bounds began;
  a process that gets SIGTERM may ignore it.
* `Lifecycle`: `read_pid` with its removal of a stale file is one step, and a
  daemon that will write its pid file writes it before the ten seconds of
  `start` are over.
* A cron scan that reaches `XHJOB_MAX_CRON_PER_TICK` passes the rest over: in
  `StartScan` any due task may be passed over.
* A worker limit reached by the queue loop is a stop request.

## Runs

Deadlock is checked in `Lifecycle` only: elsewhere a system without work, without
clients' requests or stopped for good rests, and so does a bounded instance.

| Run | Instance | Checks |
|---|---|---|
| `Daemon_gates` | an expiring, late, rate-limited one-shot and a cron task retried without limit; in-memory store; pause and resume | `TypeOK`; `NoTaskLost`: every Pending task that is neither cancelled nor paused is held by a timestamp a scan will find, the list, a timer or a process |
| `Daemon_requeue` | one task, two futures, watchdog; cancel, requeue, remove, re-dispatch | `RunningHasOwner`, `FlagReachesExecutor`, `ConcurrencyCap`, `OverlapBalanced` |
| `Daemon_crash` | two one-shots of different priority, one permit, SQLite; crash, restart, orphans, cancel, stop | `AttemptsWithinBudget`, `SuccessIsFinal`, `QueueByPriority`, `InFlightHoldsPermit` |
| `Daemon_store` | one task; every store call may fail; watchdog; list of two | `ImplementsAdmission`: the daemon refines `Admission` |
| `Daemon_runat` | a run_at task, SQLite; crash, stop, cancel, requeue | `TriggersSurvive`: whenever a daemon is up, something will bring the task to execution |
| `Daemon_live` | a one-shot with a retry and cancels, under fairness | `EverySettles`, `CancelResolves` |
| `Daemon_every` | an interval task, under fairness | `KeepsFiring` |
| `Orchestration` | a chain of three, a group of two, a chord of two headers; two futures; one requeue; cancels; executions that end without their hook | `OrchestrationTypeOK`; `DispatchedOnce`: no step or callback dispatched twice; `DependenciesMet`: none before what it waits for; `RecordTruthful`: a record's end is what the rows show; `ChordEndsOnce`; `ChainSettles` under fairness |
| `ThreadPool` | a command executed twice and a request, one thread; soft and hard timeout, cancel, children that ignore SIGTERM, grandchildren, panics, store errors, a crash and restart | `PoolTypeOK`; `NoSecondChild`: no second process of a task unless its row never had the lease of the first; `NoChildLeft`; `SuccessIsEarned`; `ExecutionEnds`, `JobTaken` |
| `Lifecycle` | two PHP processes, two daemons; slow, failing, hanging, crashing daemons, zombies, a limit | `LifecycleTypeOK`; `SingleDaemon` and `ServingIsFound` for calls that do not overlap; `StopEndsDaemon`, `CallReturns` for all |
| `Pacing` | eight tasks of one id, each with two requests, over one connection permit, four seconds of clock | `PacingTypeOK`; `RateCap`; `RetrySpaced`: no retry before its backoff; `OccurrenceOnce`: a cron occurrence fires once; `AcknowledgedCarried`: a task whose dispatch was acknowledged is never stranded; `ScheduleParses`; `NoSilentOverwrite`; `RequestServed` |
| `Bad_stop` | a watched task and a stop | `StopCompletes`, violated: see Divergences |

Bounds. `Instance` bounds the futures alive at a time: one more than the
concurrency limit of the task wherever the limit is the question. `MaxEntries`
keeps clients and the cron scan from adding ids of a task that already has that
many waiting, and the retry scan from adding when more wait; with 1, two ids of
one task wait at a time, which every race between the list and a future needs.
`U32Max` (u32::MAX) is 2, or 1, so that saturation happens; `RunsMax` bounds
execution_count, which saturates. `MaxPending` is 2 where a full list matters.
Two tasks are enough for what tasks share (the list, the pool, the loop): any
two of them interact the same way, and the rest of a task's state is its own.
The symmetry used in `Daemon_requeue` is over futures only; the liveness runs use
none.

`Orchestration`: with three items a chain has a first, a middle and a last step,
and a group or chord two members that can finish in either order; two futures
let two hooks overlap with each other and with the handler; one requeue gives
one task a second end. `ThreadPool`: one thread, so that a lost one is all
there are; two executions of the command, so that the second can overlap an
orphan of the first. `Lifecycle`: two PHP processes and two daemons, the least
with which a start can replace, race or be replaced; `Limited` is the second
daemon only, since a limit is one more way to end. `Pacing`: `Bits` is 4, so the
largest timestamp is 15 and the sums of the definitions pass it; `BackoffCap` is 3
(60 in the code) and `GraceDefault` 1 (60), so that both are reached within the
`Horizon`; `MaxPending` 2 and `MaxTimers` 2 let the same id wait twice in the
list and twice in timers, and fill the list; each of the two connections
(`MaxCalls`) is used once, the first for a dispatch, so every other request meets
an absent, waiting, running or ended task; `MaxConn` is 1, so that one
connection waits for the other.

Fairness (`Daemon!Fairness`). The loops and the spawned tasks are polled by the
tokio runtime while they can go on: weak fairness of the queue loop inside an
operation, of each future, timer and cancel handler, of the watchdog and of the
shutdown steps. The queue loop's `select!` polls its branches in random order
and each fires again and again, so draining the list and scanning for a due task
are strongly fair; the same holds for the cron loop, which scans every second,
and a timestamp comes due. Nothing is assumed of clients, crashes, stop requests
or the rate limit beyond what a run's definitions allow.

The other specifications with liveness. `Orchestration`: the runtime drives
handler, queue, executions and hooks (weak fairness), and tokio's mutex serves
its waiters in order (strong fairness of acquiring it). `ThreadPool`: threads are
scheduled and timers fire; nobody makes a child or a grandchild end.
`Lifecycle`: PHP processes are scheduled and a spawned daemon writes its pid
file; it may hang anywhere else. `Requests`: tokio's semaphore serves its
waiters in order and the 15 seconds of a handler pass; no handler is assumed to
finish.

## Proofs

For every set of tasks and futures, every definition, bound and choice of
faults, and every clock and number of clients, unless a condition is named:

| Module | Theorem | Property | Condition |
|---|---|---|---|
| `DaemonProofs` | `TypeCorrect` | `TypeOK` | |
| | `OverlapAlwaysBalanced` | `OverlapBalanced` | |
| | `ConcurrencyAlwaysCapped` | `ConcurrencyCap` | |
| | `DaemonImplementsAdmission` | `ImplementsAdmission` | |
| `ExecutionProofs` | `InFlightAlwaysHoldsPermit` | `InFlightHoldsPermit` | |
| | `FlagAlwaysReaches` | `FlagReachesExecutor` | |
| | `QueueAlwaysByPriority` | `QueueByPriority` | |
| `SettlementProofs` | `RunningAlwaysOwned` | `RunningHasOwner` | `StoreHolds`, `Survives` |
| | `NoTaskEverLost` | `NoTaskLost` | `StoreHolds`, `Survives`, `NoSkippedRunAt`; the list never full (`Roomy`) |
| | `TriggersAlwaysSurvive` | `TriggersSurvive` | `StoreHolds`, `NoSkippedRunAt`; no task with or_cron only; `Roomy` |
| | `AttemptsAlwaysWithinBudget` | `AttemptsWithinBudget` | `OneShots` |
| | `SuccessAlwaysFinal` | `SuccessIsFinal` | `OneShots`, no end date (`Endless`) |
| `OrchestrationProofs` | `BuildInvariant` | the inductive invariant | |
| | `OrchestrationTypeCorrect` | `OrchestrationTypeOK` | |
| | `DispatchedAlwaysOnce` | `DispatchedOnce` | |
| | `OneHookAtATime` | mutual exclusion of hooks | |
| | `ChordAlwaysEndsOnce` | `ChordEndsOnce` | |
| `DependencyProofs` | `OrchestrationInvariant` | the inductive invariant | nobody requeues (said in the property) |
| | `DependenciesAlwaysMet` | `DependenciesMet` | nobody requeues (said in the property) |
| | `RecordAlwaysTruthful` | `RecordTruthful` | nobody requeues (said in the property) |
| `ThreadPoolProofs` | `PoolInvariant` | the inductive invariant | |
| | `PoolTypeCorrect` | `PoolTypeOK` | |
| | `NeverSecondChild` | `NoSecondChild` | |
| | `NoChildEverLeft` | `NoChildLeft` | |
| | `SuccessAlwaysEarned` | `SuccessIsEarned` | |
| `LifecycleProofs` | `LifecycleInvariant` | the inductive invariant | |
| | `LifecycleTypeCorrect` | `LifecycleTypeOK` | |
| | `AlwaysSingleDaemon` | `SingleDaemon` | |
| | `ServingAlwaysFound` | `ServingIsFound` | |
| | `StopAlwaysEndsDaemon` | `StopEndsDaemon` | |
| `PacingProofs` | `LimiterInvariant` | the inductive invariant of the limiter | |
| | `RateAlwaysCapped` | `RateCap` | |
| | `PacingTypeCorrect` | `PacingTypeOK` | no request changes retry_max (`RetriesFixed`) |
| | `NeverOverwrittenUnseen` | `NoSilentOverwrite` | |
| | `ScheduleAlwaysParses` | `ScheduleParses` | the task's own zone exists (`ZonesAlike`), and no run_at or countdown hides its expressions from `build` (`CronChecked`) |
| | `FiredOncePerOccurrence` | `OccurrenceOnce` | no jitter carries an occurrence past `u64::MAX` (`JitterFits`) |
| | `AcknowledgedNeverStranded` | `AcknowledgedCarried` | no trigger is taken away or changes the kind of task (`Steadfast`) |
| | `RetriesKeepTheirDistance` | `RetrySpaced` | |

The theorems rest on the assumptions of their modules (`StoreAssumption`,
`QueueAssumption`, `DaemonAssumption`, `OrchestrationAssumption`,
`ExecutorAssumption`, `PoolAssumption`, `LifecycleAssumption`, `PacingAssumption`,
`ScheduleAssumption`, `RequestsAssumption`), which type the constants and say which
sets are finite, and on nothing else. Those of `Pacing` and `Requests` also keep the
clock short of `u64::MAX`, give the list at least one place, and say that tasks and
patches have the fields that the builder and `modify` know.

The conditions on `PacingProofs` are predicates on what a behaviour never changes:
the task as it is defined and what its clients may ask. `Steadfast` says that no
client sets a trigger to null, patches run_at or or_cron, or gives a trigger to a
one-shot that may expire; that or_cron and an interval do not come together; that a
task of run_at or countdown has no skip_dates and its time, and that of its last
retry, is before `u64::MAX`; and that no cron occurrence is at `u64::MAX`. All eight
settings of the `Pacing` run meet the conditions, except that the first, where a task
that expires is given a cron, is not `Steadfast`.

`TypeInv` strengthens `TypeOK` by what the steps need: whoever works on a task
has one, and a slot is free exactly when it has none. `OverlapInv` adds the
balance of the overlap counter and, for the cap, that a dispatch which has passed
the gate (`mark`, `count`) still finds the counter below the limit, and one that
has counted (`spawn`) finds it at most at the limit: between the gate and
`on_start` only the queue loop itself raises the counter, futures only lower it.
The cap follows, because the counter is the number of futures. The refinement
maps the semaphore's value to the number of live futures: `Spawn` is `Start`,
`Finish` is `End`, `Exit` is `Clear` and every other step stutters; the bound at
`Start` is again the invariant. The proof of each preservation lemma has one
step per action.

`InFlightHoldsPermit` is inductive together with the types: only `Start` and
`Finish` move a future into or out of the set that holds permits, and both move
`in_flight` by one; the bound is `Start`'s guard.

`FlagReachesExecutor` rests on `OverlapInv`: futures of one task share one entry
of `cancel_flags`, registration replaces it and the first to end removes it, so
the property holds only because there is no other. `OneLive` derives that from
the balance and the cap: a limit of one leaves the counter at most 1, and the
counter is the number of live futures.

`QueueByPriority` is inductive with the types. The work is in `EnqueueSorts`:
`PushEntries` says entry by entry what the list with one more id is, and each
pair of entries is compared by where it stands to the new one.

`RateCap` is about `fired`, all that passed in the last window seconds, while
the code counts its bucket. `LimiterInv` relates them: when the task is limited,
`fired` is a subset of the bucket and within the window, the bucket's
entries are no later than now, and what the bucket keeps is never more than
the limit. A second that passes only takes from `fired`; a denial drops from the
bucket only what has left the window.

The rest of `PacingProofs` is about `Requests`, where up to `MaxCalls` handlers
stand between two awaits while the clock goes on. `TypesInv` types row, execution
and connections, and has that the permits taken are the connections that hold one.

* `PacingTypeOK` bounds attempts. `AttemptsInv` adds that an execution has an
  attempt left to count and that a row which has none is failed, so no row that is
  under way is, and the increment at the end of an execution stays in the bound.
* `NoSilentOverwrite` relates an insert to the answer a client got before it asked.
  `AuthorInv`: the row and its author are absent together; the request whose answer
  was waited for is closed; and a dispatch that has seen no row will not come upon
  the row of that request, because whoever removed that row removed its author.
* `ScheduleParses` is about a row in SQLite while it is in the zone it came with.
  `ParseInv` says of any such row that its expressions parse in that zone, whichever
  zone it is in now: `build` checked the first ones there, SQLite checks a new one in
  the zone of the row at that time, and `ZonesAlike` carries that over.
* `DueInv`: a row fired for an occurrence waits for a later one of its expressions
  and is not due before it, until a denial or a retry puts something else into
  next_fire. Jitter delays, so the property needs that its addition does not wrap.
* `Claim`: a row whose dispatch was acknowledged is held by the list, a timer or a
  next_fire a scan finds, or, when it is a one-shot, by its execution. `Stands` says
  what makes the steps keep that: the row is of the kind it was defined with, a
  row under way has not ended, and a row that rolls on has a next_fire.
* `RetrySpaced` claims something for tasks without triggers in behaviours with one
  dispatch or modification. `SoleInv`: before that request has written there is
  nothing. `Alone`: afterwards the task is in one place, the list, a timer, an
  execution, a next_fire or the handler between insert and enqueue, and a retry to
  come is in next_fire and not before its time. A task that has outlived its expiry
  may be in two, which no longer matters since every gate refuses it. `DelayIdeal`
  and `RetryIdeal` compare the saturating arithmetic with the delay on paper: it is
  reached, or the retry is at `u64::MAX`.

The other compositions have invariants of their own.

`OwnerInv` adds to the types that only a future of a periodic task is at the
steps `count` and `rest`, and what a daemon that is down leaves behind. The
conditions are those without which the code does lose a row: `StoreHolds` says
that no store call fails, `Survives` that a daemon whose rows outlive it is not
restarted (the start resets such rows, so the property says nothing there).

`CarryInv` is `NoTaskLost` for every task that goes on, whether or not it is
paused, with what the carriers need: a cron row always has a timestamp, and the
retry scan, between its enqueue and its clearing of next_fire, has the id in the
list. `Roomy` is the one condition on behaviours: a refused id is lost
(`queue.rs:130`), and the theorem says that nothing else loses one. A skipped
run_at is left out because it stays Pending with `u64::MAX`. `TriggersSurvive`
follows from the same invariant without `Survives`, because the start carries
what the crash dropped; a task with or_cron only is excluded, because after a
crash between the retry scan's clearing and the execution nothing holds it.

`PlaceInv` says where the id of a one-shot is: in the list, in a timer, in the
queue loop's hands, in a future, under a next_fire still to be found, or nowhere,
and never in two of these. Every step moves it or takes it away; only a dispatch
brings it in. `OneShots` excludes what does put an id in two places: triggers, a
requeue, a removal followed by a dispatch, the watchdog, which makes a row
Interrupted while its future runs on, and failing writes. `BudgetInv` adds that
whoever has the id has read no more attempts than the budget allows: without one
place two futures could each write a count from an old snapshot. `DoneInv` says
that a success is in no place but the end of its own future; `Endless` is needed
because the cron scan turns a task past its end date to Success while its id
still waits or has just been loaded, and `process_one` may then mark it Running.

`BuildInv` counts insertions. The mutex gives `OneHookAtATime`; what the holder
has read is then still what the record says, except that `mark_failed` takes no
mutex and may have closed the chain meanwhile. Steps beyond the record's have not
been built, and a callback is built between the two writes that close a chord.
`FreshInv`, for the time before any requeue, adds that each item has one id and
one execution, that the counts a hook made are what the rows still show (rows
that succeeded stay so), and that a chain does one thing at a time (`ChainAlone`):
`DependenciesMet` and `RecordTruthful` are conjuncts of it.

`PoolInv`: one execution of a task at most is in the channel or on a thread and
its row is Running (`Working`); one that waits for its process has written its
lease, or its task is in `gap`, the tasks whose lease could not be written; a
process lost in a crash keeps its row Running by that lease (`Orphaned`), so the
next start does not execute the task again. `NoSecondChild` combines the three.

`LifecycleInv`: as long as calls do not overlap, a daemon at work is the one the
pid file names, or it has just been spawned and the client that spawned it still
waits for it; whoever stops one stops that one. `StopEndsDaemon` needs only that
the target of a waiting client exists and holds in all behaviours.

The attempts to prove showed CASE arms that overlapped (in `Terminate`,
`Outcome`, `Summary` and `FirstFires`): where two arms hold, TLA+ leaves open
which is taken. TLC takes the first, as the code does, so no run could tell. The
arms exclude each other now.

Every invariant and action property of the passing runs is stated by a theorem
and so is the refinement. Model-checked only are `AcknowledgedCarried` for the first
setting of `Pacing` (the other instances meet the conditions of their theorems) and
everything under fairness (`EverySettles`, `CancelResolves`, `KeepsFiring`,
`ChainSettles`, `ExecutionEnds`, `JobTaken`, `CallReturns`, `RequestServed`), since
liveness and ENABLED are out of the prover's reach. Where the conditions of
`PacingProofs` do not hold the properties can fail, for reasons given under
Divergences.

## Divergences

Where the code does something else than its documentation, a comment or a test
says. One is checked by a run:

| Run | Statement | What happens |
|---|---|---|
| `Bad_stop` | `scheduler/watchdog.rs:95`: the handle completes shortly after `stop` | a watchdog inside `scan_once` misses `notify_waiters`, and `run_daemon` awaits it for ever |

Four more are stated in `DaemonProps` and known not to hold. To see the
counterexample, name the definition in the `.cfg` given:

| Definition | Statement | What happens | Add to |
|---|---|---|---|
| `CancelledStays` | `docs/api-functions.md:488`: a cancelled Pending task is not triggered any more | `process_one` marks it Running from the load before the cancel (`queue.rs:312`) | `Daemon_live.cfg`, PROPERTY |
| `WatchdogSparesTerminal` | `scheduler/watchdog.rs:163`: never overwrite a terminal state with Interrupted | the future settles the row between the reload and the write | `Daemon_store.cfg`, PROPERTY |
| `TasksSurviveRestart` | `docs/persistence-recovery.md:20`: a restart recovers every unfinished task | a Pending one-shot has no next_fire; it was only in the list | `Daemon_crash.cfg`, INVARIANT |
| `RunAtOnce` | `docs/triggers.md:158`: run_at fires once | both scans enqueue it; the second id, loaded while the first execution ran, passes the gate after its success | `Daemon_runat.cfg` without "requeue", PROPERTY |

The others were met while modelling and are visible in the modules.

Execution and cancellation (`Daemon`):

* A cancel after the future has read cancel_requested (`queue.rs:405`) does not
  prevent the retry, against `daemon_main.rs:812`; the retry is cancelled at its
  end, which is what `CancelResolves` says. A cancel between the Running mark and
  the registration of the flag signals nobody (`queue.rs:343`), against
  `daemon_main.rs:813`.
* Instances of one task share one flag entry, against the comment at
  `queue.rs:86`; in_flight counts started, not spawned futures, against
  `queue.rs:42`.
* A one-shot refused by a full list is never found by `scan_retries`, against
  `queue.rs:127`; nor is one whose load failed after it was drained
  (`queue.rs:161`), or whose retry lost its next_fire to a crash or a store error
  (`retry/mod.rs:227`).
* `scan_retries` clears the next_fire of a task with or_cron only when it enqueues
  it; a crash before its execution forgets it, against
  `docs/persistence-recovery.md:20`.
* A failed execution writes its attempts over a requeue's reset
  (`docs/api-functions.md:518`), and a success can be requeued
  (`docs/api-functions.md:513`; `lib.rs` and `daemon_main.rs` name only Failed,
  Cancelled and Expired). A periodic task's attempts are not reset when it
  succeeds.
* max_executions is compared after an execution ends, so overlapping instances
  exceed it (`docs/concurrency.md:306`).
* A task with or_cron only turns Success after one execution
  (`docs/triggers.md:262`).
* `scan_retries` and `process_one` do not look at paused
  (`docs/api-functions.md:439`).
* `scan_once` writes Expired over a row that is Running by then
  (`scheduler/cron.rs:334`).
* Every Running row is reset at start-up, whatever acks_late says
  (`daemon_main.rs:208`).

Chains, groups and chords (`Orchestration`):

* Executions that end by a cancel, by an interruption, by an error of dispatch or
  by expiry return before the hook (`queue.rs:412`), so the chain, group or
  chord stays running. `ChainSettles` is about the others.
* Two refreshes of a group interleave: the one that counted first may write last,
  and running then stays over success (`scheduler/group.rs:81`).
* A chord whose headers all end before its record is created is not refreshed
  again and stays pending.
* A store error between the insertion of the callback and its recording lets
  the next refresh insert another callback; the run has no store errors.
* `mark_failed` takes no mutex, so an `advance` under way may overwrite it.

Executors and thread pool (`Executor`, `ThreadPool`):

* The comment at `executor/shell.rs:432` says that kill_on_drop also covers a
  daemon that is killed and that grandchildren do not survive a timeout. A
  SIGKILLed daemon drops nothing, and the hard timeout kills the leader of the
  group only.
* A row left Running because its orphan lives at the next start stays Running
  when the orphan ends. Only the pid of the last of several instances is recorded.
* A cancel seen after the child ended with 0 still makes the execution cancelled.
  An output encoding the code does not know makes an execution that ended with 0
  an error.
* A panicking job leaves its row Running until the next start; the release
  profile aborts on panic, so there the daemon ends instead. Jobs that wait in
  the channel are not in flight, so a drain does not wait for them.
* `Drop` of the thread pool sends one shutdown message and joins every worker, so
  with two or more it would hang. Nothing drops the static pool.

The process (`Lifecycle`):

* Starts that overlap create two daemons on one store (`docs/architecture.md:67`
  says one per service). A zombie counts as alive (`docs/troubleshooting.md:128`),
  so `start` finds a daemon that is not there while its PHP parent lives.
* A start during the drain of the old daemon returns true, and then there is none.
* A stop that overlaps a start removes the files of the new daemon, and so does
  the exit of an old one: neither looks at whose they are.
* A SIGTERM before the handler is installed ends the process at once. The
  SIGKILL follows the last look at the process by up to 100 ms. Without a start
  time in the pid file there is no SIGKILL.

Triggers and pacing (`Schedule`, `Pacing`):

* The comment in `handle_dispatch` says a cron or interval task that is enqueued
  at dispatch is stopped by a check of next_fire in `process_one`; there is none,
  and it executes at once.
* A run_at task with an interval or cron is executed at once too, and its row
  stays Pending with `u64::MAX` for ever once scan_once has fired it. A run_at
  that skip_dates leaves out does the same.
* A cron row rolls on from now + 1, strictly after, so an expression that matches
  every second fires every other one. After a denial by the rate limiter, or a
  retry, next_fire is no time of the expression; `OccurrenceOnce` begins again
  at the next roll-forward.
* A denied periodic task is brought back by its timer and by next_fire. A token is
  spent even when overlap then refuses the task (`rate_limit.rs:44`). A final
  failure by an error of dispatch leaves the bucket in memory.
* An interval near `u64::MAX` wraps in the scan and then fires every second. A
  run_at, or the saturated retry of a run_at task, at `u64::MAX` means never.
* A task with a run_at and a cron expression passes `build` without a look at the
  expression, and is fired at run_at; if a `modify` clears run_at before, next_fire
  is still that moment.
* A task with or_cron and an interval but no cron ends: `scan_retries` clears its
  next_fire, and the execution puts it back to Pending with nothing to fire it.
* `rand_jitter` draws below secs, where the documentation includes secs.

Changes and requests (`Schedule`, `Requests`, `PhpExtension`):

* `modify` with an expression or zone that cannot be parsed: the in-memory store
  answers with an error and keeps the value, and a one-shot becomes a periodic
  task that never comes due. SQLite refuses the expression, but takes a zone
  alone and answers true; the roll-forward then fails and the task fires every
  second. A zone alone or a cleared trigger leaves the old next_fire, and a
  partial patch computes next_fire from the patched triggers only.
* `modify` looks at no execution under way. A cron or interval cleared while the
  task runs leaves it Pending when it ends, held by nothing. A one-shot that
  expires, is given a cron and dispatched anew while it runs is Expired, then put
  back to Pending by the old execution, held by nothing until the next scan expires
  it again. A lower retry_max leaves attempts above the budget.
* A client is told of an error after five seconds although the change was
  made. A dispatch dropped between insert and enqueue strands a one-shot, which is
  why `AcknowledgedCarried` is about acknowledged ones.
* Two dispatches of one id that overlap both pass the conflict check, and the
  later insert wins; a store error in the check counts as no conflict.
* replace_existing while the old task runs: the old future settles the new row,
  and an old id in the list makes the new task's retry come without its delay.
* `with_retry`, `timeout` and `max_instances` wrap negative numbers
  (`lib.rs:1183`); `report_progress` casts before it compares with 100, so 256 is
  taken as 0.
* `xhjob_state`, `xhjob_result` and `Xhjob::dispatch` do not go through
  `ipc_request`, though the comment at `lib.rs:70` says every entry point does.
* The functions that return a bool give false for a refusal, an error and silence
  alike. The ownership check compares with the daemon's own environment.

## Not modelled

* Results, events, progress, inspection, statistics and metrics: they are
  written and read, and no decision of the scheduler depends on them, except that
  an execution is judged by the result stored under its task id, which is
  another instance's when max_instances is above 1 (`queue.rs:386`).
* The text of frames, requests, commands, headers and proxies; size limits of
  frames; Windows (named pipe, `daemon/windows.rs`); encryption, configuration
  and its limits, migrations of the database.
* Cron expressions and calendars: libraries, seen as sets of occurrences.
* The shutdown of the thread pool, which nothing calls.
* `daemon/`: the search for the PHP binary and for directories that can be written.
* Crashes in the middle of `Orchestration` and of `Requests`: the records live in
  the store and nothing at start-up reads them; connections die with the daemon.
* Several tasks on one clock, and max_instances above 1 in `Pacing`: `Daemon` has
  both on abstract time.

## Plan

1. Core: store, queue, futures, cron scan, daemon, first theorems. Done.
2. `Orchestration`, `Executor`, `ThreadPool`, `Lifecycle`. Done.
3. `Schedule`, `Pacing`, `Requests`, `PhpExtension`. Done.
4. Proofs: permits, flags, order of the list, rate cap. Done.
5. Proofs: `SettlementProofs`, `OrchestrationProofs`, `DependencyProofs`,
   `ThreadPoolProofs`, `LifecycleProofs`. Done.
6. Proofs: `PacingProofs`. Done.
7. Left: `OneShots` without its condition on requests, for which a requeued id must
   be followed by the future it overtakes; liveness, which stays with TLC.
