------------------------------- MODULE Daemon -------------------------------
(***************************************************************************)
(* The daemon process: the queue loop and its task futures, the cron loop, *)
(* the timers that enqueue ids, the IPC handlers, the watchdog, graceful   *)
(* shutdown, crash and restart.                                            *)
(***************************************************************************)
EXTENDS CronScan

CONSTANTS
  Requests,    \* what clients do, besides dispatching: see DaemonAssumption
  MaxEntries,  \* bound: clients and the cron loop act while fewer of a task's
               \* ids wait, the retry scan while no more do
  Watching     \* TRUE: XHJOB_WATCHDOG_INTERVAL > 0

ASSUME DaemonAssumption ==
  /\ Requests \subseteq {"cancel", "requeue", "remove", "pause", "stop"}
  /\ MaxEntries \in Nat
  /\ Watching \in BOOLEAN

VARIABLES
  phase,       \* up, draining (stop requested), exiting, down
  wd,          \* the watchdog loop
  signalling,  \* cancel handlers between cancel_task and signal_cancel
  orphan       \* tasks whose leased child process outlived the daemon

daemonVars == <<phase, wd, signalling, orphan, cron>>
vars == <<row, queueVars, daemonVars>>

WdWait == [pc |-> "wait", task |-> None, todo |-> {}]
WdStart == IF Watching THEN WdWait ELSE [WdWait EXCEPT !.pc = "stopped"]

Init ==
  /\ StoreInit
  /\ QueueInit
  /\ phase = "up"
  /\ wd = WdStart
  /\ signalling = {}
  /\ orphan = {}
  /\ cron = CronIdle

-----------------------------------------------------------------------------
(* IPC handlers                                                            *)

Waiting(t) == delayed[t] + Cardinality({j \in 1..Len(queue) : queue[j] = t})

(* insert_task, then enqueue, unless run_at lies ahead; when the queue is  *)
(* full the client gets the error and the row stays.  replace_existing     *)
(* deletes the old row first: Remove, then Dispatch.                       *)
Dispatch(t) ==
  /\ phase = "up"
  /\ Waiting(t) < MaxEntries
  /\ InsertTask(t)
  /\ \/ Enqueue(t)
     \/ Def[t].kind = "runat" /\ UNCHANGED queue
  /\ UNCHANGED <<delayed, disp, inst, overlap, inFlight, flags, killed, daemonVars>>

Cancel(t) ==
  /\ phase = "up" /\ "cancel" \in Requests
  /\ CancelTask(t)
  /\ signalling' = signalling \cup {t}
  /\ UNCHANGED <<queueVars, phase, wd, orphan, cron>>

(* signal_cancel: set the registered flag, if there is one.                *)
SignalCancel(t) == killed' = killed \cup ({flags[t]} \ {None})

CancelSignal(t) ==
  /\ t \in signalling
  /\ SignalCancel(t)
  /\ signalling' = signalling \ {t}
  /\ UNCHANGED <<row, queue, delayed, disp, inst, overlap, inFlight, flags,
                 phase, wd, orphan, cron>>

Requeue(t) ==
  /\ phase = "up" /\ "requeue" \in Requests
  /\ Waiting(t) < MaxEntries
  /\ RequeueTask(t)
  /\ UNCHANGED <<queueVars, daemonVars>>

Remove(t) ==
  /\ phase = "up" /\ "remove" \in Requests
  /\ RemoveTask(t)
  /\ UNCHANGED <<queueVars, daemonVars>>

(* Pause and resume.                                                       *)
Pause(t) ==
  /\ phase = "up" /\ "pause" \in Requests
  /\ SetPaused(t, ~row[t].paused)
  /\ UNCHANGED <<queueVars, daemonVars>>

-----------------------------------------------------------------------------
(* Background loops                                                        *)

(* Once a stop is requested the loop ends at one of its next selects, never*)
(* inside process_one; nobody waits for it to end.                         *)
QueueLoop ==
  /\ phase # "down"
  /\ \/ ProcessOne
     \/ ScanRetries /\ \A t \in disp'.todo : Waiting(t) <= MaxEntries
     \/ \E t \in Task : ScanEnqueue(t)
     \/ ScanClear
     \/ phase # "up" /\ LoopEnds
  /\ UNCHANGED daemonVars

Timer(t) == ReEnqueue(t) /\ UNCHANGED daemonVars

Future(i) == FutureStep(i) /\ UNCHANGED daemonVars

(* The cron loop ends its scan before it notices a stop request.           *)
CronLoop ==
  /\ \/ /\ phase = "up" /\ StartScan
        /\ \A t \in Task : cron'.plan[t] = "fire" => Waiting(t) < MaxEntries
     \/ phase # "down" /\ CronStep
  /\ UNCHANGED <<phase, wd, signalling, orphan>>

-----------------------------------------------------------------------------
(* The watchdog: scan_once works through a snapshot of overdue tasks.      *)

wdRest == <<queue, delayed, disp, inst, overlap, inFlight, flags,
            phase, signalling, orphan, cron>>

WatchdogScan ==
  /\ phase # "down" /\ wd.pc = "wait"
  /\ \E overdue \in SUBSET {t \in Task : row[t].state = "running" /\ Def[t].timed} :
       wd' = [wd EXCEPT !.pc = "scan", !.todo = overdue]
  /\ UNCHANGED <<row, killed, wdRest>>

WatchdogSignal(t) ==
  /\ wd.pc = "scan" /\ t \in wd.todo
  /\ SignalCancel(t)
  /\ wd' = [pc |-> "reload", task |-> t, todo |-> wd.todo \ {t}]
  /\ UNCHANGED <<row, wdRest>>

WatchdogReload ==
  /\ wd.pc = "reload"
  /\ \/ row[wd.task].state = "running" /\ wd' = [wd EXCEPT !.pc = "write"]
     \/ row[wd.task].state # "running" /\ wd' = [wd EXCEPT !.pc = "scan", !.task = None]
     \/ "store" \in Faults /\ wd' = WdWait
  /\ UNCHANGED <<row, killed, wdRest>>

WatchdogWrite ==
  /\ wd.pc = "write"
  /\ UpdateState(wd.task, "interrupted") \/ WriteFails
  /\ wd' = [wd EXCEPT !.pc = "scan", !.task = None]
  /\ UNCHANGED <<killed, wdRest>>

WatchdogDone ==
  /\ wd.pc = "scan" /\ wd.todo = {}
  /\ wd' = WdWait
  /\ UNCHANGED <<row, killed, wdRest>>

Watchdog ==
  \/ WatchdogScan \/ WatchdogReload \/ WatchdogWrite \/ WatchdogDone
  \/ \E t \in Task : WatchdogSignal(t)

-----------------------------------------------------------------------------
(* Shutdown, crash and restart                                             *)

(* watchdog.stop() wakes only a watchdog that is waiting: notify_waiters   *)
(* stores no permit for one that is inside scan_once.                      *)
Stop ==
  /\ phase = "up" /\ "stop" \in Requests
  /\ phase' = "draining"
  /\ wd' = IF wd.pc = "wait" THEN [wd EXCEPT !.pc = "stopped"] ELSE wd
  /\ UNCHANGED <<row, queueVars, signalling, orphan, cron>>

(* The watchdog's handle has been awaited, and wait_for_idle returned: the *)
(* futures in flight are done or the drain deadline has passed.            *)
EndDrain ==
  /\ phase = "draining" /\ wd.pc = "stopped"
  /\ phase' = "exiting"
  /\ MarkRunningAsInterrupted \/ WriteFails
  /\ UNCHANGED <<queueVars, wd, signalling, orphan, cron>>

Executing(t) == \E i \in Live(t) : inst[i].pc = "exec"

(* The process ends.  All memory is lost; children of running executors,   *)
(* each in a process group of its own, may survive.                        *)
Exit ==
  /\ phase = "exiting" \/ (phase # "down" /\ "crash" \in Faults)
  /\ phase' = "down"
  /\ orphan' \in SUBSET (orphan \cup {t \in Task : Executing(t)})
  /\ queue' = <<>> /\ delayed' = [t \in Task |-> 0]
  /\ disp' = IdleDisp /\ inst' = [i \in Instance |-> FreeInst]
  /\ overlap' = [t \in Task |-> 0] /\ inFlight' = 0
  /\ flags' = [t \in Task |-> None] /\ killed' = {}
  /\ wd' = WdStart /\ signalling' = {} /\ cron' = CronIdle
  /\ row' = IF Sqlite THEN row ELSE [t \in Task |-> Absent]

(* Two passes over the table, each of which may fail.                      *)
Restart ==
  /\ phase = "down"
  /\ phase' = "up"
  /\ LET reset == IF Sqlite THEN ResetRunningToPending(orphan) ELSE row
     IN \/ row' = RearmStuckRunAt(reset)
        \/ "store" \in Faults /\ row' \in {RearmStuckRunAt(row), reset, row}
  /\ UNCHANGED <<queueVars, wd, signalling, orphan, cron>>

OrphanExit(t) ==
  /\ t \in orphan
  /\ orphan' = orphan \ {t}
  /\ UNCHANGED <<row, queueVars, phase, wd, signalling, cron>>

-----------------------------------------------------------------------------
Next ==
  \/ QueueLoop \/ CronLoop \/ Watchdog \/ Stop \/ EndDrain \/ Exit \/ Restart
  \/ \E t \in Task : \/ Dispatch(t) \/ Cancel(t) \/ CancelSignal(t)
                     \/ Requeue(t) \/ Remove(t) \/ Pause(t) \/ Timer(t)
                     \/ OrphanExit(t)
  \/ \E i \in Instance : Future(i)

Spec == Init /\ [][Next]_vars

(* Every loop and every spawned task is polled while it can go on.  The    *)
(* two branches of the queue loop's select are polled in random order, so  *)
(* neither is passed over for ever; a timestamp in next_fire comes due.    *)
(* The cron loop scans every second.  Clients, crashes and stop requests   *)
(* owe nothing.                                                            *)
Busy == ~At("idle") /\ QueueLoop
Picks(t) == QueueLoop /\ At("idle") /\ t \in disp'.todo
Fires(t) == CronLoop /\ cron = CronIdle /\ cron'.plan[t] = "fire"

Fairness ==
  /\ WF_vars(Busy)
  /\ SF_vars(Drain /\ UNCHANGED daemonVars)
  /\ WF_vars(cron # CronIdle /\ CronLoop)
  /\ \A t \in Task : SF_vars(Picks(t)) /\ SF_vars(Fires(t)) /\ WF_vars(Timer(t))
                     /\ WF_vars(CancelSignal(t)) /\ WF_vars(OrphanExit(t))
  /\ \A i \in Instance : WF_vars(Future(i))
  /\ WF_vars(Watchdog)
  /\ WF_vars(EndDrain) /\ WF_vars(phase = "exiting" /\ Exit)

FairSpec == Spec /\ Fairness
=============================================================================
