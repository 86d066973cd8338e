------------------------------ MODULE Lifecycle ------------------------------
(***************************************************************************)
(* The life of daemon processes of one service: PHP processes that call    *)
(* xhjob_start, stop, restart and status, the daemons they spawn, and the  *)
(* two files through which they know of each other, pid file and socket.   *)
(*                                                                         *)
(* A daemon is identified by pid and starttime.  read_pid is one step, its *)
(* removal of a stale file included.  A dead daemon whose parent still     *)
(* runs is a zombie: nobody waits for it, and kill(pid, 0) finds it.       *)
(***************************************************************************)
EXTENDS Integers, FiniteSets

CONSTANTS
  Client,   \* PHP processes
  Spawns,   \* bound: daemons ever spawned
  Limited,  \* the daemons that reach a limit of tasks or memory
  None

ASSUME LifecycleAssumption ==
  /\ Spawns \in Nat /\ Limited \subseteq 1..Spawns
  /\ None \notin Client \cup (1..Spawns)

VARIABLES
  serial,   \* the PHP processes call one at a time
  daemon,   \* state of each daemon process
  parent,   \* who spawned it, as long as that process runs
  term,     \* daemons that have a SIGTERM to handle
  pidfile,  \* the daemon the pid file names, or None
  socket,   \* the daemon that bound the socket path, or None
  call      \* what each PHP process is doing

files == <<pidfile, socket>>
vars == <<serial, daemon, parent, term, files, call>>

Process == 1..Spawns
Unprepared == {"spawned", "written"}   \* the signal handler is not installed
Starting == Unprepared \cup {"ready"}
Live == Starting \cup {"serving", "draining", "leaving"}
DaemonState == Live \cup {"none", "zombie", "dead"}

Idle == [pc |-> "idle", target |-> None, again |-> FALSE]
Call == [pc : {"idle", "fast", "spawn", "watch", "poll", "stop", "term", "await", "status"},
         target : Process \cup {None}, again : BOOLEAN]

Init ==
  /\ serial \in BOOLEAN
  /\ daemon = [d \in Process |-> "none"]
  /\ parent = [d \in Process |-> None]
  /\ term = {}
  /\ pidfile = None /\ socket = None
  /\ call = [c \in Client |-> Idle]

At(c, pc) == call[c].pc = pc
Goto(c, pc, d) == call' = [call EXCEPT ![c].pc = pc, ![c].target = d]

(* is_process_alive_with_starttime                                         *)
Found(d) == d # None /\ daemon[d] \in Live \cup {"zombie"}

(* read_pid yields the daemon the pid file names if it is found, else None *)
(* and no file stays.                                                      *)
ReadPid(d) ==
  /\ d = IF Found(pidfile) THEN pidfile ELSE None
  /\ pidfile' = d
  /\ UNCHANGED socket

(* remove_pid_file: whatever daemon the files belong to.                   *)
RemoveFiles == pidfile' = None /\ socket' = None

(* A listener accepts connections, or at least lets them wait, until its   *)
(* daemon returns from run_daemon.                                         *)
SocketReady == socket # None /\ daemon[socket] \in {"serving", "draining"}

IsNext(n) == {d \in Process : daemon[d] = "none"} = n..Spawns
Become(d, s) == daemon' = [daemon EXCEPT ![d] = s]
DeadState(d) == IF parent[d] = None THEN "dead" ELSE "zombie"

-----------------------------------------------------------------------------
(* xhjob_start                                                             *)

Begin(c, pc, again) ==
  /\ At(c, "idle")
  /\ serial => \A x \in Client : At(x, "idle")
  /\ call' = [call EXCEPT ![c] = [Idle EXCEPT !.pc = pc, !.again = again]]
  /\ UNCHANGED <<serial, daemon, parent, term, files>>

CallSome(c) ==
  \/ Begin(c, "fast", FALSE) \/ Begin(c, "status", FALSE)
  \/ \E again \in BOOLEAN : Begin(c, "stop", again)

Return(c) == call' = [call EXCEPT ![c] = Idle]

(* A daemon found that also listens is taken as it is.                     *)
StartFast(c) ==
  /\ At(c, "fast")
  /\ \E d \in Process \cup {None} :
       /\ ReadPid(d)
       /\ IF d # None /\ SocketReady THEN Return(c) ELSE Goto(c, "spawn", None)
  /\ UNCHANGED <<serial, daemon, parent, term>>

(* A slip to detect: spawn_daemon without its own look at the pid file.    *)
SpawnAnyway(c) ==
  /\ At(c, "spawn")
  /\ \/ \E n \in Process :
          /\ IsNext(n)
          /\ Become(n, "spawned")
          /\ parent' = [parent EXCEPT ![n] = c]
          /\ Goto(c, "watch", n)
     \/ Return(c) /\ UNCHANGED <<daemon, parent>>
  /\ UNCHANGED <<serial, term, files>>

(* Whatever is found, listening or not, is DaemonAlreadyRunning; the       *)
(* process may fail to be created.                                         *)
StartSpawn(c) ==
  /\ At(c, "spawn")
  /\ \E d \in Process \cup {None} :
       /\ ReadPid(d)
       /\ \/ \E n \in Process :
               /\ d = None /\ IsNext(n)
               /\ Become(n, "spawned")
               /\ parent' = [parent EXCEPT ![n] = c]
               /\ Goto(c, "watch", n)
          \/ Return(c) /\ UNCHANGED <<daemon, parent>>
  /\ UNCHANGED <<serial, term>>

(* check_child_alive: a child that ends within 500 ms is reaped and is an  *)
(* error, one that does not is left to itself.                             *)
StartWatch(c) ==
  /\ At(c, "watch")
  /\ IF daemon[call[c].target] = "zombie"
     THEN /\ Become(call[c].target, "dead") /\ Return(c)
          /\ parent' = [parent EXCEPT ![call[c].target] = None]
     ELSE Goto(c, "poll", call[c].target) /\ UNCHANGED <<daemon, parent>>
  /\ UNCHANGED <<serial, term, files>>

(* Every 100 ms, 100 times.  A daemon has written its pid file by then:    *)
(* it is the first thing it does.                                          *)
StartPoll(c) ==
  /\ At(c, "poll")
  /\ \E d \in Process \cup {None} :
       /\ ReadPid(d)
       /\ (d # None /\ SocketReady) \/ daemon[call[c].target] # "spawned"
  /\ Return(c)
  /\ UNCHANGED <<serial, daemon, parent, term>>

-----------------------------------------------------------------------------
(* xhjob_stop, restart and status                                          *)

(* restart goes on with start, whatever stop returned.                     *)
AfterStop(c) ==
  call' = [call EXCEPT ![c] = IF @.again THEN [Idle EXCEPT !.pc = "fast"] ELSE Idle]

StopRead(c) ==
  /\ At(c, "stop")
  /\ \/ Found(pidfile) /\ Goto(c, "term", pidfile) /\ UNCHANGED files
     \/ ~Found(pidfile) /\ AfterStop(c) /\ RemoveFiles
  /\ UNCHANGED <<serial, daemon, parent, term>>

(* A slip to detect: a SIGTERM is kept for a process that has ended.       *)
TerminateAny(d) == term' = term \cup {d} /\ UNCHANGED daemon

(* Without a handler SIGTERM ends the process; a zombie does not notice.   *)
Terminate(d) ==
  CASE daemon[d] \in Unprepared        -> Become(d, DeadState(d)) /\ UNCHANGED term
    [] daemon[d] \in Live \ Unprepared -> term' = term \cup {d} /\ UNCHANGED daemon
    [] daemon[d] \notin Live           -> UNCHANGED <<daemon, term>>

StopTerm(c) ==
  /\ At(c, "term")
  /\ IF Found(call[c].target)
     THEN Terminate(call[c].target) /\ Goto(c, "await", call[c].target) /\ UNCHANGED files
     ELSE AfterStop(c) /\ RemoveFiles /\ UNCHANGED <<daemon, term>>
  /\ UNCHANGED <<serial, parent>>

(* A slip to detect: stop does not wait for the exit.                      *)
StopAtOnce(c) ==
  /\ At(c, "await")
  /\ AfterStop(c) /\ RemoveFiles
  /\ UNCHANGED <<serial, daemon, parent, term>>

StopAwait(c) ==
  /\ At(c, "await") /\ ~Found(call[c].target)
  /\ AfterStop(c) /\ RemoveFiles
  /\ UNCHANGED <<serial, daemon, parent, term>>

(* A slip to detect: no SIGKILL when the wait is over.                     *)
WaitOn(c) == At(c, "await") /\ UNCHANGED vars

(* After max(10, drain + 5) seconds; with a recorded starttime, as every   *)
(* pid file on Linux has it.                                               *)
StopKill(c) ==
  /\ At(c, "await") /\ Found(call[c].target)
  /\ daemon' = [daemon EXCEPT ![call[c].target] = DeadState(call[c].target)]
  /\ term' = term \ {call[c].target}
  /\ AfterStop(c) /\ RemoveFiles
  /\ UNCHANGED <<serial, parent>>

Status(c) ==
  /\ At(c, "status")
  /\ \E d \in Process \cup {None} : ReadPid(d)
  /\ Return(c)
  /\ UNCHANGED <<serial, daemon, parent, term>>

(* A PHP process ends; init reaps the zombies it leaves.                   *)
Leave(c) ==
  /\ At(c, "idle")
  /\ parent' = [d \in Process |-> IF parent[d] = c THEN None ELSE parent[d]]
  /\ daemon' = [d \in Process |-> IF parent[d] = c /\ daemon[d] = "zombie" THEN "dead"
                                                                     ELSE daemon[d]]
  /\ UNCHANGED <<serial, term, files, call>>

-----------------------------------------------------------------------------
(* The daemon: pid file first, then the signal handler, then the socket,   *)
(* whose path it takes over from whoever had it.                           *)

WritePid(d) ==
  /\ daemon[d] = "spawned" /\ Become(d, "written")
  /\ pidfile' = d
  /\ UNCHANGED <<serial, parent, term, socket, call>>

InstallHandler(d) ==
  /\ daemon[d] = "written" /\ Become(d, "ready")
  /\ UNCHANGED <<serial, parent, term, files, call>>

(* A slip to detect: the path is not unlinked first, so it stays taken.    *)
BindOver(d) ==
  /\ daemon[d] = "ready" /\ Become(d, "serving")
  /\ socket' = IF socket = None THEN d ELSE socket
  /\ UNCHANGED <<serial, parent, term, pidfile, call>>

Bind(d) ==
  /\ daemon[d] = "ready" /\ Become(d, "serving")
  /\ socket' = d
  /\ UNCHANGED <<serial, parent, term, pidfile, call>>

(* A SIGTERM, or a limit of tasks or memory, ends the accept loop.         *)
EndServing(d) ==
  /\ daemon[d] = "serving" /\ d \in term \cup Limited
  /\ Become(d, "draining")
  /\ UNCHANGED <<serial, parent, term, files, call>>

(* daemon_stopping: after the drain, or when start-up failed.              *)
DaemonStopping(d) ==
  /\ daemon[d] \in {"written", "ready", "draining"} /\ Become(d, "leaving")
  /\ RemoveFiles
  /\ UNCHANGED <<serial, parent, term, call>>

(* The exit at the end, or a crash before it.                              *)
Die(d) ==
  /\ daemon[d] \in Live /\ Become(d, DeadState(d))
  /\ term' = term \ {d}
  /\ UNCHANGED <<serial, parent, files, call>>

-----------------------------------------------------------------------------
ClientStep(c) ==
  \/ StartFast(c) \/ StartSpawn(c) \/ StartWatch(c) \/ StartPoll(c)
  \/ StopRead(c) \/ StopTerm(c) \/ StopAwait(c) \/ StopKill(c) \/ Status(c)

DaemonStep(d) ==
  \/ WritePid(d) \/ InstallHandler(d) \/ Bind(d)
  \/ EndServing(d) \/ DaemonStopping(d) \/ Die(d)

Next ==
  \/ \E c \in Client : CallSome(c) \/ ClientStep(c) \/ Leave(c)
  \/ \E d \in Process : DaemonStep(d)

(* PHP processes are scheduled and a daemon writes its pid file; nothing   *)
(* else is asked of a daemon, which may hang wherever it is.               *)
Fairness ==
  /\ \A c \in Client : WF_vars(ClientStep(c))
  /\ \A d \in Process : WF_vars(WritePid(d))

Spec == Init /\ [][Next]_vars /\ Fairness
=============================================================================
