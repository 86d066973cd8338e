------------------------------ MODULE Executor ------------------------------
(***************************************************************************)
(* The executors: for a shell task the child process, its lease in the     *)
(* store, soft and hard timeouts, the polled cancel flag, SIGTERM to the   *)
(* process group, SIGKILL to its leader, and the drain of pipes that a     *)
(* grandchild may hold open; for an HTTP task the request.                 *)
(*                                                                         *)
(* An execution <<t, n>> is the n-th of task t.  A timeout may come at any *)
(* moment after the wait it bounds began.                                  *)
(***************************************************************************)
EXTENDS Integers, Sequences, FiniteSets

CONSTANTS
  Task,
  Kind,   \* task -> shell or http
  Runs,   \* bound: task -> how many executions
  Defs,   \* what a task may be defined as: values of def
  Faults  \* which faults may happen: a subset of {"crash", "store", "panic"}

ASSUME ExecutorAssumption ==
  /\ Kind \in [Task -> {"shell", "http"}]
  /\ Runs \in [Task -> Nat]
  /\ Defs \subseteq [soft : BOOLEAN, decodes : BOOLEAN]
  /\ Faults \subseteq {"crash", "store", "panic"}

VARIABLES
  def,    \* soft: 0 < soft_timeout < timeout; decodes: the encoding is known
  run,    \* what the executor does for each execution
  child,  \* its process: none, running, asked (by SIGTERM), zombie, gone
  heir,   \* executions whose pipes a grandchild holds
  flag,   \* executions whose cancel flag is set
  lease,  \* task -> the execution whose process its row names, or 0
  gap     \* history: tasks whose row once did not name their process

execVars == <<def, run, child, heir, flag, lease, gap>>

Exec == UNION {{t} \X (1..Runs[t]) : t \in Task}
Waiting == {"wait", "grace", "killed"}
Cancelling == {"term", "forced"}
Busy == {"start", "lease", "drain", "send"} \cup Waiting \cup Cancelling
RunState == [pc : Busy \cup {"idle", "queued", "done", "over", "lost"},
             status : {"none", "zero", "nonzero"},
             verdict : {"none", "ok", "failed", "error", "cancelled"}]

NoRun == [pc |-> "idle", status |-> "none", verdict |-> "none"]

ExecInit ==
  /\ def \in Defs
  /\ run = [e \in Exec |-> NoRun]
  /\ child = [e \in Exec |-> "none"]
  /\ heir = {} /\ flag = {} /\ gap = {}
  /\ lease = [t \in Task |-> 0]

On(e, pc) == run[e].pc = pc
Go(e, pc) == run' = [run EXCEPT ![e].pc = pc]
Return(e, pc, v) == run' = [run EXCEPT ![e].pc = pc, ![e].verdict = v]
Alive(e) == child[e] \in {"running", "asked"}

-----------------------------------------------------------------------------
(* Processes.  Whoever gets a SIGTERM may ignore it; any child may end.    *)

ChildExits(e) ==
  /\ Alive(e)
  /\ child' = [child EXCEPT ![e] = IF On(e, "lost") THEN "gone" ELSE "zombie"]
  /\ \E s \in IF On(e, "lost") THEN {"none"} ELSE {"zero", "nonzero"} :
       run' = [run EXCEPT ![e].status = s]
  /\ UNCHANGED <<def, heir, flag, lease, gap>>

ChildForks(e) ==
  /\ Alive(e) /\ run[e].pc \in Busy /\ e \notin heir
  /\ heir' = heir \cup {e}
  /\ UNCHANGED <<def, run, child, flag, lease, gap>>

HeirExits(e) ==
  /\ e \in heir
  /\ heir' = heir \ {e}
  /\ UNCHANGED <<def, run, child, flag, lease, gap>>

(* kill(-pid, SIGTERM)                                                     *)
AskGroup(e, pc) ==
  /\ child' = [child EXCEPT ![e] = IF @ = "running" THEN "asked" ELSE @]
  /\ Go(e, pc)

(* start_kill reaches the leader only; a process killed has no exit code.  *)
KillLeader(e, pc) ==
  /\ child' = [child EXCEPT ![e] = IF Alive(e) THEN "zombie" ELSE @]
  /\ run' = [run EXCEPT ![e].pc = pc,
                        ![e].status = IF Alive(e) THEN "nonzero" ELSE @]

-----------------------------------------------------------------------------
(* The shell executor                                                      *)

Spawn(e) ==
  /\ Kind[e[1]] = "shell" /\ On(e, "start")
  /\ \/ Go(e, "lease") /\ child' = [child EXCEPT ![e] = "running"]
     \/ Return(e, "done", "error") /\ UNCHANGED child
  /\ UNCHANGED <<def, heir, flag, lease, gap>>

(* A slip to detect: the lease is written when the command has ended.      *)
WriteLeaseLater(e) ==
  /\ On(e, "lease") /\ Go(e, "wait")
  /\ UNCHANGED <<def, child, heir, flag, lease, gap>>

(* Awaited before the wait begins; an error of the store is only logged.   *)
WriteLease(e) ==
  /\ On(e, "lease") /\ Go(e, "wait")
  /\ \/ lease' = [lease EXCEPT ![e[1]] = e[2]] /\ UNCHANGED gap
     \/ "store" \in Faults /\ gap' = gap \cup {e[1]} /\ UNCHANGED lease
  /\ UNCHANGED <<def, child, heir, flag>>

SoftTimeout(e) ==
  /\ def.soft /\ On(e, "wait")
  /\ AskGroup(e, "grace")
  /\ UNCHANGED <<def, heir, flag, lease, gap>>

LastWait == IF def.soft THEN "grace" ELSE "wait"

(* A slip to detect: at its timeout the executor just returns the error.   *)
HardTimeoutLeaves(e) ==
  /\ On(e, LastWait)
  /\ Return(e, "drain", "error")
  /\ UNCHANGED <<def, child, heir, flag, lease, gap>>

HardTimeout(e) ==
  /\ On(e, LastWait)
  /\ KillLeader(e, "killed")
  /\ UNCHANGED <<def, heir, flag, lease, gap>>

(* select! polls the flag next to the whole wait, that for a killed child  *)
(* included, and drops the wait when it finds the flag set.                *)
CancelSeen(e) ==
  /\ run[e].pc \in Waiting /\ e \in flag
  /\ AskGroup(e, "term")
  /\ UNCHANGED <<def, heir, flag, lease, gap>>

CancelGrace(e) ==
  /\ On(e, "term")
  /\ KillLeader(e, "forced")
  /\ UNCHANGED <<def, heir, flag, lease, gap>>

(* A slip to detect: a child that ends in its grace period is a timeout.   *)
VerdictOfKilled(e) ==
  CASE run[e].pc \in Cancelling -> "cancelled"
    [] run[e].pc = LastWait     -> "ok"
    [] OTHER                    -> "error"

(* What the wait knows; "none" leaves the exit status to decide.           *)
VerdictOfWait(e) ==
  CASE run[e].pc \in Cancelling -> "cancelled"
    [] On(e, "killed")          -> "error"
    [] OTHER                    -> "none"

Reap(e) ==
  /\ run[e].pc \in Waiting \cup Cancelling /\ child[e] = "zombie"
  /\ child' = [child EXCEPT ![e] = "gone"]
  /\ Return(e, "drain", VerdictOfWait(e))
  /\ UNCHANGED <<def, heir, flag, lease, gap>>

(* decode_output comes before the exit code is looked at.                  *)
Outcome(e) ==
  IF run[e].verdict # "none" THEN run[e].verdict
  ELSE IF ~def.decodes THEN "error"
  ELSE IF run[e].status = "zero" THEN "ok" ELSE "failed"

(* A slip to detect: the pipes are read to their end.                      *)
DrainToEnd(e) ==
  /\ On(e, "drain") /\ e \notin heir
  /\ Return(e, "done", Outcome(e))
  /\ UNCHANGED <<def, child, heir, flag, lease, gap>>

(* The pipes are read to their end or for 500 ms, whatever comes first.    *)
Drain(e) ==
  /\ On(e, "drain")
  /\ Return(e, "done", Outcome(e))
  /\ heir' = heir \ {e}
  /\ UNCHANGED <<def, child, flag, lease, gap>>

-----------------------------------------------------------------------------
(* The HTTP executor: the flag is looked at before the request and every   *)
(* 200 ms next to it; the client's timeouts bound the request.             *)

HttpStart(e) ==
  /\ Kind[e[1]] = "http" /\ On(e, "start")
  /\ IF e \in flag THEN Return(e, "done", "cancelled") ELSE Go(e, "send")
  /\ UNCHANGED <<def, child, heir, flag, lease, gap>>

HttpAnswer(e) ==
  /\ On(e, "send")
  /\ \E v \in {"ok", "error"} : Return(e, "done", v)
  /\ UNCHANGED <<def, child, heir, flag, lease, gap>>

HttpCancelled(e) ==
  /\ On(e, "send") /\ e \in flag
  /\ Return(e, "done", "cancelled")
  /\ UNCHANGED <<def, child, heir, flag, lease, gap>>

-----------------------------------------------------------------------------
ExecuteStep(e) ==
  \/ Spawn(e) \/ WriteLease(e) \/ SoftTimeout(e) \/ HardTimeout(e)
  \/ CancelSeen(e) \/ CancelGrace(e) \/ Reap(e) \/ Drain(e)
  \/ HttpStart(e) \/ HttpAnswer(e) \/ HttpCancelled(e)

ProcessStep(e) == ChildExits(e) \/ ChildForks(e) \/ HeirExits(e)
=============================================================================
