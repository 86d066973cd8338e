------------------------------ MODULE Requests ------------------------------
(***************************************************************************)
(* The daemon's IPC server over one task id: clients send a request and    *)
(* wait for the answer up to their own timeout, each connection waits for  *)
(* a permit, its handler runs the operation in steps between which others  *)
(* run, and a handler that takes too long is dropped where it stands.  The *)
(* ownership check compares a row with the daemon's own environment, which *)
(* every row of this daemon passes.                                        *)
(***************************************************************************)
EXTENDS Pacing, PhpExtension

CONSTANTS
  MaxCalls,  \* bound: the connections of a behaviour
  MaxConn    \* XHJOB_MAX_CONNECTIONS

(* A request to modify carries fields a row may have.                      *)
Asked(op, b) ==
  /\ op.kind \in {"dispatch", "modify", "reschedule", "requeue", "pause",
                  "remove", "state", "get", "list", "silent"}
  /\ op.kind = "dispatch" => op.replace \in BOOLEAN
  /\ op.kind = "modify" => /\ DOMAIN op.patch \subseteq PatchKeys
                           /\ Over(op.patch, Task(b, None, Start)) \in Row
  /\ op.kind = "reschedule" => op.cron \in Expr
  /\ op.kind = "pause" => op.to \in BOOLEAN

ASSUME RequestsAssumption ==
  /\ MaxCalls \in Nat /\ MaxConn \in Nat \ {0} /\ None \notin Word /\ None \notin 1..MaxCalls
  /\ \A x \in Settings : \A c \in 1..MaxCalls :
       None \notin x.asks[c] /\ \A op \in x.asks[c] : Asked(op, x.task)

VARIABLES
  call,     \* connection -> its request, where it is and what was said
  permits,  \* of the connection semaphore
  author    \* the dispatch whose task the row is, or None

requestVars == <<call, permits, author>>
vars == <<pacingVars, requestVars>>

Call == 1..MaxCalls

(* pc:    sent, read (has a permit), insert, enqueue, answer, closed       *)
(* task:  what a dispatch has built; reply: what the handler will answer   *)
(* told:  what the PHP function returned                                   *)
(* after: history: the row's author, if it was told so before this call    *)
Unsent == [pc |-> "unsent", op |-> None, task |-> None, reply |-> None,
           told |-> None, after |-> None]

Init ==
  /\ PacingInit
  /\ call = [c \in Call |-> Unsent]
  /\ permits = MaxConn
  /\ author = None

-----------------------------------------------------------------------------
(* The client.                                                             *)

Acknowledged(d) == d # None /\ call[d].told = "yes"

(* ipc_request: connect and write the frame.                               *)
Send(c) ==
  /\ call[c].pc = "unsent" /\ \A d \in 1..(c - 1) : call[d].pc # "unsent"
  /\ \E op \in setting.asks[c] :
       call' = [call EXCEPT ![c] = [Unsent EXCEPT !.pc = "sent", !.op = op,
                 !.after = IF Acknowledged(author) THEN author ELSE None]]
  /\ UNCHANGED <<pacingVars, permits, author>>

-----------------------------------------------------------------------------
(* The handler.                                                            *)

Accept(c) ==
  /\ call[c].pc = "sent" /\ permits > 0
  /\ permits' = permits - 1
  /\ call' = [call EXCEPT ![c].pc = "read"]
  /\ UNCHANGED <<pacingVars, author>>

On(c, pc, kind) == call[c].pc = pc /\ call[c].op.kind = kind

Replies(c, reply) ==
  call' = [call EXCEPT ![c].pc = "answer", ![c].reply = reply]

(* build fails: nothing is touched.                                        *)
DispatchInvalid(c) ==
  /\ On(c, "read", "dispatch") /\ ~Builds(def, now)
  /\ Replies(c, "error")
  /\ UNCHANGED <<pacingVars, permits, author>>

Built(c) ==
  /\ Builds(def, now)
  /\ \E next \in FirstFires(def, now) :
       call' = [call EXCEPT ![c].pc = "insert", ![c].task = Task(def, next, now)]
  /\ UNCHANGED <<setting, now, waiting, timers, exec, limiterVars, permits>>

(* replace_existing: delete_task first.                                    *)
DispatchReplacing(c) ==
  /\ On(c, "read", "dispatch") /\ call[c].op.replace
  /\ Built(c)
  /\ row' = None /\ author' = None
  /\ UNCHANGED <<lastDue, notBefore>>

(* A slip to detect: the id is not looked for.                             *)
DispatchUnseen(c) ==
  /\ On(c, "read", "dispatch") /\ ~call[c].op.replace
  /\ Built(c)
  /\ UNCHANGED <<row, author, lastDue, notBefore>>

DispatchNew(c) ==
  /\ On(c, "read", "dispatch") /\ ~call[c].op.replace /\ row = None
  /\ Built(c)
  /\ UNCHANGED <<row, author, lastDue, notBefore>>

DispatchConflict(c) ==
  /\ On(c, "read", "dispatch") /\ Builds(def, now)
  /\ ~call[c].op.replace /\ row # None
  /\ Replies(c, "error")
  /\ UNCHANGED <<pacingVars, permits, author>>

(* Only a run_at in the future, without another trigger, can wait for the  *)
(* scan.                                                                   *)
Deferred(t) ==
  t.runAt # None /\ t.cron = None /\ t.interval = None /\ t.next > now

(* INSERT OR REPLACE: a row that came in between is overwritten.           *)
Insert(c) ==
  /\ On(c, "insert", "dispatch")
  /\ row' = call[c].task /\ author' = c
  /\ lastDue' = (IF CronExprs(call[c].task) = {} \/ call[c].task.runAt # None
                 THEN None ELSE call[c].task.created)
  /\ notBefore' = 0
  /\ call' = [call EXCEPT
       ![c].pc = IF Deferred(call[c].task) THEN "answer" ELSE "enqueue",
       ![c].reply = "yes"]
  /\ UNCHANGED <<setting, now, waiting, timers, exec, limiterVars, permits>>

Enqueue(c) ==
  /\ On(c, "enqueue", "dispatch")
  /\ waiting' = Enqueued
  /\ Replies(c, IF waiting < MaxPending THEN "yes" ELSE "error")
  /\ UNCHANGED <<setting, now, row, timers, exec, lastDue, notBefore,
                 limiterVars, permits, author>>

(* History: the row keeps to the schedule it was on, begins one now, or is *)
(* off any.                                                                *)
OnSchedule(r) ==
  CASE row = None -> lastDue
    [] row # None /\ \A k \in {"cron", "orCron", "zone", "next"} : r[k] = row[k] ->
         lastDue
    [] OTHER -> IF CronExprs(r) # {} /\ Computable(CronExprs(r), now, r.zone)
                   /\ r.next = MinNextFire(CronExprs(r), now, r.zone)
                THEN now ELSE None

(* The operations of one write.                                            *)
Apply(c, kind, answer) ==
  /\ On(c, "read", kind)
  /\ row' = answer.row
  /\ Replies(c, answer.reply)
  /\ lastDue' = OnSchedule(answer.row)
  /\ UNCHANGED <<setting, now, waiting, timers, exec, limiterVars,
                 permits, author>>

Modify(c) ==
  /\ On(c, "read", "modify")
  /\ Apply(c, "modify",
       CASE row = None -> Answer(row, "no")
         [] row # None /\ store = "sqlite" ->
              ModifySqlite(row, call[c].op.patch, now)
         [] OTHER -> ModifyInMemory(row, call[c].op.patch, now))
  /\ UNCHANGED notBefore

RescheduleTask(c) ==
  /\ On(c, "read", "reschedule")
  /\ Apply(c, "reschedule", IF row = None THEN Answer(row, "no")
                            ELSE Reschedule(row, call[c].op.cron, now))
  /\ UNCHANGED notBefore

RequeueTask(c) ==
  /\ On(c, "read", "requeue")
  /\ Apply(c, "requeue", IF row = None THEN Answer(row, "no")
                         ELSE Requeue(row, now))
  /\ notBefore' = 0

SetPaused(c) ==
  /\ On(c, "read", "pause")
  /\ Apply(c, "pause", IF row = None THEN Answer(row, "error")
                       ELSE Answer([row EXCEPT !.paused = call[c].op.to], "yes"))
  /\ UNCHANGED notBefore

Remove(c) ==
  /\ On(c, "read", "remove")
  /\ row' = None /\ author' = None
  /\ Replies(c, IF row = None THEN "error" ELSE "yes")
  /\ UNCHANGED <<setting, now, waiting, timers, exec, lastDue, notBefore,
                 limiterVars, permits>>

(* The questions: state, get and list.                                     *)
Ask(c) ==
  /\ \/ On(c, "read", "state") /\ Replies(c, StateInfo(row))
     \/ On(c, "read", "get") /\ Replies(c, TaskJson(row))
     \/ On(c, "read", "list") /\ Replies(c, Listed(row, call[c].op.state))
  /\ UNCHANGED <<pacingVars, permits, author>>

(* Five seconds without an answer are an error to the client, and the      *)
(* handler goes on without it; who asks for the state has no such limit.   *)
Closed(c, reply) ==
  /\ \E heard \in {reply} \cup (IF call[c].op.kind = "state" THEN {} ELSE {"error"}) :
       call' = [call EXCEPT ![c] = [Unsent EXCEPT !.pc = "closed", !.op = call[c].op,
                                    !.told = Returns(call[c].op.kind, heard)]]
  /\ UNCHANGED <<pacingVars, author>>

(* write_frame, or its error when the client has closed its end.           *)
Reply(c) ==
  /\ call[c].pc = "answer"
  /\ Closed(c, call[c].reply)
  /\ permits' = permits + 1

Open == {"read", "insert", "enqueue", "answer"}

(* A slip to detect: the permit is lost with the handler.                  *)
DropKeeps(c) ==
  /\ call[c].pc \in Open
  /\ Closed(c, "error")
  /\ permits' = permits

(* Fifteen seconds, for a frame that never comes or a store that is slow:  *)
(* the handler is dropped at the await it is in.                           *)
Drop(c) ==
  /\ call[c].pc \in Open
  /\ Closed(c, "error")
  /\ permits' = permits + 1

Handle(c) ==
  \/ DispatchInvalid(c) \/ DispatchReplacing(c) \/ DispatchNew(c)
  \/ DispatchConflict(c) \/ Insert(c) \/ Enqueue(c)
  \/ Modify(c) \/ RescheduleTask(c) \/ RequeueTask(c) \/ SetPaused(c) \/ Remove(c)
  \/ Ask(c) \/ Reply(c)

Next ==
  \/ PacingStep /\ UNCHANGED requestVars
  \/ \E c \in Call : Send(c) \/ Accept(c) \/ Handle(c) \/ Drop(c)

(* The semaphore serves its waiters in order, and the fifteen seconds pass.*)
Spec ==
  /\ Init /\ [][Next]_vars
  /\ \A c \in Call : WF_vars(Accept(c)) /\ WF_vars(Drop(c))
=============================================================================
