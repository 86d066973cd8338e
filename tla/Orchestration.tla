---------------------------- MODULE Orchestration ----------------------------
(***************************************************************************)
(* Chains, groups and chords: the IPC handler that creates one, the hook   *)
(* at the end of a task's future that advances it, the record in the       *)
(* store, and the per-id mutexes around chain::advance and                 *)
(* chord::refresh_state.                                                   *)
(*                                                                         *)
(* One orchestration: a chain of Size steps, a group of Size - 1 members,  *)
(* or a chord of Size - 1 headers and a callback.  A task's execution,     *)
(* retries included, is one step that ends in a final state.               *)
(***************************************************************************)
EXTENDS Integers, FiniteSets, FiniteSetsExt

CONSTANTS
  Size,         \* number of steps of a chain
  Worker,       \* futures that may be under way at the same time
  Handler,      \* the IPC handler that creates the orchestration
  None,
  MaxRequeues   \* bound: how often clients requeue a terminal task

ASSUME OrchestrationAssumption ==
  /\ Size \in Nat /\ Size >= 2
  /\ Handler \notin Worker
  /\ None \notin Worker \cup {Handler}
  /\ MaxRequeues \in Nat

VARIABLES
  plan,      \* what was created: chain, group or chord
  state,     \* task row: state of each task
  waiting,   \* how many of each task's ids are in the pending list
  rec,       \* the chain, group or chord record
  lock,      \* holder of the record's mutex
  act,       \* the futures' hooks and the handler
  built,     \* history: rows inserted for each step, header or callback
  requeues,  \* history: requeues so far
  skipped    \* history: an execution ended without its hook

rowVars == <<state, waiting, built>>
history == <<requeues, skipped>>
vars == <<plan, rowVars, rec, lock, act, history>>

Item == 1..Size
Callback == Size
Parts == IF plan = "chain" THEN Item ELSE Item \ {Callback}
Actor == Worker \cup {Handler}
Unhappy == {"failed", "cancelled", "expired", "interrupted"}
Final == {"success", "failed", "cancelled", "expired"}
ItemState == {"absent", "pending", "running", "success"} \cup Unhappy

NoRec == [state |-> "none", step |-> 0, callback |-> FALSE]
Record == [state : {"none", "pending", "running", "success", "failed",
                    "partial_failed"},
           step : 0..Size, callback : BOOLEAN]

(* What an actor knows: the task whose end it handles, the record it has   *)
(* read, the tasks it still has to load, and what it has counted.          *)
Idle == [pc |-> "idle", item |-> 0, final |-> "absent", seen |-> NoRec,
         todo |-> {}, ok |-> 0, bad |-> 0]
PC == {"idle", "create", "insert", "enqueue", "exec", "reload", "notify",
       "mark", "lock", "read", "finish", "run", "step", "load", "settle",
       "body", "record"}
ActorState == [pc : PC, item : 0..Size, final : ItemState, seen : Record,
               todo : SUBSET Item, ok : 0..Size, bad : 0..Size]

Init ==
  /\ plan \in {"chain", "group", "chord"}
  /\ state = [i \in Item |-> "absent"]
  /\ waiting = [i \in Item |-> 0]
  /\ built = [i \in Item |-> 0]
  /\ rec = NoRec
  /\ lock = None
  /\ act = [x \in Actor |->
              IF x # Handler THEN Idle
              ELSE [Idle EXCEPT !.pc = IF plan = "chain" THEN "create" ELSE "insert",
                                !.item = 1]]
  /\ requeues = 0
  /\ skipped = FALSE

At(x, pc) == act[x].pc = pc
Goto(x, pc) == act' = [act EXCEPT ![x].pc = pc]
Rest(x) == act' = [act EXCEPT ![x] = Idle]

-----------------------------------------------------------------------------
(* The record.  An update of a record that does not exist changes nothing. *)

UpdateRecord(r) == rec' = IF rec.state = "none" THEN rec ELSE r
UpdateChainStep(n, s) == UpdateRecord([rec EXCEPT !.step = n, !.state = s])
UpdateGroupState(s) == UpdateRecord([rec EXCEPT !.state = s])
(* A callback id that is not supplied is left as it is.                    *)
UpdateChordState(s, callback) ==
  UpdateRecord([rec EXCEPT !.state = s, !.callback = callback \/ @])

(* The chain's record comes before its first task, the group's and the     *)
(* chord's after the last of theirs was enqueued.                          *)
CreateRecord(x) ==
  /\ At(x, "create")
  /\ rec' = [NoRec EXCEPT !.state = "pending"]
  /\ IF plan = "chain" THEN Goto(x, "lock") ELSE Rest(x)
  /\ UNCHANGED <<plan, rowVars, lock, history>>

-----------------------------------------------------------------------------
(* Dispatching a task: insert_task and enqueue are two calls.              *)

InsertRow(i) ==
  /\ state' = [state EXCEPT ![i] = "pending"]
  /\ built' = [built EXCEPT ![i] = @ + 1]

Insert(x) ==
  /\ At(x, "insert")
  /\ InsertRow(act[x].item)
  /\ Goto(x, "enqueue")
  /\ UNCHANGED <<plan, waiting, rec, lock, history>>

(* The handler of a group or chord goes on with the next member or header. *)
AfterEnqueue(x) ==
  IF x # Handler \/ plan = "chain" THEN Rest(x)
  ELSE IF act[x].item = Size - 1 THEN Goto(x, "create")
  ELSE act' = [act EXCEPT ![x].pc = "insert", ![x].item = @ + 1]

Enqueue(x) ==
  /\ At(x, "enqueue")
  /\ waiting' = [waiting EXCEPT ![act[x].item] = @ + 1]
  /\ AfterEnqueue(x)
  /\ UNCHANGED <<plan, state, built, rec, lock, history>>

-----------------------------------------------------------------------------
(* Execution, as module TaskFuture details it.                             *)

(* An id whose row is terminal is dropped; one whose task is running is    *)
(* deferred until that execution has ended.                                *)
Take(w, i) ==
  /\ At(w, "idle")
  /\ waiting[i] > 0 /\ state[i] # "running"
  /\ waiting' = [waiting EXCEPT ![i] = @ - 1]
  /\ IF state[i] \notin Final
     THEN /\ state' = [state EXCEPT ![i] = "running"]
          /\ act' = [act EXCEPT ![w].pc = "exec", ![w].item = i]
     ELSE UNCHANGED <<state, act>>
  /\ UNCHANGED <<plan, built, rec, lock, history>>

(* The future writes the row and goes on to its end hook.                  *)
End(w) ==
  /\ At(w, "exec")
  /\ \E s \in {"success", "failed"} : state' = [state EXCEPT ![act[w].item] = s]
  /\ Goto(w, "reload")
  /\ UNCHANGED <<plan, waiting, built, rec, lock, history>>

(* The early returns of the future: cancelled, no result (timeout, spawn   *)
(* or network error), interrupted by the watchdog.  No hook is called.     *)
EndSilently(w) ==
  /\ At(w, "exec")
  /\ \E s \in {"failed", "cancelled", "interrupted"} :
       state' = [state EXCEPT ![act[w].item] = s]
  /\ Rest(w)
  /\ skipped' = TRUE
  /\ UNCHANGED <<plan, waiting, built, rec, lock, requeues>>

(* The final state is read back from the store; only a terminal one is     *)
(* notified.                                                               *)
Reload(w) ==
  /\ At(w, "reload")
  /\ IF state[act[w].item] \in Final
     THEN act' = [act EXCEPT ![w].pc = "notify", ![w].final = state[act[w].item]]
     ELSE Rest(w)
  /\ UNCHANGED <<plan, rowVars, rec, lock, history>>

(* A client requeues a terminal task, or cancels a Pending one: neither    *)
(* touches the orchestration.                                              *)
Requeue(i) ==
  /\ requeues < MaxRequeues
  /\ state[i] \in Final
  /\ state' = [state EXCEPT ![i] = "pending"]
  /\ waiting' = [waiting EXCEPT ![i] = @ + 1]
  /\ requeues' = requeues + 1
  /\ UNCHANGED <<plan, built, rec, lock, act, skipped>>

CancelPending(i) ==
  /\ state[i] = "pending"
  /\ state' = [state EXCEPT ![i] = "cancelled"]
  /\ skipped' = TRUE
  /\ UNCHANGED <<plan, waiting, built, rec, lock, act, requeues>>

-----------------------------------------------------------------------------
(* notify_chain_and_group                                                  *)

Hook(i, final) ==
  CASE plan = "chain" /\ final = "success"                -> "lock"
    [] plan = "chain" /\ final \in {"failed", "cancelled"} -> "mark"
    [] plan = "group"                                     -> "read"
    [] plan = "chord" /\ i # Callback                     -> "lock"
    [] OTHER                                              -> "idle"

Notify(w) ==
  /\ At(w, "notify")
  /\ LET next == Hook(act[w].item, act[w].final) IN
     IF next = "idle" THEN Rest(w) ELSE Goto(w, next)
  /\ UNCHANGED <<plan, rowVars, rec, lock, history>>

(* A slip to detect: the per-id mutex is not taken.                        *)
AcquireShared(x) ==
  /\ At(x, "lock")
  /\ lock' = x
  /\ Goto(x, "read")
  /\ UNCHANGED <<plan, rowVars, rec, history>>

Acquire(x) ==
  /\ At(x, "lock")
  /\ lock = None
  /\ lock' = x
  /\ Goto(x, "read")
  /\ UNCHANGED <<plan, rowVars, rec, history>>
Release == lock' = None

-----------------------------------------------------------------------------
(* Chains.  mark_failed does not take the mutex.                           *)

(* A slip to detect: the step is reset and the state left alone.           *)
MarkReset(w) ==
  /\ At(w, "mark")
  /\ UpdateChainStep(0, rec.state)
  /\ Rest(w)
  /\ UNCHANGED <<plan, rowVars, lock, history>>

MarkFailed(w) ==
  /\ At(w, "mark")
  /\ UpdateChainStep(0, "failed")
  /\ Rest(w)
  /\ UNCHANGED <<plan, rowVars, lock, history>>

ChainRead(x) ==
  /\ At(x, "read") /\ plan = "chain"
  /\ IF rec.state \in {"success", "failed"}
     THEN Release /\ Rest(x)
     ELSE /\ act' = [act EXCEPT ![x].seen = rec,
                       ![x].pc = IF rec.step >= Size THEN "finish"
                                 ELSE IF rec.state = "pending" THEN "run" ELSE "step"]
          /\ UNCHANGED lock
  /\ UNCHANGED <<plan, rowVars, rec, history>>

ChainFinish(x) ==
  /\ At(x, "finish")
  /\ UpdateChainStep(act[x].seen.step, "success")
  /\ Release /\ Rest(x)
  /\ UNCHANGED <<plan, rowVars, history>>

ChainRun(x) ==
  /\ At(x, "run")
  /\ UpdateChainStep(act[x].seen.step, "running")
  /\ Goto(x, "step")
  /\ UNCHANGED <<plan, rowVars, lock, history>>

(* A slip to detect: a step is counted twice.                              *)
ChainStepTwice(x) ==
  /\ At(x, "step")
  /\ UpdateChainStep(act[x].seen.step + 2, "running")
  /\ Release
  /\ act' = [act EXCEPT ![x] = [Idle EXCEPT !.pc = "insert",
                                            !.item = act[x].seen.step + 1]]
  /\ UNCHANGED <<plan, rowVars, history>>

(* The step is counted and the mutex released before the next task is      *)
(* inserted and enqueued.                                                  *)
ChainStep(x) ==
  /\ At(x, "step")
  /\ UpdateChainStep(act[x].seen.step + 1, "running")
  /\ Release
  /\ act' = [act EXCEPT ![x] = [Idle EXCEPT !.pc = "insert",
                                            !.item = act[x].seen.step + 1]]
  /\ UNCHANGED <<plan, rowVars, history>>

-----------------------------------------------------------------------------
(* Groups and chords load the rows of their tasks one by one.              *)

(* group::refresh_state takes no mutex; a group without a record sums up   *)
(* to nothing.                                                             *)
GroupRead(w) ==
  /\ At(w, "read") /\ plan = "group"
  /\ act' = [act EXCEPT ![w].pc = "load", ![w].seen = rec,
                        ![w].todo = IF rec.state = "none" THEN {} ELSE Parts]
  /\ UNCHANGED <<plan, rowVars, rec, lock, history>>

(* A slip to detect: only success counts as an end already reached.        *)
ChordReadAgain(w) ==
  /\ At(w, "read") /\ plan = "chord"
  /\ IF rec.state \in {"none", "success"}
     THEN Release /\ Rest(w)
     ELSE /\ act' = [act EXCEPT ![w].pc = "load", ![w].todo = Parts]
          /\ UNCHANGED lock
  /\ UNCHANGED <<plan, rowVars, rec, history>>

ChordRead(w) ==
  /\ At(w, "read") /\ plan = "chord"
  /\ IF rec.state \in {"none", "partial_failed"}
     THEN Release /\ Rest(w)
     ELSE IF rec.state = "success"
     THEN /\ Release
          /\ IF rec.callback
             THEN act' = [act EXCEPT ![w].pc = "enqueue", ![w].item = Callback]
             ELSE Rest(w)
     ELSE /\ act' = [act EXCEPT ![w].pc = "load", ![w].todo = Parts]
          /\ UNCHANGED lock
  /\ UNCHANGED <<plan, rowVars, rec, history>>

Load(w) ==
  /\ At(w, "load")
  /\ IF act[w].todo = {} THEN Goto(w, "settle")
     ELSE LET i == Min(act[w].todo) IN
          act' = [act EXCEPT ![w].todo = @ \ {i},
                    ![w].ok  = IF state[i] = "success" THEN @ + 1 ELSE @,
                    ![w].bad = IF state[i] \in Unhappy THEN @ + 1 ELSE @]
  /\ UNCHANGED <<plan, rowVars, rec, lock, history>>

(* A slip to detect: a failed member does not matter once one succeeded.   *)
SummaryLenient(total, ok, bad) ==
  IF total = 0 THEN "pending"
  ELSE IF ok + bad < total THEN "running"
  ELSE IF ok > 0 THEN "success" ELSE "failed"

Summary(total, ok, bad) ==
  IF total = 0 THEN "pending"
  ELSE IF ok + bad < total THEN "running"
  ELSE IF bad = 0 THEN "success"
  ELSE IF ok = 0 THEN "failed" ELSE "partial_failed"

GroupSettle(w) ==
  /\ At(w, "settle") /\ plan = "group"
  /\ UpdateGroupState(Summary(IF act[w].seen.state = "none" THEN 0 ELSE Size - 1,
                              act[w].ok, act[w].bad))
  /\ Rest(w)
  /\ UNCHANGED <<plan, rowVars, lock, history>>

(* A slip to detect: headers that have not failed are enough.              *)
NoneFailed(w) == act[w].bad = 0

AllSucceeded(w) == act[w].ok = Size - 1

ChordSettle(w) ==
  /\ At(w, "settle") /\ plan = "chord"
  /\ IF act[w].bad > 0
     THEN UpdateChordState("partial_failed", FALSE) /\ Release /\ Rest(w)
     ELSE IF AllSucceeded(w)
     THEN Goto(w, "body") /\ UNCHANGED <<rec, lock>>
     ELSE UpdateChordState("running", FALSE) /\ Release /\ Rest(w)
  /\ UNCHANGED <<plan, rowVars, history>>

(* The callback's row is inserted, then recorded; the hook enqueues it     *)
(* after the mutex is released.                                            *)
ChordBody(w) ==
  /\ At(w, "body")
  /\ InsertRow(Callback)
  /\ Goto(w, "record")
  /\ UNCHANGED <<plan, waiting, rec, lock, history>>

ChordRecord(w) ==
  /\ At(w, "record")
  /\ UpdateChordState("success", TRUE)
  /\ Release
  /\ act' = [act EXCEPT ![w] = [Idle EXCEPT !.pc = "enqueue", !.item = Callback]]
  /\ UNCHANGED <<plan, rowVars, history>>

-----------------------------------------------------------------------------
Advance(x) == Acquire(x) \/ ChainRead(x) \/ ChainFinish(x) \/ ChainRun(x)
              \/ ChainStep(x) \/ Insert(x) \/ Enqueue(x)
HandleOp == CreateRecord(Handler) \/ Advance(Handler)
NotifyHook(w) ==
  \/ Reload(w) \/ Notify(w) \/ MarkFailed(w) \/ Advance(w)
  \/ GroupRead(w) \/ Load(w) \/ GroupSettle(w)
  \/ ChordRead(w) \/ ChordSettle(w) \/ ChordBody(w) \/ ChordRecord(w)

TakeAny(w) == \E i \in Item : Take(w, i)

Next ==
  \/ HandleOp
  \/ \E w \in Worker : TakeAny(w) \/ End(w) \/ EndSilently(w) \/ NotifyHook(w)
  \/ \E i \in Item : Requeue(i) \/ CancelPending(i)

Spec == Init /\ [][Next]_vars

(* The handler, the queue loop, the executor and the hooks are driven by   *)
(* the runtime; clients owe nothing.  Tokio's mutex is fair.               *)
Fairness ==
  /\ WF_vars(HandleOp) /\ SF_vars(Acquire(Handler))
  /\ \A w \in Worker :
       /\ WF_vars(TakeAny(w)) /\ WF_vars(End(w) \/ EndSilently(w))
       /\ WF_vars(NotifyHook(w)) /\ SF_vars(Acquire(w))
FairSpec == Spec /\ Fairness
=============================================================================
