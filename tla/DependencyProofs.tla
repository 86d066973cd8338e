-------------------------- MODULE DependencyProofs --------------------------
(***************************************************************************)
(* Proofs about chains, groups and chords nobody requeues a task of: what  *)
(* is dispatched and recorded agrees with what the rows show.              *)
(***************************************************************************)
EXTENDS OrchestrationProofs

-----------------------------------------------------------------------------
(* Where nobody requeues.  A member, header or step has one id, and one    *)
(* future at most is about to enqueue it or executes it.                   *)

Holds(x, i) == act[x].pc \in {"enqueue", "exec"} /\ act[x].item = i
OneId ==
  \A i \in Parts :
    /\ waiting[i] \in {0, 1}
    /\ \A x \in Actor : Holds(x, i) => waiting[i] = 0 /\ state[i] # "interrupted"
    /\ \A x, y \in Actor : Holds(x, i) /\ Holds(y, i) => x = y
    /\ state[i] = "interrupted" => waiting[i] = 0

(* The plan is made once.                                                  *)
LEMMA PlanKept == [Next]_vars => plan' = plan
BY DEF Next, HandleOp, NotifyHook, Advance, TakeAny, Take, End, EndSilently, Reload, Notify,
       CreateRecord, Insert, Enqueue, MarkFailed, Acquire, ChainRead, ChainFinish, ChainRun,
       ChainStep, GroupRead, Load, GroupSettle, ChordRead, ChordSettle, ChordBody,
       ChordRecord, Requeue, CancelPending, vars

(* A requeue is counted.                                                   *)
LEMMA NoRequeue ==
  ASSUME ShapeInv, requeues' = 0, NEW i \in Item
  PROVE  ~Requeue(i)
BY DEF ShapeInv, OrchestrationTypeOK, Requeue

(* What a hook does to the rows.                                           *)
LEMMA HookRows ==
  ASSUME ShapeInv, NEW x \in Actor,
         \/ plan = "chain" /\ ChainHook(x)
         \/ plan = "group" /\ x \in Worker /\ GroupHook(x)
         \/ plan = "chord" /\ x \in Worker /\ ChordHook(x)
  PROVE  /\ UNCHANGED <<plan, waiting, requeues>> /\ Alone(x)
         /\ \A i \in Parts : state'[i] = state[i] /\ built'[i] = built[i]
         /\ act'[x].pc # "exec" /\ (act'[x].pc = "enqueue" => act'[x].item \notin Parts)
<1> USE OrchestrationAssumption
<1>1. plan = "chord" => Callback \notin Parts
  BY DEF Parts
<1>2. CASE plan = "chain" /\ ChainHook(x)
  <2>1. UNCHANGED <<plan, state, waiting, built, requeues>>
    BY <1>2 DEF ChainHook, MarkFailed, Acquire, ChainRead, ChainFinish, ChainRun, ChainStep,
                rowVars, history
  <2>2. Alone(x) /\ act'[x].pc \notin {"exec", "enqueue"}
    BY <1>2, ExecutionMoves, ChainMoves DEF ChainHook
  <2> QED BY <2>1, <2>2
<1>3. CASE plan = "group" /\ x \in Worker /\ GroupHook(x)
  <2>1. UNCHANGED <<plan, state, waiting, built, requeues>>
    BY <1>3 DEF GroupHook, GroupRead, Load, GroupSettle, rowVars, history
  <2>2. Alone(x) /\ act'[x].pc \notin {"exec", "enqueue"}
    BY <1>3, JoinMoves, LoadLocal DEF GroupHook
  <2> QED BY <2>1, <2>2
<1>4. CASE plan = "chord" /\ x \in Worker /\ ChordHook(x)
  <2>1. CASE ChordBody(x)
    <3>1. /\ UNCHANGED <<plan, waiting, requeues>>
          /\ state' = [state EXCEPT ![Callback] = "pending"]
          /\ built' = [built EXCEPT ![Callback] = @ + 1]
      BY <2>1 DEF ChordBody, InsertRow, history
    <3>2. Alone(x) /\ act'[x].pc = "record"
      BY <2>1, JoinMoves
    <3>3. state \in [Item -> ItemState] /\ built \in [Item -> Nat] /\ Parts \subseteq Item
      BY DEF ShapeInv, OrchestrationTypeOK, Parts
    <3> QED BY <1>1, <1>4, <3>1, <3>2, <3>3
  <2>2. CASE ~ChordBody(x)
    <3>1. UNCHANGED <<plan, state, waiting, built, requeues>>
      BY <1>4, <2>2 DEF ChordHook, Acquire, ChordRead, Load, ChordSettle, ChordRecord,
                        rowVars, history
    <3>2. /\ Alone(x) /\ act'[x].pc # "exec"
          /\ act'[x].pc = "enqueue" => act'[x].item = Callback
      BY <1>4, <2>2, ExecutionMoves, JoinMoves, LoadLocal DEF ChordHook
    <3> QED BY <1>1, <1>4, <3>1, <3>2
  <2> QED BY <2>1, <2>2
<1> QED BY <1>2, <1>3, <1>4

(* A move that neither dispatches nor takes.                               *)
LEMMA QuietId ==
  ASSUME OneId, NEW x \in Actor, Alone(x), plan' = plan,
         act'[x].pc \in {"enqueue", "exec"} => act'[x].item \notin Parts,
         \A i \in Parts :
           /\ waiting'[i] = waiting[i]
           /\ state'[i] = "interrupted" => state[i] = "interrupted" \/ Holds(x, i)
  PROVE  OneId'
<1>1. \A y \in Actor \ {x} : act'[y] = act[y]
  BY DEF Alone
<1>2. Parts' = Parts
  BY DEF Parts
<1> SUFFICES ASSUME NEW i \in Parts
             PROVE  /\ waiting'[i] \in {0, 1}
                    /\ \A y \in Actor : Holds(y, i)' =>
                         waiting'[i] = 0 /\ state'[i] # "interrupted"
                    /\ \A y, z \in Actor : Holds(y, i)' /\ Holds(z, i)' => y = z
                    /\ state'[i] = "interrupted" => waiting'[i] = 0
  BY <1>2 DEF OneId
<1>3. \A y \in Actor : Holds(y, i)' => y # x /\ Holds(y, i)
  BY <1>1 DEF Holds
<1> QED BY <1>3 DEF OneId

(* Every step but a requeue keeps the ids single.                          *)
LEMMA OneIdStep ==
  ASSUME ShapeInv, BuildInv, OneId, [Next]_vars, requeues' = 0
  PROVE  OneId'
<1> USE OrchestrationAssumption
<1>1. /\ Rows /\ plan' = plan /\ plan \in {"chain", "group", "chord"}
      /\ waiting \in [Item -> Nat] /\ state \in [Item -> ItemState]
      /\ Parts \subseteq Item /\ Parts' = Parts /\ built \in [Item -> Nat]
  BY PlanKept DEF BuildInv, ShapeInv, OrchestrationTypeOK, Parts
<1>2. ASSUME NEW x \in Actor, DispatchStep(x) PROVE OneId'
  <2>1. Alone(x) /\ \A y \in Actor \ {x} : act'[y] = act[y]
    BY <1>2, DispatchMoves DEF DispatchStep, Alone
  <2>2. CASE x = Handler /\ CreateRecord(x)
    <3>1. act'[x].pc \in {"lock", "idle"} /\ UNCHANGED <<plan, state, waiting>>
      BY <1>1, <2>2, DispatchMoves DEF CreateRecord, rowVars
    <3> QED BY <2>1, <3>1, QuietId
  <2>3. CASE Insert(x)
    <3> DEFINE i == act[x].item
    <3>1. /\ At(x, "insert") /\ act'[x].item = i /\ act'[x].pc = "enqueue" /\ i \in Item
          /\ waiting' = waiting /\ state' = [state EXCEPT ![i] = "pending"]
      BY <2>3, DispatchMoves DEF Insert, InsertRow, At, Keeps, ShapeInv, Role
    <3>2. built[i] = 0 /\ waiting[i] = 0 /\ state[i] = "absent"
      BY <1>1, <3>1 DEF Rows
    <3>3. \A y \in Actor : ~Holds(y, i)
      BY <1>1, <3>1, <3>2 DEF Holds, Rows, At
    <3> HIDE DEF i
    <3>4. \A y \in Actor, j \in Parts : Holds(y, j)' => (y = x /\ j = i) \/ Holds(y, j)
      BY <2>1, <3>1 DEF Holds
    <3>5. \A j \in Parts : state'[j] = "interrupted" => state[j] = "interrupted" /\ j # i
      BY <1>1, <3>1
    <3>6. \A j \in Parts : j = i => waiting[j] = 0 /\ state'[j] # "interrupted"
      BY <1>1, <3>1, <3>2
    <3> QED BY <1>1, <3>1, <3>3, <3>4, <3>5, <3>6 DEF OneId
  <2>4. CASE Enqueue(x)
    <3> DEFINE i == act[x].item
    <3>1. /\ At(x, "enqueue") /\ act'[x].pc \in {"idle", "create", "insert"} /\ i \in Item
          /\ waiting' = [waiting EXCEPT ![i] = @ + 1] /\ state' = state
      BY <2>4, DispatchMoves DEF Enqueue, At, ShapeInv, Role
    <3>2. Holds(x, i)
      BY <3>1 DEF Holds, At
    <3> HIDE DEF i
    <3>3. \A y \in Actor, j \in Parts : Holds(y, j)' => y # x /\ Holds(y, j)
      BY <2>1, <3>1 DEF Holds
    <3>4. \A j \in Parts : /\ j # i => waiting'[j] = waiting[j]
                           /\ j = i => waiting'[j] = waiting[j] + 1
      BY <1>1, <3>1
    <3>5. ASSUME i \in Parts PROVE waiting[i] = 0 /\ state[i] # "interrupted"
      BY <3>2, <3>5 DEF OneId
    <3>6. \A y \in Actor, j \in Parts : Holds(y, j)' => j # i
      BY <3>2, <3>3 DEF OneId
    <3> QED BY <1>1, <3>1, <3>3, <3>4, <3>5, <3>6 DEF OneId
  <2> QED BY <1>2, <2>2, <2>3, <2>4 DEF DispatchStep
<1>3. ASSUME NEW x \in Worker, ExecutionStep(x) PROVE OneId'
  <2>0. x \in Actor
    BY DEF Actor
  <2>1. ASSUME NEW i \in Item, Take(x, i) PROVE OneId'
    <3>1. /\ At(x, "idle") /\ waiting[i] > 0 /\ waiting' = [waiting EXCEPT ![i] = @ - 1]
      BY <2>1 DEF Take
    <3>2. \A j \in Parts : /\ j # i => waiting'[j] = waiting[j]
                           /\ j = i => waiting'[j] = waiting[j] - 1
      BY <1>1, <3>1
    <3>3. CASE state[i] \in Final
      <4>1. state' = state /\ act' = act
        BY <2>1, <3>3 DEF Take
      <4>2. \A y \in Actor, j \in Parts : Holds(y, j)' => Holds(y, j)
        BY <4>1 DEF Holds
      <4> QED BY <1>1, <3>1, <3>2, <4>1, <4>2 DEF OneId
    <3>4. CASE state[i] \notin Final
      <4>1. /\ Alone(x) /\ act'[x].pc = "exec" /\ act'[x].item = i
            /\ state' = [state EXCEPT ![i] = "running"]
        BY <2>0, <2>1, <3>4, ExecutionMoves DEF Take
      <4>2. \A y \in Actor \ {x} : act'[y] = act[y]
        BY <4>1 DEF Alone
      <4>3. \A y \in Actor, j \in Parts : Holds(y, j)' => (y = x /\ j = i) \/ Holds(y, j)
        BY <4>1, <4>2 DEF Holds
      <4>4. \A y \in Actor : i \in Parts => ~Holds(y, i)
        BY <3>1 DEF OneId
      <4>5. \A j \in Parts : state'[j] = "interrupted" => state[j] = "interrupted" /\ j # i
        BY <1>1, <4>1
      <4>6. i \in Parts => waiting'[i] = 0
        BY <3>1, <3>2 DEF OneId
      <4> QED BY <1>1, <3>1, <3>2, <4>1, <4>3, <4>4, <4>5, <4>6 DEF OneId
    <3> QED BY <3>3, <3>4
  <2>2. CASE End(x) \/ EndSilently(x)
    <3>1. /\ Alone(x) /\ act'[x].pc \in {"idle", "reload"} /\ waiting' = waiting
          /\ At(x, "exec")
      BY <2>0, <2>2, ExecutionMoves DEF End, EndSilently
    <3>2. PICK s : state' = [state EXCEPT ![act[x].item] = s]
      BY <2>2 DEF End, EndSilently
    <3>3. \A i \in Parts : state'[i] = "interrupted" => state[i] = "interrupted" \/ Holds(x, i)
      BY <1>1, <3>1, <3>2 DEF Holds, At
    <3> QED BY <1>1, <2>0, <3>1, <3>3, QuietId
  <2>3. CASE Reload(x) \/ Notify(x)
    <3>1. UNCHANGED <<state, waiting>>
      BY <2>3 DEF Reload, Notify, rowVars
    <3>2. Alone(x) /\ act'[x].pc \notin {"enqueue", "exec"}
      BY <2>0, <2>3, ExecutionMoves DEF Hook
    <3> QED BY <1>1, <2>0, <3>1, <3>2, QuietId
  <2> QED BY <1>3, <2>1, <2>2, <2>3 DEF ExecutionStep, TakeAny
<1>4. ASSUME NEW x \in Actor,
             \/ plan = "chain" /\ ChainHook(x)
             \/ plan = "group" /\ x \in Worker /\ GroupHook(x)
             \/ plan = "chord" /\ x \in Worker /\ ChordHook(x)
      PROVE  OneId'
  BY <1>1, <1>4, HookRows, QuietId
<1>5. ASSUME NEW i \in Item, CancelPending(i) PROVE OneId'
  <2>1. UNCHANGED <<waiting, act>> /\ state' = [state EXCEPT ![i] = "cancelled"]
    BY <1>5 DEF CancelPending
  <2>2. \A j \in Parts : state'[j] = "interrupted" => state[j] = "interrupted"
    BY <1>1, <2>1
  <2> QED BY <1>1, <2>1, <2>2 DEF OneId, Holds
<1>6. ASSUME UNCHANGED vars PROVE OneId'
  BY <1>1, <1>6 DEF vars, rowVars, OneId, Holds
<1>7. Worker \subseteq Actor
  BY DEF Actor
<1> QED BY <1>2, <1>3, <1>4, <1>5, <1>6, <1>7, StepCases, NoRequeue

Settled(i) == state[i] \in Final \cup {"interrupted"}

(* A task that has ended stays as it ended.                                *)
LEMMA EndsStay ==
  ASSUME ShapeInv, BuildInv, OneId, [Next]_vars, requeues' = 0
  PROVE  \A i \in Parts : Settled(i) => state'[i] = state[i]
<1> SUFFICES ASSUME NEW i \in Parts, Settled(i) PROVE state'[i] = state[i]
  OBVIOUS
<1>1. /\ Rows /\ i \in Item /\ state \in [Item -> ItemState] /\ Worker \subseteq Actor
      /\ state[i] \notin {"absent", "pending", "running"}
      /\ \A x \in Actor : act[x].pc # "idle" => act[x].item \in Item
  BY DEF BuildInv, ShapeInv, OrchestrationTypeOK, Parts, Actor, Settled, Final, Role
<1>2. ASSUME NEW x \in Actor, DispatchStep(x) PROVE state'[i] = state[i]
  <2>1. CASE Insert(x)
    <3>1. act[x].item # i
      BY <1>1, <2>1 DEF Insert, At, Rows
    <3> QED BY <1>1, <2>1, <3>1 DEF Insert, InsertRow
  <2> QED BY <1>2, <2>1 DEF DispatchStep, CreateRecord, Enqueue, rowVars
<1>3. ASSUME NEW x \in Worker, ExecutionStep(x) PROVE state'[i] = state[i]
  <2>1. ASSUME NEW j \in Item, Take(x, j) PROVE state'[i] = state[i]
    <3>1. waiting[i] > 0 => state[i] \in Final
      BY DEF OneId, Settled
    <3> QED BY <1>1, <2>1, <3>1 DEF Take
  <2>2. CASE End(x) \/ EndSilently(x)
    <3>1. act[x].item # i
      BY <1>1, <2>2 DEF End, EndSilently, At, Rows
    <3> QED BY <1>1, <2>2, <3>1 DEF End, EndSilently
  <2> QED BY <1>3, <2>1, <2>2 DEF ExecutionStep, TakeAny, Reload, Notify, rowVars
<1>4. ASSUME NEW j \in Item, CancelPending(j) PROVE state'[i] = state[i]
  BY <1>1, <1>4 DEF CancelPending
<1>5. UNCHANGED vars => state' = state
  BY DEF vars, rowVars
<1> QED BY <1>1, <1>2, <1>3, <1>4, <1>5, StepCases, HookRows, NoRequeue

(* The hooks of a group or chord have counted what the rows still show:    *)
(* when all they counted succeeded, these rows show success.               *)
Succeeded(i) == state[i] = "success"
Lost(i) == state[i] \in Unhappy
Truly(x) ==
  \E m \in 1..Size :
    /\ Counted(x, m)
    /\ act[x].ok = m - 1 => \A i \in 1..(m - 1) : Succeeded(i)
    /\ act[x].bad > 0 => \E i \in Parts : Lost(i)
CountedTruly == \A x \in Actor : act[x].pc \in {"load", "settle"} => Truly(x)
ChordSure ==
  plan = "chord" => \A x \in Actor : act[x].pc \in {"body", "record"} =>
    \A h \in Parts : Succeeded(h)

(* Success and failure last.                                               *)
LEMMA TruthsStay ==
  ASSUME ShapeInv, BuildInv, OneId, [Next]_vars, requeues' = 0, NEW i \in Parts
  PROVE  (Succeeded(i) => Succeeded(i)') /\ (Lost(i) => Lost(i)')
BY EndsStay DEF Settled, Succeeded, Lost, Unhappy, Final

(* A hook that only stays where it is keeps what it has counted.           *)
LEMMA TrulyStays ==
  ASSUME ShapeInv, BuildInv, OneId, [Next]_vars, requeues' = 0, plan # "chain",
         NEW x \in Actor, act'[x].todo = act[x].todo, act'[x].ok = act[x].ok,
         act'[x].bad = act[x].bad, Truly(x)
  PROVE  Truly(x)'
<1> USE OrchestrationAssumption
<1>1. PICK m \in 1..Size : /\ Counted(x, m)
                           /\ act[x].ok = m - 1 => \A i \in 1..(m - 1) : Succeeded(i)
                           /\ act[x].bad > 0 => \E i \in Parts : Lost(i)
  BY DEF Truly
<1>2. 1..(m - 1) \subseteq Parts /\ Parts' = Parts
  BY PlanKept DEF Parts, Item, Callback
<1>3. Counted(x, m)'
  BY <1>1 DEF Counted
<1> QED BY <1>1, <1>2, <1>3, TruthsStay DEF Truly

(* What a hook has loaded is what the rows show.                           *)
LEMMA LoadTruly ==
  ASSUME ShapeInv, BuildInv, OneId, [Next]_vars, requeues' = 0, plan # "chain",
         NEW x \in Worker, Load(x), Truly(x)
  PROVE  Truly(x)'
<1> USE OrchestrationAssumption
<1>1. PICK m \in 1..Size : /\ Counted(x, m)
                           /\ act[x].ok = m - 1 => \A i \in 1..(m - 1) : Succeeded(i)
                           /\ act[x].bad > 0 => \E i \in Parts : Lost(i)
  BY DEF Truly
<1>2. /\ x \in Actor /\ act[x].ok \in 0..Size /\ act[x].bad \in 0..Size
      /\ act[x].ok + act[x].bad <= m - 1 /\ act[x].todo = m..(Size - 1)
  BY <1>1 DEF Actor, ShapeInv, OrchestrationTypeOK, ActorState, Counted
<1>3. CASE m = Size
  <2>1. Keeps(x)
    BY <1>1, <1>2, <1>3, LoadMoves
  <2> QED BY <1>2, <2>1, TrulyStays DEF Keeps
<1>4. CASE m < Size
  <2>1. /\ act'[x].todo = (m + 1)..(Size - 1)
        /\ act'[x].ok = IF state[m] = "success" THEN act[x].ok + 1 ELSE act[x].ok
        /\ act'[x].bad = IF state[m] \in Unhappy THEN act[x].bad + 1 ELSE act[x].bad
    BY <1>1, <1>2, <1>4, LoadMoves
  <2>2. m + 1 \in 1..Size /\ m \in Parts /\ 1..m \subseteq Parts /\ Parts' = Parts
    BY <1>4, PlanKept DEF Parts, Item, Callback
  <2>3. ~(Succeeded(m) /\ Lost(m))
    BY DEF Succeeded, Lost, Unhappy
  <2>4. Counted(x, m + 1)'
    BY <1>2, <2>1, <2>3 DEF Counted, Succeeded, Lost
  <2>5. ASSUME act'[x].ok = m PROVE \A i \in 1..m : Succeeded(i)
    <3>1. act[x].ok = m - 1 /\ Succeeded(m)
      BY <1>2, <2>1, <2>5 DEF Succeeded
    <3> QED BY <1>1, <3>1
  <2>6. ASSUME act'[x].bad > 0 PROVE \E i \in Parts : Lost(i)
    <3>1. act[x].bad > 0 \/ Lost(m)
      BY <1>2, <2>1, <2>6 DEF Lost
    <3> QED BY <1>1, <2>2, <3>1
  <2>7. act'[x].ok = m => \A i \in 1..m : Succeeded(i)'
    BY <2>2, <2>5, TruthsStay
  <2>8. act'[x].bad > 0 => \E i \in Parts : Lost(i)'
    BY <2>6, TruthsStay
  <2>9. PICK k \in 1..Size : k = m + 1
    BY <2>2
  <2>10. /\ Counted(x, k)'
         /\ act'[x].ok = k - 1 => \A i \in 1..(k - 1) : Succeeded(i)'
    BY <2>4, <2>7, <2>9
  <2> QED BY <2>2, <2>8, <2>10 DEF Truly
<1> QED BY <1>3, <1>4

(* Nothing has been counted yet.                                           *)
LEMMA FreshTruly ==
  ASSUME NEW x \in Actor, plan # "chain", act'[x].ok = 0, act'[x].bad = 0, plan' = plan,
         act'[x].todo \in {{}, Parts}
  PROVE  Truly(x)'
<1> USE OrchestrationAssumption
<1>1. Parts = 1..(Size - 1)
  BY DEF Parts, Item, Callback
<1>2. CASE act'[x].todo = Parts
  <2>1. Counted(x, 1)'
    BY <1>1, <1>2 DEF Counted
  <2> QED BY <2>1 DEF Truly
<1>3. CASE act'[x].todo = {}
  <2>1. Counted(x, Size)'
    BY <1>3 DEF Counted
  <2> QED BY <2>1 DEF Truly
<1> QED BY <1>2, <1>3

(* A hook that settles has counted every part.                             *)
LEMMA SettledCount ==
  ASSUME ShapeInv, CountedTruly, plan # "chain", NEW x \in Actor, At(x, "settle")
  PROVE  /\ act[x].ok \in Nat /\ act[x].bad \in Nat /\ act[x].ok + act[x].bad <= Size - 1
         /\ act[x].ok = Size - 1 => \A i \in Parts : Succeeded(i)
         /\ act[x].bad > 0 => \E i \in Parts : Lost(i)
<1> USE OrchestrationAssumption
<1>1. PICK m \in 1..Size : /\ Counted(x, m)
                           /\ act[x].ok = m - 1 => \A i \in 1..(m - 1) : Succeeded(i)
                           /\ act[x].bad > 0 => \E i \in Parts : Lost(i)
  BY DEF CountedTruly, Truly, At
<1>2. act[x].todo = {}
  BY DEF ShapeInv, InRange
<1>3. m = Size
  <2>1. m..(Size - 1) = {}
    BY <1>1, <1>2 DEF Counted
  <2> QED BY <2>1
<1>4. Parts = 1..(Size - 1)
  BY DEF Parts, Item, Callback
<1> QED BY <1>1, <1>3, <1>4 DEF Counted, ShapeInv, OrchestrationTypeOK, ActorState

(* Every step but a requeue keeps the counts true.                         *)
LEMMA CountStep ==
  ASSUME ShapeInv, BuildInv, OneId, CountedTruly, ChordSure, [Next]_vars, requeues' = 0
  PROVE  CountedTruly' /\ ChordSure'
<1> USE OrchestrationAssumption
<1>1. /\ ShapeInv' /\ plan' = plan /\ plan \in {"chain", "group", "chord"} /\ Parts' = Parts
      /\ Worker \subseteq Actor /\ Handler \in Actor /\ act \in [Actor -> ActorState]
  BY ShapeStep, PlanKept DEF Actor, ShapeInv, OrchestrationTypeOK, Parts
<1>2. CASE plan = "chain"
  <2>1. \A x \in Actor : act'[x].pc \notin {"load", "settle"}
    BY <1>1, <1>2 DEF ShapeInv, Role, HandlerPC, WorkerPC, Steps
  <2> QED BY <1>1, <1>2, <2>1 DEF CountedTruly, ChordSure
<1>3. ASSUME plan # "chain", NEW x \in Actor, \A y \in Actor \ {x} : act'[y] = act[y],
             act'[x].pc \in {"load", "settle"} => Truly(x)',
             act'[x].pc \in {"body", "record"} /\ plan = "chord" =>
               \A h \in Parts : Succeeded(h)
      PROVE  CountedTruly' /\ ChordSure'
  <2>1. ASSUME NEW y \in Actor, act'[y].pc \in {"load", "settle"} PROVE Truly(y)'
    <3>1. CASE y # x
      <4>1. act'[y] = act[y] /\ Truly(y)
        BY <1>3, <2>1, <3>1 DEF CountedTruly
      <4> QED BY <1>3, <4>1, TrulyStays
    <3> QED BY <1>3, <2>1, <3>1
  <2>2. ASSUME plan = "chord", NEW y \in Actor, act'[y].pc \in {"body", "record"},
               NEW h \in Parts
        PROVE  Succeeded(h)'
    <3>1. Succeeded(h)
      BY <1>3, <2>2 DEF ChordSure
    <3> QED BY <3>1, TruthsStay
  <2> QED BY <1>1, <2>1, <2>2 DEF CountedTruly, ChordSure
<1>4. CASE plan # "chain"
  <2>1. ASSUME NEW x \in Actor, DispatchStep(x) PROVE CountedTruly' /\ ChordSure'
    <3>1. Alone(x) /\ act'[x].pc \in {"lock", "idle", "enqueue", "create", "insert"}
      BY <2>1, DispatchMoves DEF DispatchStep
    <3> QED BY <1>3, <1>4, <3>1 DEF Alone
  <2>2. ASSUME NEW x \in Worker, ExecutionStep(x) PROVE CountedTruly' /\ ChordSure'
    <3>1. ASSUME NEW i \in Item, Take(x, i) PROVE CountedTruly' /\ ChordSure'
      <4>1. CASE state[i] \in Final
        <5>1. act' = act /\ At(x, "idle")
          BY <3>1, <4>1 DEF Take
        <5> QED BY <1>1, <1>3, <1>4, <5>1 DEF At
      <4>2. CASE state[i] \notin Final
        <5>1. Alone(x) /\ act'[x].pc = "exec"
          BY <1>1, <3>1, <4>2, ExecutionMoves
        <5> QED BY <1>1, <1>3, <1>4, <5>1 DEF Alone
      <4> QED BY <4>1, <4>2
    <3>2. CASE End(x) \/ EndSilently(x) \/ Reload(x) \/ Notify(x)
      <4>1. Alone(x) /\ act'[x].pc \in {"idle", "reload", "notify", "lock", "mark", "read"}
        BY <1>1, <3>2, ExecutionMoves DEF Hook
      <4> QED BY <1>1, <1>3, <1>4, <4>1 DEF Alone
    <3> QED BY <2>2, <3>1, <3>2 DEF ExecutionStep, TakeAny
  <2>3. ASSUME NEW x \in Worker, Load(x) PROVE CountedTruly' /\ ChordSure'
    <3>1. Truly(x)' /\ Alone(x) /\ act'[x].pc \in {"load", "settle"}
      BY <1>1, <1>4, <2>3, LoadTruly, LoadLocal DEF CountedTruly, Load, At
    <3> QED BY <1>1, <1>3, <1>4, <3>1 DEF Alone
  <2>4. ASSUME NEW x \in Worker, GroupRead(x) \/ GroupSettle(x)
        PROVE  CountedTruly' /\ ChordSure'
    <3>1. /\ Alone(x)
          /\ \/ act'[x].pc = "idle"
             \/ /\ act'[x].pc = "load" /\ act'[x].ok = 0 /\ act'[x].bad = 0
                /\ act'[x].todo \in {{}, Parts}
      BY <1>1, <2>4, JoinMoves
    <3>2. act'[x].pc \in {"load", "settle"} => Truly(x)'
      BY <1>1, <1>4, <3>1, FreshTruly
    <3> QED BY <1>1, <1>3, <1>4, <3>1, <3>2 DEF Alone
  <2>5. ASSUME plan = "chord", NEW x \in Worker, ChordHook(x), ~Load(x)
        PROVE  CountedTruly' /\ ChordSure'
    <3>1. CASE Acquire(x) \/ ChordRecord(x)
      <4>1. Alone(x) /\ act'[x].pc \in {"read", "enqueue"}
        BY <1>1, <3>1, ExecutionMoves, JoinMoves
      <4> QED BY <1>1, <1>3, <1>4, <4>1 DEF Alone
    <3>2. CASE ChordRead(x)
      <4>1. /\ Alone(x)
            /\ \/ act'[x].pc \in {"idle", "enqueue"}
               \/ /\ act'[x].pc = "load" /\ act'[x].ok = 0 /\ act'[x].bad = 0
                  /\ act'[x].todo \in {{}, Parts}
        BY <1>1, <3>2, JoinMoves
      <4>2. act'[x].pc \in {"load", "settle"} => Truly(x)'
        BY <1>1, <1>4, <4>1, FreshTruly
      <4> QED BY <1>1, <1>3, <1>4, <4>1, <4>2 DEF Alone
    <3>3. CASE ChordSettle(x)
      <4>1. /\ Alone(x) /\ act'[x].pc \in {"idle", "body"}
            /\ act'[x].pc = "body" => act[x].ok = Size - 1
        BY <1>1, <3>3, JoinMoves
      <4>2. act'[x].pc = "body" => \A h \in Parts : Succeeded(h)
        BY <1>1, <1>4, <3>3, <4>1, SettledCount DEF ChordSettle
      <4> QED BY <1>1, <1>3, <1>4, <4>1, <4>2 DEF Alone
    <3>4. CASE ChordBody(x)
      <4>1. Alone(x) /\ act'[x].pc = "record"
        BY <1>1, <3>4, JoinMoves
      <4>2. \A h \in Parts : Succeeded(h)
        BY <1>1, <2>5, <3>4 DEF ChordSure, ChordBody, At
      <4> QED BY <1>1, <1>3, <1>4, <4>1, <4>2 DEF Alone
    <3> QED BY <2>5, <3>1, <3>2, <3>3, <3>4 DEF ChordHook
  <2>6. CASE act' = act
    <3>1. act[Handler].pc \notin {"load", "settle", "body", "record"}
      BY <1>1, <1>4 DEF ShapeInv, Role, HandlerPC
    <3> QED BY <1>1, <1>3, <1>4, <2>6, <3>1
  <2>7. (\E i \in Item : Requeue(i) \/ CancelPending(i)) \/ UNCHANGED vars => act' = act
    BY DEF Requeue, CancelPending, vars
  <2> QED BY <1>1, <1>4, <2>1, <2>2, <2>3, <2>4, <2>5, <2>6, <2>7, StepCases DEF GroupHook
<1> QED BY <1>2, <1>4

(* A chain does one thing at a time: one id waits or one actor is at work, *)
(* on the step the record is at, and every step before it has succeeded.   *)
OneAtATime ==
  /\ \A x, y \in Actor : ~At(x, "idle") /\ ~At(y, "idle") => x = y
  /\ \A x \in Actor, i \in Item : waiting[i] > 0 => At(x, "idle") /\ i = rec.step
WorkerAt(w) ==
  ~At(w, "idle") =>
    /\ act[w].item = rec.step
    /\ act[w].pc \in Steps => Succeeded(act[w].item)
    /\ At(w, "mark") => Lost(act[w].item)
    /\ At(w, "notify") => state[act[w].item] = act[w].final /\ Settled(act[w].item)
HandlerAt ==
  /\ act[Handler].pc \in {"create", "lock", "read", "run", "step"} => rec.step = 0
  /\ ~At(Handler, "finish")
  /\ act[Handler].pc \in {"insert", "enqueue"} => act[Handler].item = rec.step
ChainAlone ==
  plan = "chain" =>
    /\ OneAtATime
    /\ \A w \in Worker : WorkerAt(w)
    /\ HandlerAt
    /\ \A j \in Item : j < rec.step => Succeeded(j)
    /\ rec.state = "failed" => \A x \in Actor, i \in Item : At(x, "idle") /\ waiting[i] = 0

(* A move of the one actor at work.                                        *)
LEMMA LoneMove ==
  ASSUME ShapeInv, ChainAlone, plan = "chain", plan' = plan, waiting' = waiting,
         NEW x \in Actor, ~At(x, "idle"), Alone(x),
         x \in Worker => WorkerAt(x)', x = Handler => HandlerAt',
         \A j \in Item : j < rec'.step => Succeeded(j)',
         rec'.state = "failed" => act'[x].pc = "idle"
  PROVE  ChainAlone'
<1> USE OrchestrationAssumption
<1>1. /\ \A y \in Actor \ {x} : act'[y] = act[y] /\ act[y].pc = "idle"
      /\ \A i \in Item : waiting[i] = 0
      /\ Worker \subseteq Actor /\ Handler \in Actor
  BY DEF Alone, ChainAlone, OneAtATime, At, ShapeInv, OrchestrationTypeOK, Actor
<1>2. OneAtATime'
  BY <1>1 DEF OneAtATime, At
<1>3. \A w \in Worker : WorkerAt(w)'
  BY <1>1 DEF WorkerAt, At
<1>4. HandlerAt'
  <2>1. CASE x # Handler
    BY <1>1, <2>1 DEF HandlerAt, At
  <2> QED BY <2>1
<1>5. rec'.state = "failed" => \A y \in Actor, i \in Item : At(y, "idle")' /\ waiting'[i] = 0
  BY <1>1 DEF At
<1> QED BY <1>2, <1>3, <1>4, <1>5 DEF ChainAlone

(* What the one actor at work may rely on.                                 *)
LEMMA LoneFacts ==
  ASSUME ShapeInv, BuildInv, ChainAlone, plan = "chain", NEW x \in Actor, ~At(x, "idle")
  PROVE  /\ rec.state # "failed" /\ (x \in Worker => WorkerAt(x)) /\ (x = Handler => HandlerAt)
         /\ act[x].item \in Item /\ \A j \in Item : j < rec.step => Succeeded(j)
         /\ act[x].pc \in {"finish", "run", "step"} => act[x].seen.step = rec.step
         /\ rec.state = "none" => x = Handler /\ At(x, "create")
<1>1. rec.state # "failed"
  <2>1. 1 \in Item
    BY OrchestrationAssumption DEF Item
  <2> QED BY <2>1 DEF ChainAlone
<1>2. /\ x \in Worker => WorkerAt(x)
      /\ x = Handler => HandlerAt
      /\ \A j \in Item : j < rec.step => Succeeded(j)
  BY DEF ChainAlone
<1>3. act[x].item \in Item
  BY DEF ShapeInv, Role, At
<1>4. act[x].pc \in {"finish", "run", "step"} => act[x].seen.step = rec.step
  BY <1>1 DEF BuildInv, ChainCount
<1>5. rec.state = "none" => x = Handler /\ At(x, "create")
  BY DEF BuildInv, Creating, Actor
<1> QED BY <1>1, <1>2, <1>3, <1>4, <1>5

(* Dispatching a chain's step.                                             *)
LEMMA AloneDispatch ==
  ASSUME ShapeInv, BuildInv, OneId, ChainAlone, plan = "chain", [Next]_vars, requeues' = 0,
         NEW x \in Actor, DispatchStep(x)
  PROVE  ChainAlone'
<1> USE OrchestrationAssumption
<1>1. /\ plan' = plan /\ Parts = Item /\ Worker \subseteq Actor /\ Handler \in Actor
      /\ waiting \in [Item -> Nat] /\ Handler \notin Worker
  BY PlanKept DEF Parts, Actor, ShapeInv, OrchestrationTypeOK
<1>2. ~At(x, "idle") /\ Alone(x)
  BY DispatchMoves DEF DispatchStep, CreateRecord, Insert, Enqueue, At
<1>3. /\ rec.state # "failed" /\ (x \in Worker => WorkerAt(x)) /\ (x = Handler => HandlerAt)
      /\ act[x].item \in Item /\ \A j \in Item : j < rec.step => Succeeded(j)'
  BY <1>1, <1>2, LoneFacts, TruthsStay
<1>4. CASE x = Handler /\ CreateRecord(x)
  <2>1. /\ waiting' = waiting /\ act'[x].pc = "lock" /\ rec'.step = 0
        /\ rec'.state = "pending"
    BY <1>4, DispatchMoves DEF CreateRecord, rowVars, NoRec
  <2>2. \A j \in Item : j < rec'.step => Succeeded(j)'
    BY <2>1 DEF Item
  <2>3. HandlerAt'
    BY <1>4, <2>1 DEF HandlerAt, At
  <2> QED BY <1>1, <1>2, <1>4, <2>1, <2>2, <2>3, LoneMove
<1>5. CASE Insert(x)
  <2>1. /\ waiting' = waiting /\ act'[x].pc = "enqueue" /\ rec' = rec
        /\ act'[x].item = act[x].item /\ act[x].pc = "insert"
    BY <1>5, DispatchMoves DEF Insert, Keeps, At
  <2>2. x \in Worker => WorkerAt(x)'
    BY <1>3, <2>1 DEF WorkerAt, At, Steps
  <2>3. x = Handler => HandlerAt'
    BY <1>3, <2>1 DEF HandlerAt, At
  <2> QED BY <1>1, <1>2, <1>3, <2>1, <2>2, <2>3, LoneMove
<1>6. CASE Enqueue(x)
  <2>1. /\ act'[x].pc = "idle" /\ rec' = rec /\ act[x].pc = "enqueue"
        /\ waiting' = [waiting EXCEPT ![act[x].item] = @ + 1]
    BY <1>6, DispatchMoves DEF Enqueue, At
  <2>2. \A i \in Item : waiting[i] = 0
    BY <1>1, <1>2 DEF ChainAlone, OneAtATime
  <2>3. \A y \in Actor : act'[y].pc = "idle"
    BY <1>2, <2>1 DEF ChainAlone, OneAtATime, Alone, At
  <2>4. act[x].item = rec.step
    <3>1. CASE x = Handler
      BY <1>3, <2>1, <3>1 DEF HandlerAt
    <3>2. CASE x \in Worker
      BY <1>2, <1>3, <3>2 DEF WorkerAt
    <3> QED BY <3>1, <3>2 DEF Actor
  <2>5. \A i \in Item : waiting'[i] > 0 => i = rec'.step
    BY <1>1, <1>3, <2>1, <2>2, <2>4
  <2>6. OneAtATime' /\ HandlerAt' /\ \A w \in Worker : WorkerAt(w)'
    BY <1>1, <2>3, <2>5 DEF OneAtATime, HandlerAt, WorkerAt, At
  <2> QED BY <1>1, <1>3, <2>1, <2>6 DEF ChainAlone
<1> QED BY <1>4, <1>5, <1>6 DEF DispatchStep

(* Executing a chain's step, and the way to its hook.                      *)
LEMMA AloneExecution ==
  ASSUME ShapeInv, BuildInv, OneId, ChainAlone, plan = "chain", [Next]_vars, requeues' = 0,
         NEW x \in Worker, ExecutionStep(x)
  PROVE  ChainAlone'
<1> USE OrchestrationAssumption
<1>1. /\ plan' = plan /\ Parts = Item /\ Worker \subseteq Actor /\ Handler \in Actor
      /\ waiting \in [Item -> Nat] /\ x \in Actor /\ x # Handler
      /\ state \in [Item -> ItemState]
  BY PlanKept DEF Parts, Actor, ShapeInv, OrchestrationTypeOK
<1>2. \A j \in Item : j < rec.step => Succeeded(j)'
  BY <1>1, TruthsStay DEF ChainAlone
<1>3. ASSUME NEW i \in Item, Take(x, i) PROVE ChainAlone'
  <2>1. /\ waiting[i] > 0 /\ waiting' = [waiting EXCEPT ![i] = @ - 1] /\ rec' = rec
        /\ At(x, "idle")
    BY <1>3 DEF Take
  <2>2. /\ \A y \in Actor : At(y, "idle")
        /\ i = rec.step /\ waiting[i] = 1 /\ rec.state # "failed"
    BY <1>1, <2>1 DEF ChainAlone, OneAtATime, OneId
  <2>3. \A j \in Item : waiting'[j] = 0
    BY <1>1, <2>1, <2>2 DEF ChainAlone, OneAtATime
  <2>4. \/ act' = act
        \/ Alone(x) /\ act'[x].pc = "exec" /\ act'[x].item = i
    BY <1>1, <1>3, ExecutionMoves DEF Take
  <2>5. \A y \in Actor \ {x} : act'[y].pc = "idle"
    BY <2>2, <2>4 DEF At, Alone
  <2>6. OneAtATime'
    BY <2>3, <2>5 DEF OneAtATime, At
  <2>7. HandlerAt'
    BY <1>1, <2>5 DEF HandlerAt, At
  <2>8. \A w \in Worker : WorkerAt(w)'
    BY <1>1, <2>1, <2>2, <2>4, <2>5 DEF WorkerAt, At, Steps
  <2> QED BY <1>1, <1>2, <2>1, <2>2, <2>6, <2>7, <2>8 DEF ChainAlone
<1>4. CASE End(x) \/ EndSilently(x) \/ Reload(x) \/ Notify(x)
  <2>0. PICK i \in Item : i = act[x].item
    BY <1>1, <1>4 DEF End, EndSilently, Reload, Notify, At, ShapeInv, Role
  <2>1. ~At(x, "idle") /\ Alone(x) /\ waiting' = waiting /\ rec' = rec
    BY <1>1, <1>4, ExecutionMoves DEF End, EndSilently, Reload, Notify, rowVars, At
  <2>2. WorkerAt(x) /\ rec.state # "failed" /\ i = rec.step
    BY <1>1, <2>0, <2>1, LoneFacts DEF WorkerAt
  <2>3. CASE act'[x].pc = "idle" \/ End(x)
    <3>1. act'[x].pc # "idle" => act'[x].pc = "reload" /\ act'[x].item = i
      BY <1>1, <2>0, <2>3, ExecutionMoves DEF Keeps
    <3>2. WorkerAt(x)'
      BY <2>1, <2>2, <3>1 DEF WorkerAt, At, Steps
    <3> QED BY <1>1, <1>2, <2>1, <2>2, <3>2, LoneMove
  <2>4. CASE act'[x].pc # "idle" /\ Reload(x)
    <3>1. /\ act'[x].pc = "notify" /\ act'[x].item = i /\ act'[x].final = state[i]
          /\ state' = state
      BY <1>1, <2>0, <2>4, ExecutionMoves DEF Reload, rowVars
    <3>2. state[i] \in Final
      <4>1. state[i] \notin Final => act'[x].pc = "idle"
        BY <1>1, <2>0, <2>4, RestMoves DEF Reload, ShapeInv, OrchestrationTypeOK
      <4> QED BY <2>4, <4>1
    <3>3. WorkerAt(x)'
      BY <2>1, <2>2, <3>1, <3>2 DEF WorkerAt, At, Steps, Settled
    <3> QED BY <1>1, <1>2, <2>1, <2>2, <3>3, LoneMove
  <2>5. CASE act'[x].pc # "idle" /\ Notify(x)
    <3>1. /\ act'[x].item = i /\ act'[x].pc = Hook(i, act[x].final) /\ state' = state
          /\ At(x, "notify")
      BY <1>1, <2>0, <2>5, ExecutionMoves DEF Notify, rowVars, Keeps
    <3>2. state[i] = act[x].final
      BY <2>0, <2>1, <2>2, <3>1 DEF WorkerAt
    <3>3. \/ act'[x].pc = "lock" /\ Succeeded(i)'
          \/ act'[x].pc = "mark" /\ Lost(i)'
          \/ act'[x].pc = "idle"
      BY <3>1, <3>2 DEF Hook, Succeeded, Lost, Unhappy
    <3>4. WorkerAt(x)'
      BY <2>1, <2>2, <3>1, <3>3 DEF WorkerAt, At, Steps, Succeeded, Lost
    <3> QED BY <1>1, <1>2, <2>1, <2>2, <3>4, LoneMove
  <2>6. EndSilently(x) => act'[x].pc = "idle"
    BY <1>1, ExecutionMoves
  <2> QED BY <1>4, <2>3, <2>4, <2>5, <2>6
<1> QED BY <1>3, <1>4 DEF ExecutionStep, TakeAny

(* The hook that advances a chain.                                         *)
LEMMA AloneHook ==
  ASSUME ShapeInv, BuildInv, OneId, ChainAlone, plan = "chain", [Next]_vars, requeues' = 0,
         NEW x \in Actor, ChainHook(x)
  PROVE  ChainAlone'
<1> USE OrchestrationAssumption
<1>1. /\ plan' = plan /\ Parts = Item /\ Handler \notin Worker /\ rec \in Record
      /\ InRange(x) /\ waiting' = waiting /\ state' = state
  BY PlanKept DEF Parts, Actor, ShapeInv, OrchestrationTypeOK, ChainHook, MarkFailed, Acquire,
                  ChainRead, ChainFinish, ChainRun, ChainStep, rowVars
<1>2. ~At(x, "idle") /\ ~At(x, "create") /\ Alone(x)
  BY ExecutionMoves, ChainMoves
     DEF ChainHook, MarkFailed, Acquire, ChainRead, ChainFinish, ChainRun, ChainStep, At
<1>3. /\ rec.state \notin {"failed", "none"} /\ (x \in Worker => WorkerAt(x))
      /\ x = Handler => HandlerAt
      /\ act[x].item \in Item /\ \A j \in Item : j < rec.step => Succeeded(j)
      /\ act[x].pc \in {"finish", "run", "step"} => act[x].seen.step = rec.step
  BY <1>2, LoneFacts
<1>4. \A j \in Item : Succeeded(j)' <=> Succeeded(j)
  BY <1>1 DEF Succeeded
<1>5. CASE MarkFailed(x)
  <2>1. rec'.step = 0 /\ act'[x].pc = "idle" /\ x # Handler
    BY <1>1, <1>3, <1>5, RecordWrites, ChainMoves DEF MarkFailed, ChainHook, HandlerAt, At,
       ShapeInv, Role, HandlerPC, Steps
  <2>2. WorkerAt(x)' /\ \A j \in Item : j < rec'.step => Succeeded(j)'
    BY <2>1 DEF WorkerAt, At, Item
  <2> QED BY <1>1, <1>2, <2>1, <2>2, LoneMove
<1>6. CASE Acquire(x) \/ ChainRead(x)
  <2>1. /\ rec' = rec /\ act[x].pc \in {"lock", "read"}
        /\ \/ act'[x].pc = "idle"
           \/ /\ act'[x].item = act[x].item /\ act'[x].pc \in {"read", "finish", "run", "step"}
              /\ act'[x].pc = "finish" => rec.step >= Size
    BY <1>6, ExecutionMoves, ChainMoves DEF Acquire, ChainRead, At, Keeps
  <2>2. x \in Worker => WorkerAt(x)'
    BY <1>3, <1>4, <2>1 DEF WorkerAt, At, Steps
  <2>3. x = Handler => HandlerAt'
    BY <1>3, <2>1 DEF HandlerAt, At
  <2> QED BY <1>1, <1>2, <1>3, <1>4, <2>1, <2>2, <2>3, LoneMove
<1>7. CASE ChainFinish(x)
  <2>1. /\ rec'.step = rec.step /\ rec'.state = "success" /\ act'[x].pc = "idle"
    BY <1>1, <1>3, <1>7, RecordWrites, ChainMoves DEF ChainFinish, At
  <2>2. (x \in Worker => WorkerAt(x)') /\ (x = Handler => HandlerAt')
    BY <2>1 DEF WorkerAt, HandlerAt, At
  <2> QED BY <1>1, <1>2, <1>3, <1>4, <2>1, <2>2, LoneMove
<1>8. CASE ChainRun(x)
  <2>1. /\ rec'.step = rec.step /\ rec'.state = "running" /\ act'[x].pc = "step"
        /\ act'[x].item = act[x].item /\ act[x].pc = "run"
    BY <1>1, <1>3, <1>8, RecordWrites, ChainMoves DEF ChainRun, At, Keeps
  <2>2. x \in Worker => WorkerAt(x)'
    BY <1>3, <1>4, <2>1 DEF WorkerAt, At, Steps
  <2>3. x = Handler => HandlerAt'
    BY <1>3, <2>1 DEF HandlerAt, At
  <2> QED BY <1>1, <1>2, <1>3, <1>4, <2>1, <2>2, <2>3, LoneMove
<1>9. CASE ChainStep(x)
  <2>1. /\ rec'.step = rec.step + 1 /\ rec'.state = "running" /\ act'[x].pc = "insert"
        /\ act'[x].item = rec.step + 1 /\ act[x].pc = "step"
    <3>1. act[x].pc = "step" /\ act[x].seen.step = rec.step
      BY <1>3, <1>9 DEF ChainStep, At
    <3>2. act'[x].pc = "insert" /\ act'[x].item = act[x].seen.step + 1
      BY <1>2, <1>9, ChainMoves
    <3>3. rec'.step = act[x].seen.step + 1 /\ rec'.state = "running"
      BY <1>1, <1>3, <1>9, RecordWrites DEF ChainStep
    <3> QED BY <3>1, <3>2, <3>3
  <2>2. x \in Worker => WorkerAt(x)'
    BY <2>1 DEF WorkerAt, At, Steps
  <2>3. x = Handler => HandlerAt'
    BY <2>1 DEF HandlerAt, At
  <2>4. rec.step \in Item => Succeeded(rec.step)
    <3>1. CASE x = Handler
      BY <1>3, <2>1, <3>1 DEF HandlerAt, Item
    <3>2. CASE x \in Worker
      BY <1>3, <2>1, <3>2 DEF WorkerAt, At, Steps
    <3> QED BY <3>1, <3>2 DEF Actor
  <2>5. ASSUME NEW j \in Item, j < rec'.step PROVE Succeeded(j)'
    <3>1. j < rec.step \/ j = rec.step
      BY <1>1, <2>1, <2>5 DEF Item, Record
    <3> QED BY <1>3, <1>4, <2>4, <3>1
  <2> QED BY <1>1, <1>2, <2>1, <2>2, <2>3, <2>5, LoneMove
<1> QED BY <1>5, <1>6, <1>7, <1>8, <1>9 DEF ChainHook

(* Every step but a requeue leaves a chain alone with its one thing.       *)
LEMMA AloneStep ==
  ASSUME ShapeInv, BuildInv, OneId, ChainAlone, [Next]_vars, requeues' = 0
  PROVE  ChainAlone'
<1>1. CASE plan # "chain"
  BY <1>1, PlanKept DEF ChainAlone
<1>2. CASE plan = "chain"
  <2>1. ASSUME UNCHANGED <<plan, waiting, rec, act>> PROVE ChainAlone'
    <3>1. \A i \in Item : (Succeeded(i) => Succeeded(i)') /\ (Lost(i) => Lost(i)')
                          /\ (Settled(i) => state'[i] = state[i])
      BY <1>2, TruthsStay, EndsStay DEF Parts
    <3>2. ASSUME NEW w \in Worker, WorkerAt(w) PROVE WorkerAt(w)'
      <4>1. act[w].pc # "idle" => act[w].item \in Item
        BY DEF ShapeInv, Role, Actor
      <4> QED BY <2>1, <3>1, <3>2, <4>1 DEF WorkerAt, At, Settled
    <3>3. OneAtATime' /\ HandlerAt'
      BY <1>2, <2>1 DEF ChainAlone, OneAtATime, HandlerAt, At
    <3> QED BY <1>2, <2>1, <3>1, <3>2, <3>3 DEF ChainAlone, At
  <2>2. (\E i \in Item : CancelPending(i)) \/ UNCHANGED vars =>
          UNCHANGED <<plan, waiting, rec, act>>
    BY DEF CancelPending, vars, rowVars
  <2> QED BY <1>2, <2>1, <2>2, StepCases, AloneDispatch, AloneExecution, AloneHook, NoRequeue
<1> QED BY <1>1, <1>2

-----------------------------------------------------------------------------
(* What is built and recorded agrees with the rows.                        *)

(* Only a dispatch builds, and a chord's hook its callback.                *)
LEMMA Builders ==
  ASSUME ShapeInv, [Next]_vars, NEW i \in Item, built'[i] # built[i]
  PROVE  \/ \E x \in Actor : Insert(x) /\ act[x].item = i
         \/ plan = "chord" /\ i = Callback /\ \E w \in Worker : ChordBody(w)
<1>1. built \in [Item -> Nat]
  BY DEF ShapeInv, OrchestrationTypeOK
<1>2. ASSUME NEW x \in Actor, DispatchStep(x) PROVE Insert(x) /\ act[x].item = i
  <2>1. Insert(x)
    BY <1>2 DEF DispatchStep, CreateRecord, Enqueue, rowVars
  <2> QED BY <1>1, <2>1 DEF Insert, InsertRow
<1>3. ASSUME NEW x \in Worker, ExecutionStep(x) PROVE FALSE
  BY <1>3 DEF ExecutionStep, TakeAny, Take, End, EndSilently, Reload, Notify, rowVars
<1>4. ASSUME NEW x \in Actor, ChainHook(x) PROVE FALSE
  BY <1>4 DEF ChainHook, MarkFailed, Acquire, ChainRead, ChainFinish, ChainRun, ChainStep,
              rowVars
<1>5. ASSUME NEW x \in Worker, GroupHook(x) PROVE FALSE
  BY <1>5 DEF GroupHook, GroupRead, Load, GroupSettle, rowVars
<1>6. ASSUME NEW x \in Worker, ChordHook(x) PROVE ChordBody(x) /\ i = Callback
  <2>1. ChordBody(x)
    BY <1>6 DEF ChordHook, Acquire, ChordRead, Load, ChordSettle, ChordRecord, rowVars
  <2> QED BY <1>1, <2>1 DEF ChordBody, InsertRow
<1>7. ASSUME NEW j \in Item, Requeue(j) \/ CancelPending(j) PROVE FALSE
  BY <1>7 DEF Requeue, CancelPending
<1>8. UNCHANGED vars => built' = built
  BY DEF vars, rowVars
<1> QED BY <1>2, <1>3, <1>4, <1>5, <1>6, <1>7, <1>8, StepCases

(* A step is built only when the one before it has succeeded, a callback   *)
(* when every header has.                                                  *)
LEMMA DependenciesStep ==
  ASSUME ShapeInv, BuildInv, OneId, ChordSure, ChainAlone, DependenciesMet, requeues = 0,
         [Next]_vars, requeues' = 0
  PROVE  DependenciesMet'
<1> USE OrchestrationAssumption
<1>1. /\ plan' = plan /\ plan \in {"chain", "group", "chord"} /\ Parts' = Parts
      /\ built \in [Item -> Nat]
  BY PlanKept DEF ShapeInv, OrchestrationTypeOK, Parts
<1>2. ASSUME plan = "chain", NEW i \in Item, built'[i] > 0, i > 1
      PROVE  state'[i - 1] = "success"
  <2>1. i - 1 \in Parts
    BY <1>2 DEF Parts, Item
  <2>2. CASE built[i] > 0
    <3>1. Succeeded(i - 1)
      BY <1>2, <2>2 DEF DependenciesMet, Succeeded
    <3> QED BY <2>1, <3>1, TruthsStay DEF Succeeded
  <2>3. CASE ~(built[i] > 0)
    <3>1. PICK x \in Actor : Insert(x) /\ act[x].item = i
      BY <1>2, <2>3, Builders
    <3>2. At(x, "insert") /\ ~At(x, "idle")
      BY <3>1 DEF Insert, At
    <3>3. i = rec.step
      BY <1>2, <3>1, <3>2, LoneFacts DEF WorkerAt, HandlerAt, At, Actor
    <3>4. i - 1 < rec.step /\ i - 1 \in Item
      BY <1>2, <2>1, <3>3 DEF Item, Parts
    <3>5. Succeeded(i - 1)
      BY <1>2, <3>2, <3>4, LoneFacts
    <3> QED BY <2>1, <3>5, TruthsStay DEF Succeeded
  <2> QED BY <2>2, <2>3
<1>3. ASSUME plan = "chord", built'[Callback] > 0, NEW h \in Parts
      PROVE  state'[h] = "success"
  <2>1. Callback \in Item
    BY DEF Callback, Item
  <2>2. CASE built[Callback] > 0
    <3>1. Succeeded(h)
      BY <1>3, <2>1, <2>2 DEF DependenciesMet, Succeeded
    <3> QED BY <3>1, TruthsStay DEF Succeeded
  <2>3. CASE ~(built[Callback] > 0)
    <3>1. \/ \E x \in Actor : Insert(x) /\ act[x].item = Callback
          \/ \E w \in Worker : ChordBody(w)
      BY <1>3, <2>1, <2>3, Builders
    <3>2. ~ \E x \in Actor : Insert(x) /\ act[x].item = Callback
      BY <1>3 DEF Insert, At, ShapeInv, Role, WorkerPC
    <3>3. \E x \in Actor : At(x, "body")
      BY <3>1, <3>2 DEF ChordBody, Actor
    <3>4. Succeeded(h)
      BY <1>3, <3>3 DEF ChordSure, At
    <3> QED BY <3>4, TruthsStay DEF Succeeded
  <2> QED BY <2>2, <2>3
<1> QED BY <1>1, <1>2, <1>3 DEF DependenciesMet

(* An end that is recorded is one that the rows show.                      *)
LEMMA Recorders ==
  ASSUME ShapeInv, BuildInv, CountedTruly, ChordSure, ChainAlone, [Next]_vars
  PROVE  \/ rec' = rec
         \/ rec'.state \notin {"success", "failed", "partial_failed"}
         \/ rec'.state = "success" /\ \A i \in Parts : Succeeded(i)
         \/ rec'.state \in {"failed", "partial_failed"} /\ \E i \in Parts : Lost(i)
<1> USE OrchestrationAssumption
<1> DEFINE Shown == \/ rec' = rec
                    \/ rec'.state \notin {"success", "failed", "partial_failed"}
                    \/ rec'.state = "success" /\ \A i \in Parts : Succeeded(i)
                    \/ rec'.state \in {"failed", "partial_failed"} /\ \E i \in Parts : Lost(i)
<1>1. rec \in Record /\ Worker \subseteq Actor
  BY DEF ShapeInv, OrchestrationTypeOK, Actor
<1>2. ASSUME NEW x \in Actor, DispatchStep(x) PROVE Shown
  BY <1>2 DEF DispatchStep, CreateRecord, Insert, Enqueue, NoRec
<1>3. ASSUME NEW x \in Worker, ExecutionStep(x) PROVE Shown
  BY <1>3 DEF ExecutionStep, TakeAny, Take, End, EndSilently, Reload, Notify
<1>4. ASSUME plan = "chain", NEW x \in Actor, ChainHook(x) PROVE Shown
  <2>0. Parts = Item
    BY <1>4 DEF Parts
  <2>1. CASE MarkFailed(x)
    <3>1. x \in Worker /\ At(x, "mark") /\ ~At(x, "idle")
      <4>1. At(x, "mark")
        BY <2>1 DEF MarkFailed
      <4>2. x # Handler
        BY <4>1 DEF ShapeInv, Role, HandlerPC, Steps, At
      <4> QED BY <4>1, <4>2 DEF Actor, At
    <3>2. Lost(act[x].item) /\ act[x].item \in Item
      BY <1>4, <3>1, LoneFacts DEF WorkerAt
    <3>3. rec' = rec \/ rec'.state = "failed"
      BY <1>1, <2>1, RecordWrites DEF MarkFailed
    <3> QED BY <2>0, <3>2, <3>3
  <2>2. CASE ChainFinish(x)
    <3>1. At(x, "finish") /\ ~At(x, "idle") /\ act[x].seen.step = Size
      BY <2>2 DEF ChainFinish, At, ShapeInv, InRange
    <3>2. rec.step = Size /\ x \in Worker
      BY <1>4, <3>1, LoneFacts DEF HandlerAt, At, Actor
    <3>3. Succeeded(Size)
      BY <1>1, <1>4, <3>1, <3>2, LoneFacts DEF WorkerAt, At, Steps
    <3>4. \A i \in Item : Succeeded(i)
      <4>1. \A i \in Item : i = Size \/ i < Size
        BY DEF Item
      <4> QED BY <1>1, <1>4, <3>1, <3>2, <3>3, <4>1, LoneFacts
    <3>5. rec' = rec \/ rec'.state = "success"
      BY <1>1, <2>2, RecordWrites DEF ChainFinish
    <3> QED BY <2>0, <3>4, <3>5
  <2>3. CASE ChainRun(x) \/ ChainStep(x)
    <3>1. rec' = rec \/ rec'.state = "running"
      BY <1>1, <2>3, RecordWrites DEF ChainRun, ChainStep
    <3> QED BY <3>1
  <2>4. CASE Acquire(x) \/ ChainRead(x)
    BY <2>4 DEF Acquire, ChainRead
  <2> QED BY <1>4, <2>1, <2>2, <2>3, <2>4 DEF ChainHook
<1>5. ASSUME plan = "group", NEW x \in Worker, GroupHook(x) PROVE Shown
  <2>1. CASE GroupSettle(x)
    <3> DEFINE total == IF act[x].seen.state = "none" THEN 0 ELSE Size - 1
               s == Summary(total, act[x].ok, act[x].bad)
    <3>1. /\ act[x].ok \in Nat /\ act[x].bad \in Nat /\ act[x].ok + act[x].bad <= Size - 1
          /\ act[x].ok = Size - 1 => \A i \in Parts : Succeeded(i)
          /\ act[x].bad > 0 => \E i \in Parts : Lost(i)
      BY <1>1, <1>5, <2>1, SettledCount DEF GroupSettle
    <3>2. s = "success" => act[x].ok = Size - 1
      BY <3>1 DEF Summary
    <3>3. s \in {"failed", "partial_failed"} => act[x].bad > 0
      BY <3>1 DEF Summary
    <3>4. UpdateGroupState(s)
      BY <2>1 DEF GroupSettle
    <3> HIDE DEF s
    <3>5. rec' = rec \/ rec'.state = s
      BY <1>1, <3>4, RecordWrites
    <3> QED BY <3>1, <3>2, <3>3, <3>5
  <2>2. CASE GroupRead(x) \/ Load(x)
    BY <2>2 DEF GroupRead, Load
  <2> QED BY <1>5, <2>1, <2>2 DEF GroupHook
<1>6. ASSUME plan = "chord", NEW x \in Worker, ChordHook(x) PROVE Shown
  <2>1. CASE ChordSettle(x)
    <3>1. act[x].bad > 0 => \E i \in Parts : Lost(i)
      BY <1>1, <1>6, <2>1, SettledCount DEF ChordSettle
    <3>2. CASE act[x].bad > 0
      <4>1. UpdateChordState("partial_failed", FALSE)
        BY <2>1, <3>2 DEF ChordSettle
      <4>2. rec' = rec \/ rec'.state = "partial_failed"
        BY <1>1, <4>1 DEF UpdateChordState, UpdateRecord, Record
      <4> QED BY <3>1, <3>2, <4>2
    <3>3. CASE ~(act[x].bad > 0)
      <4>1. rec' = rec \/ UpdateChordState("running", FALSE)
        BY <2>1, <3>3 DEF ChordSettle
      <4>2. rec' = rec \/ rec'.state = "running"
        BY <1>1, <4>1 DEF UpdateChordState, UpdateRecord, Record
      <4> QED BY <4>2
    <3> QED BY <3>2, <3>3
  <2>2. CASE ChordRecord(x)
    <3>1. \A i \in Parts : Succeeded(i)
      BY <1>1, <1>6, <2>2 DEF ChordRecord, ChordSure, At
    <3>2. rec' = rec \/ rec'.state = "success"
      BY <1>1, <2>2 DEF ChordRecord, UpdateChordState, UpdateRecord, Record
    <3> QED BY <3>1, <3>2
  <2>3. CASE Acquire(x) \/ ChordRead(x) \/ Load(x) \/ ChordBody(x)
    BY <2>3 DEF Acquire, ChordRead, Load, ChordBody
  <2> QED BY <1>6, <2>1, <2>2, <2>3 DEF ChordHook
<1>7. (\E i \in Item : Requeue(i) \/ CancelPending(i)) \/ UNCHANGED vars => rec' = rec
  BY DEF Requeue, CancelPending, vars
<1> QED BY <1>2, <1>3, <1>4, <1>5, <1>6, <1>7, StepCases

(* Every step but a requeue keeps the record truthful.                     *)
LEMMA TruthStep ==
  ASSUME ShapeInv, BuildInv, OneId, CountedTruly, ChordSure, ChainAlone, RecordTruthful,
         requeues = 0, [Next]_vars, requeues' = 0
  PROVE  RecordTruthful'
<1>1. Parts' = Parts
  BY PlanKept DEF Parts
<1>2. /\ rec.state = "success" => \A i \in Parts : Succeeded(i)
      /\ rec.state \in {"failed", "partial_failed"} => \E i \in Parts : Lost(i)
  BY DEF RecordTruthful, Succeeded, Lost
<1>3. /\ rec'.state = "success" => \A i \in Parts : Succeeded(i)
      /\ rec'.state \in {"failed", "partial_failed"} => \E i \in Parts : Lost(i)
  BY <1>2, Recorders
<1>4. /\ rec'.state = "success" => \A i \in Parts : Succeeded(i)'
      /\ rec'.state \in {"failed", "partial_failed"} => \E i \in Parts : Lost(i)'
  BY <1>3, TruthsStay
<1> QED BY <1>1, <1>4 DEF RecordTruthful, Succeeded, Lost

-----------------------------------------------------------------------------
(* As long as nobody has requeued a task.                                  *)
FreshInv ==
  requeues = 0 =>
    OneId /\ CountedTruly /\ ChordSure /\ ChainAlone /\ DependenciesMet /\ RecordTruthful
OrchestrationInv == ShapeInv /\ BuildInv /\ FreshInv

(* Nothing has happened yet.                                               *)
LEMMA InitFresh == Init => FreshInv
<1> SUFFICES ASSUME Init PROVE FreshInv
  OBVIOUS
<1> USE OrchestrationAssumption
<1>1. /\ \A x \in Actor \ {Handler} : act[x].pc = "idle"
      /\ act[Handler].pc = IF plan = "chain" THEN "create" ELSE "insert"
      /\ Handler \in Actor /\ Handler \notin Worker /\ Worker \subseteq Actor
  BY DEF Init, Actor, Idle
<1>2. /\ \A i \in Item : built[i] = 0 /\ state[i] = "absent" /\ waiting[i] = 0
      /\ rec.state = "none" /\ rec.step = 0 /\ Parts \subseteq Item
  BY DEF Init, NoRec, Parts
<1>3. OneId
  BY <1>1, <1>2 DEF OneId, Holds
<1>4. CountedTruly /\ ChordSure
  BY <1>1 DEF CountedTruly, ChordSure
<1>5. ChainAlone
  <2>1. \A w \in Worker : At(w, "idle")
    BY <1>1 DEF At
  <2> QED BY <1>1, <1>2, <2>1 DEF ChainAlone, OneAtATime, WorkerAt, HandlerAt, At, Item
<1>6. DependenciesMet /\ RecordTruthful
  BY <1>2 DEF DependenciesMet, RecordTruthful, Callback, Item
<1> QED BY <1>3, <1>4, <1>5, <1>6 DEF FreshInv

(* Every step keeps all of it.                                             *)
LEMMA FreshStep ==
  ASSUME ShapeInv, BuildInv, FreshInv, [Next]_vars
  PROVE  FreshInv'
<1>1. requeues' = 0 => requeues = 0
  <2>1. requeues' = requeues \/ requeues' = requeues + 1
    BY DEF Next, HandleOp, NotifyHook, Advance, TakeAny, Take, End, EndSilently, Reload,
       Notify, CreateRecord, Insert, Enqueue, MarkFailed, Acquire, ChainRead, ChainFinish,
       ChainRun, ChainStep, GroupRead, Load, GroupSettle, ChordRead, ChordSettle, ChordBody,
       ChordRecord, Requeue, CancelPending, vars, history
  <2> QED BY <2>1 DEF ShapeInv, OrchestrationTypeOK
<1> SUFFICES ASSUME requeues = 0, requeues' = 0 PROVE FreshInv'
  BY <1>1 DEF FreshInv
<1> QED BY OneIdStep, CountStep, AloneStep, DependenciesStep, TruthStep DEF FreshInv

(* The whole invariant.                                                    *)
THEOREM OrchestrationInvariant == Spec => []OrchestrationInv
<1>1. Init => FreshInv
  BY InitFresh
<1>2. ShapeInv /\ BuildInv /\ FreshInv /\ [Next]_vars => FreshInv'
  BY FreshStep
<1> QED BY <1>1, <1>2, BuildInvariant, PTL DEF Spec, OrchestrationInv

(* Where nobody requeues, a step is dispatched only after the one before   *)
(* it succeeded, and the callback only after every header did: the end of  *)
(* an execution is final, so what a hook counted still holds when it acts. *)
THEOREM DependenciesAlwaysMet == Spec => []DependenciesMet
<1>1. OrchestrationInv => DependenciesMet
  BY DEF OrchestrationInv, FreshInv, DependenciesMet
<1> QED BY <1>1, OrchestrationInvariant, PTL

(* Where nobody requeues, a record never claims an end that the rows do    *)
(* not show, although mark_failed and a group's refresh take no mutex.     *)
THEOREM RecordAlwaysTruthful == Spec => []RecordTruthful
<1>1. OrchestrationInv => RecordTruthful
  BY DEF OrchestrationInv, FreshInv, RecordTruthful
<1> QED BY <1>1, OrchestrationInvariant, PTL
=============================================================================
