------------------------ MODULE OrchestrationProofs ------------------------
(***************************************************************************)
(* Proofs about chains, groups and chords of every size, for every number  *)
(* of futures under way and of requeues.                                   *)
(***************************************************************************)
EXTENDS OrchestrationProps, TLAPS

-----------------------------------------------------------------------------
(* What holds of one actor by itself: the handler creates, the workers     *)
(* execute and run the hooks of the kind of orchestration there is; a      *)
(* chain's step is one of its steps; a hook that loads rows has counted    *)
(* those below the first it still has to load.                             *)

Steps == {"lock", "read", "finish", "run", "step"}
HandlerPC == {"idle", "create", "insert", "enqueue"} \cup IF plan = "chain" THEN Steps ELSE {}
WorkerPC ==
  {"idle", "exec", "reload", "notify"} \cup
    IF plan = "chain" THEN Steps \cup {"mark", "insert", "enqueue"}
    ELSE IF plan = "group" THEN {"read", "load", "settle"}
    ELSE {"lock", "read", "load", "settle", "body", "record", "enqueue"}

Role(x) ==
  /\ act[x].pc \in IF x = Handler THEN HandlerPC ELSE WorkerPC
  /\ act[x].pc # "idle" => act[x].item \in Item
  /\ plan # "chain" /\ x = Handler /\ act[x].pc \in {"insert", "enqueue"} =>
       act[x].item # Callback
  /\ plan # "chain" /\ x # Handler /\ At(x, "enqueue") => act[x].item = Callback

Counted(x, m) ==
  /\ act[x].todo = m..(Size - 1)
  /\ act[x].ok + act[x].bad <= m - 1

InRange(x) ==
  /\ act[x].pc \in {"run", "step"} => act[x].seen.step < Size
  /\ At(x, "finish") => act[x].seen.step = Size
  /\ act[x].pc \notin {"load", "settle", "body", "record"} => act[x].ok = 0 /\ act[x].bad = 0
  /\ act[x].pc \in {"load", "settle"} => \E m \in 1..Size : Counted(x, m)
  /\ At(x, "settle") => act[x].todo = {}

(* The mutex is held from the read of the record to its last write.        *)
Critical == {"read", "finish", "run", "step", "load", "settle", "body", "record"}
Mutex == plan # "group" => \A x \in Actor : act[x].pc \in Critical <=> lock = x

ShapeInv ==
  /\ OrchestrationTypeOK
  /\ \A x \in Actor : Role(x) /\ InRange(x)
  /\ Mutex

-----------------------------------------------------------------------------
(* What a step does to the actors: one of them moves, the others stay.     *)

Alone(x) == act' \in [Actor -> ActorState] /\ \A y \in Actor \ {x} : act'[y] = act[y]
Keeps(x) ==
  /\ act'[x].item = act[x].item /\ act'[x].final = act[x].final
  /\ act'[x].seen = act[x].seen /\ act'[x].todo = act[x].todo
  /\ act'[x].ok = act[x].ok /\ act'[x].bad = act[x].bad

(* To another place with all that is kept.                                 *)
LEMMA GotoMoves ==
  ASSUME act \in [Actor -> ActorState], NEW x \in Actor, NEW pc \in PC, Goto(x, pc)
  PROVE  Alone(x) /\ Keeps(x) /\ act'[x].pc = pc
<1>1. act[x] \in ActorState
  OBVIOUS
<1>2. act' = [act EXCEPT ![x] = [act[x] EXCEPT !.pc = pc]]
  BY DEF Goto
<1> QED BY <1>1, <1>2 DEF Alone, Keeps, ActorState

(* To rest.                                                                *)
LEMMA RestMoves ==
  ASSUME act \in [Actor -> ActorState], NEW x \in Actor, Rest(x)
  PROVE  Alone(x) /\ act'[x].pc = "idle" /\ act'[x].ok = 0 /\ act'[x].bad = 0
<1>1. Idle \in ActorState
  BY OrchestrationAssumption DEF Idle, ActorState, NoRec, Record, PC, ItemState, Item
<1> QED BY <1>1 DEF Rest, Alone, Idle

(* To a dispatch with nothing but an item.                                 *)
LEMMA AnewMoves ==
  ASSUME act \in [Actor -> ActorState], NEW x \in Actor,
         NEW pc \in {"insert", "enqueue"}, NEW i \in Item,
         act' = [act EXCEPT ![x] = [Idle EXCEPT !.pc = pc, !.item = i]]
  PROVE  /\ Alone(x) /\ act'[x].pc = pc /\ act'[x].item = i
         /\ act'[x].ok = 0 /\ act'[x].bad = 0
<1> USE OrchestrationAssumption
<1> DEFINE r == [Idle EXCEPT !.pc = pc, !.item = i]
<1>1. Idle \in ActorState
  BY DEF Idle, ActorState, NoRec, Record, PC, ItemState, Item
<1>2. pc \in PC /\ i \in 0..Size
  BY DEF PC, Item
<1>3. r \in ActorState
  BY <1>1, <1>2 DEF ActorState
<1>4. r.pc = pc /\ r.item = i /\ r.ok = 0 /\ r.bad = 0
  BY DEF Idle
<1>5. act' = [act EXCEPT ![x] = r]
  OBVIOUS
<1> HIDE DEF r
<1> QED BY <1>3, <1>4, <1>5 DEF Alone

(* To another place with another item.                                     *)
LEMMA ItemMoves ==
  ASSUME act \in [Actor -> ActorState], NEW x \in Actor, NEW pc \in PC, NEW i \in Item,
         act' = [act EXCEPT ![x].pc = pc, ![x].item = i]
  PROVE  /\ Alone(x) /\ act'[x].pc = pc /\ act'[x].item = i
         /\ act'[x].ok = act[x].ok /\ act'[x].bad = act[x].bad
<1> DEFINE r == [act[x] EXCEPT !.pc = pc, !.item = i]
<1>1. act[x] \in ActorState /\ i \in 0..Size
  BY OrchestrationAssumption DEF Item
<1>2. r \in ActorState
  BY <1>1 DEF ActorState
<1>3. r.pc = pc /\ r.item = i /\ r.ok = act[x].ok /\ r.bad = act[x].bad
  BY <1>1 DEF ActorState
<1>4. act' = [act EXCEPT ![x] = r]
  OBVIOUS
<1> HIDE DEF r
<1> QED BY <1>2, <1>3, <1>4 DEF Alone

-----------------------------------------------------------------------------
(* Types, places and the mutex.                                            *)

(* What the moving actor keeps for itself, all keep.                       *)
LEMMA LocalKept ==
  ASSUME \A y \in Actor : Role(y) /\ InRange(y), NEW x \in Actor, Alone(x), plan' = plan,
         Role(x)', InRange(x)'
  PROVE  \A y \in Actor : Role(y)' /\ InRange(y)'
<1> SUFFICES ASSUME NEW y \in Actor, y # x PROVE Role(y)' /\ InRange(y)'
  OBVIOUS
<1>1. act'[y] = act[y] /\ Role(y) /\ InRange(y)
  BY DEF Alone
<1>2. Role(y)'
  BY <1>1 DEF Role, At, HandlerPC, WorkerPC
<1>3. InRange(y)'
  BY <1>1 DEF InRange, At, Counted
<1> QED BY <1>2, <1>3

(* Who takes the mutex finds it free, and who releases it had it.          *)
LEMMA MutexKept ==
  ASSUME Mutex, NEW x \in Actor, Alone(x), plan' = plan,
         \/ lock' = lock /\ (act'[x].pc \in Critical <=> act[x].pc \in Critical)
         \/ lock = None /\ lock' = x /\ act'[x].pc \in Critical
         \/ act[x].pc \in Critical /\ lock' = None /\ act'[x].pc \notin Critical
         \/ plan = "group"
  PROVE  Mutex'
<1>1. None \notin Actor
  BY OrchestrationAssumption DEF Actor
<1> SUFFICES ASSUME plan # "group", NEW y \in Actor
             PROVE  act'[y].pc \in Critical <=> lock' = y
  BY DEF Mutex
<1>2. /\ act[y].pc \in Critical <=> lock = y
      /\ act[x].pc \in Critical <=> lock = x
      /\ y # x => act'[y] = act[y]
  BY DEF Mutex, Alone
<1> QED BY <1>1, <1>2

(* There is a record that is none.                                         *)
LEMMA NoRecTyped == NoRec \in Record
BY OrchestrationAssumption DEF NoRec, Record

(* Record updates keep the record well typed.                              *)
LEMMA RecordTyped ==
  ASSUME rec \in Record
  PROVE  /\ \A n \in 0..Size, s \in {"running", "success", "failed"} :
              UpdateChainStep(n, s) => rec' \in Record
         /\ \A s \in {"pending", "running", "success", "failed", "partial_failed"} :
              UpdateGroupState(s) => rec' \in Record
         /\ \A s \in {"running", "success", "partial_failed"}, b \in BOOLEAN :
              UpdateChordState(s, b) => rec' \in Record
BY DEF UpdateChainStep, UpdateGroupState, UpdateChordState, UpdateRecord, Record

(* The parts below the n-th are an interval; the least of one is its first.*)
LEMMA LeastOfInterval ==
  ASSUME NEW m \in Int, NEW n \in Int, m <= n
  PROVE  Min(m..n) = m
<1>1. m \in m..n /\ \A y \in m..n : m <= y
  OBVIOUS
<1>2. Min(m..n) \in m..n /\ \A y \in m..n : Min(m..n) <= y
  BY <1>1 DEF Min
<1> QED BY <1>1, <1>2

(* Rows and counts written by the handler's and the workers' dispatches.   *)
LEMMA RowsTyped ==
  ASSUME OrchestrationTypeOK, NEW i \in Item
  PROVE  /\ InsertRow(i) => state' \in [Item -> ItemState] /\ built' \in [Item -> Nat]
         /\ waiting' = [waiting EXCEPT ![i] = @ + 1] => waiting' \in [Item -> Nat]
         /\ \A s \in ItemState : state' = [state EXCEPT ![i] = s] =>
              state' \in [Item -> ItemState]
BY DEF OrchestrationTypeOK, InsertRow, ItemState

-----------------------------------------------------------------------------
(* What each action does to its actor.                                     *)

(* Creating the record, inserting and enqueueing.                          *)
LEMMA DispatchMoves ==
  ASSUME ShapeInv, NEW x \in Actor
  PROVE  /\ x = Handler /\ CreateRecord(x) =>
              /\ Alone(x) /\ act'[x].ok = 0 /\ act'[x].bad = 0
              /\ plan = "chain" => act'[x].pc = "lock" /\ Keeps(x)
              /\ plan # "chain" => act'[x].pc = "idle"
         /\ Insert(x) => Alone(x) /\ Keeps(x) /\ act'[x].pc = "enqueue"
         /\ Enqueue(x) =>
              /\ Alone(x) /\ act'[x].ok = 0 /\ act'[x].bad = 0
              /\ \/ act'[x].pc = "idle" /\ (x # Handler \/ plan = "chain")
                 \/ /\ act'[x].pc = "create" /\ x = Handler /\ plan # "chain"
                    /\ act'[x].item = act[x].item /\ act[x].item = Size - 1
                 \/ /\ act'[x].pc = "insert" /\ x = Handler /\ plan # "chain"
                    /\ act'[x].item = act[x].item + 1 /\ act[x].item # Size - 1
<1> USE OrchestrationAssumption
<1>1. act \in [Actor -> ActorState] /\ Role(x) /\ InRange(x)
  BY DEF ShapeInv, OrchestrationTypeOK
<1>2. "lock" \in PC /\ "enqueue" \in PC /\ "create" \in PC /\ "insert" \in PC
  BY DEF PC
<1>3. x = Handler /\ CreateRecord(x) =>
        /\ Alone(x) /\ act'[x].ok = 0 /\ act'[x].bad = 0
        /\ plan = "chain" => act'[x].pc = "lock" /\ Keeps(x)
        /\ plan # "chain" => act'[x].pc = "idle"
  BY <1>1, <1>2, GotoMoves, RestMoves DEF CreateRecord, At, InRange, Keeps
<1>4. Insert(x) => Alone(x) /\ Keeps(x) /\ act'[x].pc = "enqueue"
  BY <1>1, <1>2, GotoMoves DEF Insert
<1>5. ASSUME Enqueue(x)
      PROVE  /\ Alone(x) /\ act'[x].ok = 0 /\ act'[x].bad = 0
             /\ \/ act'[x].pc = "idle" /\ (x # Handler \/ plan = "chain")
                \/ /\ act'[x].pc = "create" /\ x = Handler /\ plan # "chain"
                   /\ act'[x].item = act[x].item /\ act[x].item = Size - 1
                \/ /\ act'[x].pc = "insert" /\ x = Handler /\ plan # "chain"
                   /\ act'[x].item = act[x].item + 1 /\ act[x].item # Size - 1
  <2>1. /\ act[x].item \in Item /\ act[x].ok = 0 /\ act[x].bad = 0
        /\ x = Handler /\ plan # "chain" => act[x].item # Size
    BY <1>1, <1>5 DEF Enqueue, At, Role, InRange, Callback
  <2>2. CASE x # Handler \/ plan = "chain"
    BY <1>1, <1>5, <2>2, RestMoves DEF Enqueue, AfterEnqueue
  <2>3. CASE x = Handler /\ plan # "chain" /\ act[x].item = Size - 1
    BY <1>1, <1>2, <1>5, <2>1, <2>3, GotoMoves DEF Enqueue, AfterEnqueue, Keeps
  <2>4. CASE x = Handler /\ plan # "chain" /\ act[x].item # Size - 1
    <3>1. PICK i \in Item : i = act[x].item + 1
      BY <2>1, <2>4 DEF Item
    <3>2. act' = [act EXCEPT ![x].pc = "insert", ![x].item = i]
      BY <1>5, <2>4, <3>1 DEF Enqueue, AfterEnqueue
    <3>3. Alone(x) /\ act'[x].pc = "insert" /\ act'[x].item = i
          /\ act'[x].ok = act[x].ok /\ act'[x].bad = act[x].bad
      <4>1. act \in [Actor -> ActorState] /\ "insert" \in PC
        BY <1>1, <1>2
      <4> QED BY <3>2, <4>1, ItemMoves
    <3> QED BY <2>1, <2>4, <3>1, <3>3
  <2> QED BY <2>2, <2>3, <2>4
<1> QED BY <1>3, <1>4, <1>5

(* The executions and the way to the hook.                                 *)
LEMMA ExecutionMoves ==
  ASSUME ShapeInv, NEW x \in Actor
  PROVE  /\ \A i \in Item : Take(x, i) /\ state[i] \notin Final =>
              /\ Alone(x) /\ act'[x].pc = "exec" /\ act'[x].item = i
              /\ act'[x].ok = 0 /\ act'[x].bad = 0
         /\ End(x) => Alone(x) /\ Keeps(x) /\ act'[x].pc = "reload"
         /\ EndSilently(x) =>
              Alone(x) /\ act'[x].pc = "idle" /\ act'[x].ok = 0 /\ act'[x].bad = 0
         /\ Reload(x) =>
              /\ Alone(x) /\ act'[x].ok = 0 /\ act'[x].bad = 0
              /\ \/ act'[x].pc = "idle"
                 \/ /\ act'[x].pc = "notify" /\ act'[x].item = act[x].item
                    /\ act'[x].final = state[act[x].item]
         /\ Notify(x) =>
              /\ Alone(x) /\ act'[x].ok = 0 /\ act'[x].bad = 0
              /\ \/ act'[x].pc = "idle"
                 \/ Keeps(x) /\ act'[x].pc = Hook(act[x].item, act[x].final)
         /\ Acquire(x) => Alone(x) /\ Keeps(x) /\ act'[x].pc = "read"
<1> USE OrchestrationAssumption
<1>1. act \in [Actor -> ActorState] /\ Role(x) /\ InRange(x) /\ state \in [Item -> ItemState]
  BY DEF ShapeInv, OrchestrationTypeOK
<1>2. /\ "exec" \in PC /\ "reload" \in PC /\ "notify" \in PC /\ "read" \in PC
      /\ "lock" \in PC /\ "mark" \in PC /\ "idle" \in PC
  BY DEF PC
<1>3. ASSUME NEW i \in Item, Take(x, i), state[i] \notin Final
      PROVE  /\ Alone(x) /\ act'[x].pc = "exec" /\ act'[x].item = i
             /\ act'[x].ok = 0 /\ act'[x].bad = 0
  BY <1>1, <1>2, <1>3, ItemMoves DEF Take, At, InRange
<1>4. End(x) => Alone(x) /\ Keeps(x) /\ act'[x].pc = "reload"
  BY <1>1, <1>2, GotoMoves DEF End
<1>5. EndSilently(x) => Alone(x) /\ act'[x].pc = "idle" /\ act'[x].ok = 0 /\ act'[x].bad = 0
  BY <1>1, RestMoves DEF EndSilently
<1>6. ASSUME Reload(x)
      PROVE  /\ Alone(x) /\ act'[x].ok = 0 /\ act'[x].bad = 0
             /\ \/ act'[x].pc = "idle"
                \/ /\ act'[x].pc = "notify" /\ act'[x].item = act[x].item
                   /\ act'[x].final = state[act[x].item]
  <2> DEFINE s == state[act[x].item]
  <2>1. CASE s \notin Final
    BY <1>1, <1>6, <2>1, RestMoves DEF Reload
  <2>2. CASE s \in Final
    <3> DEFINE r == [act[x] EXCEPT !.pc = "notify", !.final = s]
    <3>1. act[x].ok = 0 /\ act[x].bad = 0
      BY <1>1, <1>6 DEF Reload, At, InRange
    <3>2. act' = [act EXCEPT ![x] = r]
      BY <1>6, <2>2 DEF Reload
    <3>3. act[x] \in ActorState /\ s \in ItemState
      BY <1>1, <2>2 DEF Final, ItemState, Unhappy
    <3>4. r \in ActorState
      BY <1>2, <3>3 DEF ActorState
    <3>5. /\ r.pc = "notify" /\ r.item = act[x].item /\ r.final = s
          /\ r.ok = act[x].ok /\ r.bad = act[x].bad
      BY <3>3 DEF ActorState
    <3> HIDE DEF r
    <3> QED BY <1>1, <3>1, <3>2, <3>4, <3>5 DEF Alone
  <2> QED BY <2>1, <2>2
<1>7. ASSUME Notify(x)
      PROVE  /\ Alone(x) /\ act'[x].ok = 0 /\ act'[x].bad = 0
             /\ \/ act'[x].pc = "idle"
                \/ Keeps(x) /\ act'[x].pc = Hook(act[x].item, act[x].final)
  <2>1. Hook(act[x].item, act[x].final) \in PC
    BY <1>2 DEF Hook
  <2>2. act[x].ok = 0 /\ act[x].bad = 0
    BY <1>1, <1>7 DEF Notify, At, InRange
  <2> QED BY <1>1, <1>7, <2>1, <2>2, GotoMoves, RestMoves DEF Notify, Keeps
<1>8. Acquire(x) => Alone(x) /\ Keeps(x) /\ act'[x].pc = "read"
  BY <1>1, <1>2, GotoMoves DEF Acquire
<1> QED BY <1>3, <1>4, <1>5, <1>6, <1>7, <1>8

(* The hook of a chain.                                                    *)
LEMMA ChainMoves ==
  ASSUME ShapeInv, NEW x \in Actor
  PROVE  /\ MarkFailed(x) \/ ChainFinish(x) =>
              Alone(x) /\ act'[x].pc = "idle" /\ act'[x].ok = 0 /\ act'[x].bad = 0
         /\ ChainRead(x) =>
              /\ Alone(x) /\ act'[x].ok = 0 /\ act'[x].bad = 0
              /\ \/ act'[x].pc = "idle" /\ rec.state \in {"success", "failed"} /\ Release
                 \/ /\ act'[x].item = act[x].item /\ act'[x].seen = rec
                    /\ act'[x].pc = IF rec.step >= Size THEN "finish"
                                    ELSE IF rec.state = "pending" THEN "run" ELSE "step"
                    /\ rec.state \notin {"success", "failed"} /\ lock' = lock
         /\ ChainRun(x) => Alone(x) /\ Keeps(x) /\ act'[x].pc = "step"
         /\ ChainStep(x) =>
              /\ Alone(x) /\ act'[x].pc = "insert" /\ act'[x].item = act[x].seen.step + 1
              /\ act'[x].ok = 0 /\ act'[x].bad = 0
              /\ act'[x].item \in Item
<1> USE OrchestrationAssumption
<1>1. act \in [Actor -> ActorState] /\ Role(x) /\ InRange(x) /\ rec \in Record
  BY DEF ShapeInv, OrchestrationTypeOK
<1>2. "finish" \in PC /\ "run" \in PC /\ "step" \in PC
  BY DEF PC
<1>3. MarkFailed(x) \/ ChainFinish(x) =>
        Alone(x) /\ act'[x].pc = "idle" /\ act'[x].ok = 0 /\ act'[x].bad = 0
  BY <1>1, RestMoves DEF MarkFailed, ChainFinish
<1>4. ASSUME ChainRead(x)
      PROVE  /\ Alone(x) /\ act'[x].ok = 0 /\ act'[x].bad = 0
             /\ \/ act'[x].pc = "idle" /\ rec.state \in {"success", "failed"} /\ Release
                \/ /\ act'[x].item = act[x].item /\ act'[x].seen = rec
                   /\ act'[x].pc = IF rec.step >= Size THEN "finish"
                                   ELSE IF rec.state = "pending" THEN "run" ELSE "step"
                   /\ rec.state \notin {"success", "failed"} /\ lock' = lock
  <2>1. CASE rec.state \in {"success", "failed"}
    BY <1>1, <1>4, <2>1, RestMoves DEF ChainRead
  <2>2. CASE rec.state \notin {"success", "failed"}
    <3> DEFINE pc == IF rec.step >= Size THEN "finish"
                     ELSE IF rec.state = "pending" THEN "run" ELSE "step"
               r == [act[x] EXCEPT !.seen = rec, !.pc = pc]
    <3>1. act[x].ok = 0 /\ act[x].bad = 0
      BY <1>1, <1>4 DEF ChainRead, At, InRange
    <3>2. act' = [act EXCEPT ![x] = r] /\ lock' = lock
      BY <1>4, <2>2 DEF ChainRead
    <3>3. pc \in PC
      BY <1>2
    <3> HIDE DEF pc
    <3>4. r \in ActorState
      BY <1>1, <3>3 DEF ActorState
    <3>5. /\ r.pc = pc /\ r.item = act[x].item /\ r.seen = rec
          /\ r.ok = act[x].ok /\ r.bad = act[x].bad
      BY <1>1 DEF ActorState
    <3> HIDE DEF r
    <3>6. /\ Alone(x) /\ act'[x].ok = 0 /\ act'[x].bad = 0
          /\ act'[x].item = act[x].item /\ act'[x].seen = rec /\ act'[x].pc = pc
      BY <1>1, <3>1, <3>2, <3>4, <3>5 DEF Alone
    <3> QED BY <2>2, <3>2, <3>6 DEF pc
  <2> QED BY <2>1, <2>2
<1>5. ChainRun(x) => Alone(x) /\ Keeps(x) /\ act'[x].pc = "step"
  BY <1>1, <1>2, GotoMoves DEF ChainRun
<1>6. ASSUME ChainStep(x)
      PROVE  /\ Alone(x) /\ act'[x].pc = "insert" /\ act'[x].item = act[x].seen.step + 1
             /\ act'[x].ok = 0 /\ act'[x].bad = 0
             /\ act'[x].item \in Item
  <2>1. act[x].seen.step + 1 \in Item
    BY <1>1, <1>6 DEF ChainStep, At, InRange, ActorState, Record, Item
  <2> QED BY <1>1, <1>6, <2>1, AnewMoves DEF ChainStep
<1> QED BY <1>3, <1>4, <1>5, <1>6

(* One more row is counted.                                                *)
LEMMA LoadMoves ==
  ASSUME ShapeInv, NEW x \in Actor, Load(x), NEW m \in 1..Size, Counted(x, m)
  PROVE  /\ Alone(x) /\ act'[x].item = act[x].item /\ act'[x].seen = act[x].seen
         /\ m = Size => Keeps(x) /\ act'[x].pc = "settle" /\ act[x].todo = {}
         /\ m < Size => /\ act'[x].pc = "load" /\ act'[x].todo = (m + 1)..(Size - 1)
                        /\ act'[x].ok = IF state[m] = "success" THEN act[x].ok + 1
                                                               ELSE act[x].ok
                        /\ act'[x].bad = IF state[m] \in Unhappy THEN act[x].bad + 1
                                                                 ELSE act[x].bad
<1> USE OrchestrationAssumption
<1>1. act \in [Actor -> ActorState] /\ act[x] \in ActorState /\ "settle" \in PC
  BY DEF ShapeInv, OrchestrationTypeOK, PC
<1>2. CASE m = Size
  <2>1. act[x].todo = {}
    BY <1>2 DEF Counted
  <2>2. Goto(x, "settle")
    BY <2>1 DEF Load
  <2> QED BY <1>1, <1>2, <2>1, <2>2, GotoMoves DEF Keeps
<1>3. CASE m < Size
  <2> DEFINE ok == IF state[m] = "success" THEN act[x].ok + 1 ELSE act[x].ok
             bad == IF state[m] \in Unhappy THEN act[x].bad + 1 ELSE act[x].bad
             todo == (m + 1)..(Size - 1)
             r == [act[x] EXCEPT !.todo = todo, !.ok = ok, !.bad = bad]
  <2>1. act[x].todo = m..(Size - 1) /\ act[x].todo # {} /\ Min(act[x].todo) = m
    <3>1. Min(m..(Size - 1)) = m
      BY <1>3, LeastOfInterval
    <3>2. m \in m..(Size - 1)
      BY <1>3
    <3> QED BY <3>1, <3>2 DEF Counted
  <2>2. act[x].todo \ {m} = todo
    BY <1>3, <2>1
  <2>3. act' = [act EXCEPT ![x].todo = @ \ {m},
                  ![x].ok  = IF state[m] = "success" THEN @ + 1 ELSE @,
                  ![x].bad = IF state[m] \in Unhappy THEN @ + 1 ELSE @]
    BY <2>1 DEF Load
  <2>4. act' = [act EXCEPT ![x] = r]
    BY <2>2, <2>3
  <2>5. act[x].ok \in 0..(Size - 1) /\ act[x].bad \in 0..(Size - 1)
    BY <1>1, <1>3 DEF ActorState, Counted
  <2>6. ok \in 0..Size /\ bad \in 0..Size /\ todo \in SUBSET Item
    BY <2>5 DEF Item
  <2> HIDE DEF ok, bad, todo
  <2>7. r \in ActorState
    BY <1>1, <2>6 DEF ActorState
  <2>8. /\ r.pc = act[x].pc /\ r.item = act[x].item /\ r.seen = act[x].seen
        /\ r.todo = todo /\ r.ok = ok /\ r.bad = bad
    BY <1>1 DEF ActorState
  <2> HIDE DEF r
  <2>9. /\ Alone(x) /\ act'[x].pc = act[x].pc /\ act'[x].item = act[x].item
        /\ act'[x].seen = act[x].seen /\ act'[x].todo = todo /\ act'[x].ok = ok
        /\ act'[x].bad = bad
    BY <1>1, <2>4, <2>7, <2>8 DEF Alone
  <2>10. act[x].pc = "load"
    BY DEF Load, At
  <2> QED BY <1>3, <2>9, <2>10 DEF todo, ok, bad
<1> QED BY <1>2, <1>3

(* The hook of a group and of a chord.                                     *)
LEMMA JoinMoves ==
  ASSUME ShapeInv, NEW x \in Actor
  PROVE  /\ GroupRead(x) =>
              /\ Alone(x) /\ act'[x].pc = "load" /\ act'[x].item = act[x].item
              /\ act'[x].seen = rec /\ act'[x].ok = 0 /\ act'[x].bad = 0
              /\ act'[x].todo = IF rec.state = "none" THEN {} ELSE Parts
         /\ GroupSettle(x) =>
              Alone(x) /\ act'[x].pc = "idle" /\ act'[x].ok = 0 /\ act'[x].bad = 0
         /\ ChordRead(x) =>
              /\ Alone(x) /\ act'[x].ok = 0 /\ act'[x].bad = 0
              /\ \/ act'[x].pc = "idle" /\ Release
                 \/ /\ act'[x].pc = "enqueue" /\ act'[x].item = Callback
                    /\ rec.callback /\ Release
                 \/ /\ act'[x].pc = "load" /\ act'[x].item = act[x].item
                    /\ act'[x].todo = Parts /\ lock' = lock
                    /\ rec.state \notin {"none", "partial_failed", "success"}
         /\ ChordSettle(x) =>
              /\ Alone(x)
              /\ \/ /\ act'[x].pc = "idle" /\ act'[x].ok = 0 /\ act'[x].bad = 0 /\ Release
                    /\ \/ act[x].bad > 0 /\ UpdateChordState("partial_failed", FALSE)
                       \/ UpdateChordState("running", FALSE)
                 \/ /\ act'[x].pc = "body" /\ Keeps(x) /\ lock' = lock /\ rec' = rec
                    /\ act[x].bad <= 0 /\ act[x].ok = Size - 1
         /\ ChordBody(x) => Alone(x) /\ Keeps(x) /\ act'[x].pc = "record"
         /\ ChordRecord(x) =>
              /\ Alone(x) /\ act'[x].pc = "enqueue" /\ act'[x].item = Callback
              /\ act'[x].ok = 0 /\ act'[x].bad = 0
<1> USE OrchestrationAssumption
<1>1. act \in [Actor -> ActorState] /\ act[x] \in ActorState /\ InRange(x) /\ rec \in Record
  BY DEF ShapeInv, OrchestrationTypeOK
<1>2. "load" \in PC /\ "body" \in PC /\ "record" \in PC /\ "enqueue" \in PC
  BY DEF PC
<1>3. Callback \in Item /\ Parts \in SUBSET Item /\ {} \in SUBSET Item
  BY DEF Callback, Item, Parts
<1>4. ASSUME GroupRead(x)
      PROVE  /\ Alone(x) /\ act'[x].pc = "load" /\ act'[x].item = act[x].item
             /\ act'[x].seen = rec /\ act'[x].ok = 0 /\ act'[x].bad = 0
             /\ act'[x].todo = IF rec.state = "none" THEN {} ELSE Parts
  <2> DEFINE todo == IF rec.state = "none" THEN {} ELSE Parts
             r == [act[x] EXCEPT !.pc = "load", !.seen = rec, !.todo = todo]
  <2>1. todo \in SUBSET Item
    BY <1>3
  <2>2. act' = [act EXCEPT ![x] = r]
    BY <1>4 DEF GroupRead
  <2>3. act[x].ok = 0 /\ act[x].bad = 0
    BY <1>1, <1>4 DEF GroupRead, At, InRange
  <2> HIDE DEF todo
  <2>4. r \in ActorState
    BY <1>1, <1>2, <2>1 DEF ActorState
  <2>5. /\ r.pc = "load" /\ r.item = act[x].item /\ r.seen = rec /\ r.todo = todo
        /\ r.ok = act[x].ok /\ r.bad = act[x].bad
    BY <1>1 DEF ActorState
  <2> HIDE DEF r
  <2>6. /\ Alone(x) /\ act'[x].pc = "load" /\ act'[x].item = act[x].item
        /\ act'[x].seen = rec /\ act'[x].ok = 0 /\ act'[x].bad = 0 /\ act'[x].todo = todo
    BY <1>1, <2>2, <2>3, <2>4, <2>5 DEF Alone
  <2> QED BY <2>6 DEF todo
<1>5. GroupSettle(x) => Alone(x) /\ act'[x].pc = "idle" /\ act'[x].ok = 0 /\ act'[x].bad = 0
  BY <1>1, RestMoves DEF GroupSettle
<1>6. ASSUME ChordRead(x)
      PROVE  /\ Alone(x) /\ act'[x].ok = 0 /\ act'[x].bad = 0
             /\ \/ act'[x].pc = "idle" /\ Release
                \/ /\ act'[x].pc = "enqueue" /\ act'[x].item = Callback
                   /\ rec.callback /\ Release
                \/ /\ act'[x].pc = "load" /\ act'[x].item = act[x].item
                   /\ act'[x].todo = Parts /\ lock' = lock
                   /\ rec.state \notin {"none", "partial_failed", "success"}
  <2>0. act[x].ok = 0 /\ act[x].bad = 0
    BY <1>1, <1>6 DEF ChordRead, At, InRange
  <2>1. CASE Release /\ Rest(x)
    BY <1>1, <2>1, RestMoves
  <2>2. CASE /\ rec.callback /\ Release
             /\ act' = [act EXCEPT ![x].pc = "enqueue", ![x].item = Callback]
    <3>1. Alone(x) /\ act'[x].pc = "enqueue" /\ act'[x].item = Callback
          /\ act'[x].ok = act[x].ok /\ act'[x].bad = act[x].bad
      BY <1>1, <1>2, <1>3, <2>2, ItemMoves
    <3> QED BY <2>0, <2>2, <3>1
  <2>3. CASE /\ rec.state \notin {"none", "partial_failed", "success"} /\ lock' = lock
             /\ act' = [act EXCEPT ![x].pc = "load", ![x].todo = Parts]
    <3> DEFINE r == [act[x] EXCEPT !.pc = "load", !.todo = Parts]
    <3>1. act' = [act EXCEPT ![x] = r]
      BY <2>3
    <3>2. r \in ActorState
      BY <1>1, <1>2, <1>3 DEF ActorState
    <3>3. /\ r.pc = "load" /\ r.item = act[x].item /\ r.todo = Parts
          /\ r.ok = act[x].ok /\ r.bad = act[x].bad
      BY <1>1 DEF ActorState
    <3> HIDE DEF r
    <3> QED BY <1>1, <2>0, <2>3, <3>1, <3>2, <3>3 DEF Alone
  <2> QED BY <1>6, <2>1, <2>2, <2>3 DEF ChordRead
<1>7. ASSUME ChordSettle(x)
      PROVE  /\ Alone(x)
             /\ \/ /\ act'[x].pc = "idle" /\ act'[x].ok = 0 /\ act'[x].bad = 0 /\ Release
                   /\ \/ act[x].bad > 0 /\ UpdateChordState("partial_failed", FALSE)
                      \/ UpdateChordState("running", FALSE)
                \/ /\ act'[x].pc = "body" /\ Keeps(x) /\ lock' = lock /\ rec' = rec
                   /\ act[x].bad <= 0 /\ act[x].ok = Size - 1
  <2>1. CASE act[x].bad > 0
    BY <1>1, <1>7, <2>1, RestMoves DEF ChordSettle
  <2>2. CASE ~(act[x].bad > 0) /\ AllSucceeded(x)
    <3>1. Goto(x, "body") /\ UNCHANGED <<rec, lock>>
      BY <1>7, <2>2 DEF ChordSettle
    <3>2. act[x].bad <= 0 /\ act[x].ok = Size - 1
      BY <1>1, <2>2 DEF ActorState, AllSucceeded
    <3>3. Alone(x) /\ Keeps(x) /\ act'[x].pc = "body"
      BY <1>1, <1>2, <3>1, GotoMoves
    <3> QED BY <3>1, <3>2, <3>3
  <2>3. CASE ~(act[x].bad > 0) /\ ~AllSucceeded(x)
    BY <1>1, <1>7, <2>3, RestMoves DEF ChordSettle
  <2> QED BY <2>1, <2>2, <2>3
<1>8. ChordBody(x) => Alone(x) /\ Keeps(x) /\ act'[x].pc = "record"
  BY <1>1, <1>2, GotoMoves DEF ChordBody
<1>9. ChordRecord(x) =>
        /\ Alone(x) /\ act'[x].pc = "enqueue" /\ act'[x].item = Callback
        /\ act'[x].ok = 0 /\ act'[x].bad = 0
  BY <1>1, <1>2, <1>3, AnewMoves DEF ChordRecord
<1> QED BY <1>4, <1>5, <1>6, <1>7, <1>8, <1>9

-----------------------------------------------------------------------------
(* Types, places and the mutex, through every step.                        *)

(* It is enough to look at the actor that moves and at the mutex.          *)
LEMMA ShapeKept ==
  ASSUME ShapeInv, NEW x \in Actor, Alone(x), plan' = plan, Role(x)', InRange(x)',
         rec' \in Record, state' \in [Item -> ItemState], waiting' \in [Item -> Nat],
         built' \in [Item -> Nat], requeues' = requeues, skipped' \in BOOLEAN,
         \/ lock' = lock /\ (act'[x].pc \in Critical <=> act[x].pc \in Critical)
         \/ lock = None /\ lock' = x /\ act'[x].pc \in Critical
         \/ act[x].pc \in Critical /\ lock' = None /\ act'[x].pc \notin Critical
         \/ plan = "group" /\ lock' = lock
  PROVE  ShapeInv'
<1>1. OrchestrationTypeOK'
  <2>1. plan' \in {"chain", "group", "chord"} /\ requeues' \in 0..MaxRequeues
    BY DEF ShapeInv, OrchestrationTypeOK
  <2>2. lock' \in Actor \cup {None}
    BY DEF ShapeInv, OrchestrationTypeOK
  <2> QED BY <2>1, <2>2 DEF OrchestrationTypeOK, Alone
<1>2. Mutex'
  BY MutexKept DEF ShapeInv
<1>3. \A y \in Actor : Role(y)' /\ InRange(y)'
  BY LocalKept DEF ShapeInv
<1> QED BY <1>1, <1>2, <1>3 DEF ShapeInv

(* Dispatching.                                                            *)
LEMMA DispatchShape ==
  ASSUME ShapeInv, NEW x \in Actor,
         (x = Handler /\ CreateRecord(x)) \/ Insert(x) \/ Enqueue(x)
  PROVE  ShapeInv'
<1> USE OrchestrationAssumption
<1>1. OrchestrationTypeOK /\ Role(x) /\ InRange(x) /\ act[x] \in ActorState
  BY DEF ShapeInv, OrchestrationTypeOK
<1>2. CASE x = Handler /\ CreateRecord(x)
  <2>1. /\ Alone(x) /\ act'[x].ok = 0 /\ act'[x].bad = 0
        /\ plan = "chain" => act'[x].pc = "lock" /\ Keeps(x)
        /\ plan # "chain" => act'[x].pc = "idle"
        /\ UNCHANGED <<plan, state, waiting, built, lock, requeues, skipped>>
    BY <1>2, DispatchMoves DEF CreateRecord, rowVars, history
  <2>2. act[x].pc = "create"
    BY <1>2 DEF CreateRecord, At
  <2>3. rec' \in Record
    BY <1>2, NoRecTyped DEF CreateRecord, Record
  <2>4. Role(x)' /\ InRange(x)'
    BY <1>1, <1>2, <2>1, <2>2 DEF Role, InRange, At, HandlerPC, Steps, Keeps
  <2> QED BY <1>1, <2>1, <2>2, <2>3, <2>4, ShapeKept DEF OrchestrationTypeOK, Critical
<1>3. CASE Insert(x)
  <2>1. /\ Alone(x) /\ Keeps(x) /\ act[x].pc = "insert" /\ act'[x].pc = "enqueue"
        /\ UNCHANGED <<plan, waiting, rec, lock, requeues, skipped>>
        /\ InsertRow(act[x].item)
    BY <1>3, DispatchMoves DEF Insert, At, history
  <2>2. act[x].item \in Item
    BY <1>1, <2>1 DEF Role
  <2>3. Role(x)' /\ InRange(x)'
    BY <1>1, <2>1 DEF Role, InRange, At, HandlerPC, WorkerPC, Steps, Keeps
  <2> QED BY <1>1, <2>1, <2>2, <2>3, RowsTyped, ShapeKept DEF OrchestrationTypeOK, Critical
<1>4. CASE Enqueue(x)
  <2>1. /\ Alone(x) /\ act'[x].ok = 0 /\ act'[x].bad = 0
        /\ \/ act'[x].pc = "idle"
           \/ /\ act'[x].pc = "create" /\ x = Handler /\ plan # "chain"
              /\ act'[x].item = act[x].item
           \/ /\ act'[x].pc = "insert" /\ x = Handler /\ plan # "chain"
              /\ act'[x].item = act[x].item + 1 /\ act[x].item # Size - 1
    BY <1>4, DispatchMoves
  <2>2. /\ act[x].pc = "enqueue"
        /\ UNCHANGED <<plan, state, built, rec, lock, requeues, skipped>>
        /\ waiting' = [waiting EXCEPT ![act[x].item] = @ + 1]
    BY <1>4 DEF Enqueue, At, history
  <2>3. /\ act[x].item \in Item
        /\ plan # "chain" /\ x = Handler => act[x].item # Size
    BY <1>1, <2>2 DEF Role, Callback
  <2>4. Role(x)'
    BY <1>1, <2>1, <2>2, <2>3 DEF Role, At, HandlerPC, WorkerPC, Item, Callback
  <2>5. InRange(x)'
    BY <2>1 DEF InRange, At
  <2> QED BY <1>1, <2>1, <2>2, <2>3, <2>4, <2>5, RowsTyped, ShapeKept
          DEF OrchestrationTypeOK, Critical
<1> QED BY <1>2, <1>3, <1>4

(* Executing, and the way to the hook.                                     *)
LEMMA ExecutionShape ==
  ASSUME ShapeInv, NEW x \in Worker,
         TakeAny(x) \/ End(x) \/ EndSilently(x) \/ Reload(x) \/ Notify(x)
  PROVE  ShapeInv'
<1> USE OrchestrationAssumption
<1>1. OrchestrationTypeOK /\ Role(x) /\ InRange(x) /\ act[x] \in ActorState /\ x \in Actor
      /\ x # Handler
  BY DEF ShapeInv, OrchestrationTypeOK, Actor
<1>2. ASSUME NEW i \in Item, Take(x, i) PROVE ShapeInv'
  <2>1. /\ act[x].pc = "idle" /\ UNCHANGED <<plan, built, rec, lock, requeues, skipped>>
        /\ waiting' = [waiting EXCEPT ![i] = @ - 1] /\ waiting[i] > 0
    BY <1>2 DEF Take, At, history
  <2>2. waiting' \in [Item -> Nat]
    BY <1>1, <2>1 DEF OrchestrationTypeOK
  <2>3. CASE state[i] \notin Final
    <3>1. /\ Alone(x) /\ act'[x].pc = "exec" /\ act'[x].item = i
          /\ act'[x].ok = 0 /\ act'[x].bad = 0
          /\ state' = [state EXCEPT ![i] = "running"]
      BY <1>1, <1>2, <2>3, ExecutionMoves DEF Take
    <3>2. Role(x)' /\ InRange(x)'
      BY <1>1, <2>1, <3>1 DEF Role, InRange, At, WorkerPC
    <3>3. state' \in [Item -> ItemState]
      BY <1>1, <3>1 DEF OrchestrationTypeOK, ItemState
    <3> QED BY <1>1, <2>1, <2>2, <3>1, <3>2, <3>3, ShapeKept DEF OrchestrationTypeOK, Critical
  <2>4. CASE state[i] \in Final
    <3>1. UNCHANGED <<state, act>>
      BY <1>2, <2>4 DEF Take
    <3>2. Alone(x) /\ Role(x)' /\ InRange(x)'
      BY <1>1, <2>1, <3>1
         DEF OrchestrationTypeOK, Alone, Role, InRange, At, WorkerPC, Counted
    <3> QED BY <1>1, <2>1, <2>2, <3>1, <3>2, ShapeKept DEF OrchestrationTypeOK, Critical
  <2> QED BY <2>3, <2>4
<1>3. CASE End(x)
  <2>1. /\ Alone(x) /\ Keeps(x) /\ act[x].pc = "exec" /\ act'[x].pc = "reload"
        /\ UNCHANGED <<plan, waiting, built, rec, lock, requeues, skipped>>
    BY <1>1, <1>3, ExecutionMoves DEF End, At, history
  <2>2. act[x].item \in Item
    BY <1>1, <2>1 DEF Role
  <2>3. state' \in [Item -> ItemState]
    <3>1. PICK s \in {"success", "failed"} : state' = [state EXCEPT ![act[x].item] = s]
      BY <1>3 DEF End
    <3>2. s \in ItemState
      BY DEF ItemState, Unhappy
    <3> QED BY <1>1, <2>2, <3>1, <3>2, RowsTyped
  <2>4. Role(x)' /\ InRange(x)'
    BY <1>1, <2>1 DEF Role, InRange, At, WorkerPC, Keeps
  <2> QED BY <1>1, <2>1, <2>3, <2>4, ShapeKept DEF OrchestrationTypeOK, Critical
<1>4. CASE EndSilently(x)
  <2>1. /\ Alone(x) /\ act[x].pc = "exec" /\ act'[x].pc = "idle"
        /\ act'[x].ok = 0 /\ act'[x].bad = 0
        /\ UNCHANGED <<plan, waiting, built, rec, lock, requeues>> /\ skipped' = TRUE
    BY <1>1, <1>4, ExecutionMoves DEF EndSilently, At
  <2>2. act[x].item \in Item
    BY <1>1, <2>1 DEF Role
  <2>3. state' \in [Item -> ItemState]
    BY <1>1, <1>4, <2>2, RowsTyped DEF EndSilently, ItemState, Unhappy
  <2>4. Role(x)' /\ InRange(x)'
    BY <1>1, <2>1 DEF Role, InRange, At, WorkerPC
  <2> QED BY <1>1, <2>1, <2>3, <2>4, ShapeKept DEF OrchestrationTypeOK, Critical
<1>5. CASE Reload(x)
  <2>1. /\ Alone(x) /\ act[x].pc = "reload" /\ act'[x].ok = 0 /\ act'[x].bad = 0
        /\ \/ act'[x].pc = "idle"
           \/ act'[x].pc = "notify" /\ act'[x].item = act[x].item
        /\ UNCHANGED <<plan, state, waiting, built, rec, lock, requeues, skipped>>
    BY <1>1, <1>5, ExecutionMoves DEF Reload, At, rowVars, history
  <2>2. Role(x)' /\ InRange(x)'
    BY <1>1, <2>1 DEF Role, InRange, At, WorkerPC
  <2> QED BY <1>1, <2>1, <2>2, ShapeKept DEF OrchestrationTypeOK, Critical
<1>6. CASE Notify(x)
  <2>1. /\ Alone(x) /\ act[x].pc = "notify" /\ act'[x].ok = 0 /\ act'[x].bad = 0
        /\ \/ act'[x].pc = "idle"
           \/ Keeps(x) /\ act'[x].pc = Hook(act[x].item, act[x].final)
        /\ UNCHANGED <<plan, state, waiting, built, rec, lock, requeues, skipped>>
    BY <1>1, <1>6, ExecutionMoves DEF Notify, At, rowVars, history
  <2>2. \/ Hook(act[x].item, act[x].final) = "idle"
        \/ Hook(act[x].item, act[x].final) = "lock" /\ plan # "group"
        \/ Hook(act[x].item, act[x].final) = "mark" /\ plan = "chain"
        \/ Hook(act[x].item, act[x].final) = "read" /\ plan = "group"
    BY <1>1 DEF Hook, OrchestrationTypeOK
  <2>3. Role(x)' /\ InRange(x)'
    BY <1>1, <2>1, <2>2 DEF Role, InRange, At, WorkerPC, Steps, Keeps, OrchestrationTypeOK
  <2> QED BY <1>1, <2>1, <2>2, <2>3, ShapeKept DEF OrchestrationTypeOK, Critical
<1> QED BY <1>2, <1>3, <1>4, <1>5, <1>6 DEF TakeAny

(* A row loaded keeps the count.                                           *)
LEMMA LoadLocal ==
  ASSUME ShapeInv, NEW x \in Worker, plan \in {"group", "chord"}, Load(x)
  PROVE  Alone(x) /\ Role(x)' /\ InRange(x)' /\ act'[x].pc \in {"load", "settle"}
<1> USE OrchestrationAssumption
<1>1. /\ Role(x) /\ InRange(x) /\ x \in Actor /\ x # Handler /\ act[x] \in ActorState
      /\ act[x].pc = "load" /\ plan' = plan
  BY DEF ShapeInv, OrchestrationTypeOK, Actor, Load, At
<1>2. PICK m \in 1..Size : Counted(x, m)
  BY <1>1 DEF InRange
<1>3. CASE m = Size
  <2>1. Alone(x) /\ Keeps(x) /\ act'[x].pc = "settle" /\ act[x].todo = {}
    BY <1>1, <1>2, <1>3, LoadMoves
  <2>2. Counted(x, m)'
    BY <1>2, <2>1 DEF Counted, Keeps
  <2> QED BY <1>1, <2>1, <2>2 DEF Role, InRange, At, WorkerPC, Keeps
<1>4. CASE m < Size
  <2>1. /\ Alone(x) /\ act'[x].item = act[x].item
        /\ act'[x].pc = "load" /\ act'[x].todo = (m + 1)..(Size - 1)
        /\ act'[x].ok = IF state[m] = "success" THEN act[x].ok + 1 ELSE act[x].ok
        /\ act'[x].bad = IF state[m] \in Unhappy THEN act[x].bad + 1 ELSE act[x].bad
    BY <1>1, <1>2, <1>4, LoadMoves
  <2>2. Counted(x, m + 1)' /\ m + 1 \in 1..Size
    <3>1. ~(state[m] = "success" /\ state[m] \in Unhappy)
      BY DEF Unhappy
    <3>2. act[x].ok \in Int /\ act[x].bad \in Int
      BY <1>1 DEF ActorState
    <3>3. act'[x].ok + act'[x].bad <= act[x].ok + act[x].bad + 1
      BY <2>1, <3>1, <3>2
    <3>4. act[x].ok + act[x].bad <= m - 1
      BY <1>2 DEF Counted
    <3>5. act'[x].ok \in Int /\ act'[x].bad \in Int
      BY <2>1, <3>2
    <3>6. act'[x].ok + act'[x].bad <= (m + 1) - 1 /\ m + 1 \in 1..Size
      BY <1>4, <3>2, <3>3, <3>4, <3>5
    <3> QED BY <2>1, <3>6 DEF Counted
  <2> QED BY <1>1, <2>1, <2>2 DEF Role, InRange, At, WorkerPC
<1> QED BY <1>2, <1>3, <1>4

(* The hook of a chain.                                                    *)
LEMMA ChainShape ==
  ASSUME ShapeInv, NEW x \in Actor, plan = "chain",
         \/ (MarkFailed(x) /\ x # Handler) \/ Acquire(x) \/ ChainRead(x) \/ ChainFinish(x)
         \/ ChainRun(x) \/ ChainStep(x)
  PROVE  ShapeInv'
<1> USE OrchestrationAssumption
<1>1. /\ OrchestrationTypeOK /\ Role(x) /\ InRange(x) /\ act[x] \in ActorState
      /\ rec \in Record /\ act[x].seen \in Record
  BY DEF ShapeInv, OrchestrationTypeOK, ActorState
<1>2. CASE MarkFailed(x) /\ x # Handler
  <2>1. /\ Alone(x) /\ act[x].pc = "mark" /\ act'[x].pc = "idle"
        /\ act'[x].ok = 0 /\ act'[x].bad = 0
        /\ UNCHANGED <<plan, state, waiting, built, lock, requeues, skipped>>
    BY <1>2, ChainMoves DEF MarkFailed, At, rowVars, history
  <2>2. rec' \in Record
    BY <1>1, <1>2, RecordTyped DEF MarkFailed
  <2>3. Role(x)' /\ InRange(x)'
    BY <1>1, <1>2, <2>1 DEF Role, InRange, At, WorkerPC
  <2> QED BY <1>1, <2>1, <2>2, <2>3, ShapeKept DEF OrchestrationTypeOK, Critical
<1>3. CASE Acquire(x)
  <2>1. /\ Alone(x) /\ Keeps(x) /\ act[x].pc = "lock" /\ act'[x].pc = "read"
        /\ UNCHANGED <<plan, state, waiting, built, rec, requeues, skipped>>
        /\ lock = None /\ lock' = x
    BY <1>3, ExecutionMoves DEF Acquire, At, rowVars, history
  <2>2. Role(x)' /\ InRange(x)'
    BY <1>1, <2>1 DEF Role, InRange, At, HandlerPC, WorkerPC, Steps, Keeps
  <2> QED BY <1>1, <2>1, <2>2, ShapeKept DEF OrchestrationTypeOK, Critical
<1>4. CASE ChainRead(x)
  <2>1. /\ Alone(x) /\ act[x].pc = "read" /\ act'[x].ok = 0 /\ act'[x].bad = 0
        /\ \/ act'[x].pc = "idle" /\ lock' = None
           \/ /\ act'[x].item = act[x].item /\ act'[x].seen = rec /\ lock' = lock
              /\ act'[x].pc = IF rec.step >= Size THEN "finish"
                              ELSE IF rec.state = "pending" THEN "run" ELSE "step"
        /\ UNCHANGED <<plan, state, waiting, built, rec, requeues, skipped>>
    BY <1>4, ChainMoves DEF ChainRead, At, rowVars, history, Release
  <2>2. Role(x)'
    BY <1>1, <2>1 DEF Role, At, HandlerPC, WorkerPC, Steps
  <2>3. InRange(x)'
    BY <1>1, <2>1 DEF InRange, At, Record
  <2> QED BY <1>1, <2>1, <2>2, <2>3, ShapeKept DEF OrchestrationTypeOK, Critical
<1>5. CASE ChainFinish(x)
  <2>1. /\ Alone(x) /\ act[x].pc = "finish" /\ act'[x].pc = "idle" /\ lock' = None
        /\ act'[x].ok = 0 /\ act'[x].bad = 0
        /\ UNCHANGED <<plan, state, waiting, built, requeues, skipped>>
    BY <1>5, ChainMoves DEF ChainFinish, At, rowVars, history, Release
  <2>2. rec' \in Record
    BY <1>1, <1>5, RecordTyped DEF ChainFinish, Record
  <2>3. Role(x)' /\ InRange(x)'
    BY <1>1, <2>1 DEF Role, InRange, At, HandlerPC, WorkerPC
  <2> QED BY <1>1, <2>1, <2>2, <2>3, ShapeKept DEF OrchestrationTypeOK, Critical
<1>6. CASE ChainRun(x)
  <2>1. /\ Alone(x) /\ Keeps(x) /\ act[x].pc = "run" /\ act'[x].pc = "step"
        /\ UNCHANGED <<plan, state, waiting, built, lock, requeues, skipped>>
    BY <1>6, ChainMoves DEF ChainRun, At, rowVars, history
  <2>2. rec' \in Record
    BY <1>1, <1>6, RecordTyped DEF ChainRun, Record
  <2>3. Role(x)' /\ InRange(x)'
    BY <1>1, <2>1 DEF Role, InRange, At, HandlerPC, WorkerPC, Steps, Keeps
  <2> QED BY <1>1, <2>1, <2>2, <2>3, ShapeKept DEF OrchestrationTypeOK, Critical
<1>7. CASE ChainStep(x)
  <2>1. /\ Alone(x) /\ act[x].pc = "step" /\ act'[x].pc = "insert" /\ lock' = None
        /\ act'[x].ok = 0 /\ act'[x].bad = 0 /\ act'[x].item \in Item
        /\ UNCHANGED <<plan, state, waiting, built, requeues, skipped>>
    BY <1>7, ChainMoves DEF ChainStep, At, rowVars, history, Release
  <2>2. rec' \in Record
    <3>1. act[x].seen.step + 1 \in 0..Size
      BY <1>1, <2>1 DEF InRange, Record
    <3> QED BY <1>1, <1>7, <3>1, RecordTyped DEF ChainStep
  <2>3. Role(x)' /\ InRange(x)'
    BY <1>1, <2>1 DEF Role, InRange, At, HandlerPC, WorkerPC
  <2> QED BY <1>1, <2>1, <2>2, <2>3, ShapeKept DEF OrchestrationTypeOK, Critical
<1> QED BY <1>2, <1>3, <1>4, <1>5, <1>6, <1>7

(* The hook of a group.                                                    *)
LEMMA GroupShape ==
  ASSUME ShapeInv, NEW x \in Worker, plan = "group",
         GroupRead(x) \/ Load(x) \/ GroupSettle(x)
  PROVE  ShapeInv'
<1> USE OrchestrationAssumption
<1>1. /\ OrchestrationTypeOK /\ Role(x) /\ InRange(x) /\ act[x] \in ActorState
      /\ x \in Actor /\ x # Handler /\ rec \in Record
  BY DEF ShapeInv, OrchestrationTypeOK, Actor
<1>2. CASE GroupRead(x)
  <2>1. /\ Alone(x) /\ act'[x].pc = "load" /\ act'[x].item = act[x].item
        /\ act'[x].ok = 0 /\ act'[x].bad = 0 /\ act[x].pc = "read"
        /\ act'[x].todo = IF rec.state = "none" THEN {} ELSE Parts
        /\ UNCHANGED <<plan, state, waiting, built, rec, lock, requeues, skipped>>
    BY <1>1, <1>2, JoinMoves DEF GroupRead, At, rowVars, history
  <2>2. \E m \in 1..Size : act'[x].todo = m..(Size - 1)
    <3>1. {} = Size..(Size - 1) /\ Parts = 1..(Size - 1) /\ 1 \in 1..Size /\ Size \in 1..Size
      BY DEF Parts, Item, Callback
    <3> QED BY <2>1, <3>1
  <2>3. Role(x)' /\ InRange(x)'
    BY <1>1, <2>1, <2>2 DEF Role, InRange, At, WorkerPC, Counted
  <2> QED BY <1>1, <2>1, <2>3, ShapeKept DEF OrchestrationTypeOK, Critical
<1>3. CASE Load(x)
  <2>1. /\ act[x].pc = "load"
        /\ UNCHANGED <<plan, state, waiting, built, rec, lock, requeues, skipped>>
    BY <1>3 DEF Load, At, rowVars, history
  <2>2. Alone(x) /\ Role(x)' /\ InRange(x)' /\ act'[x].pc \in {"load", "settle"}
    BY <1>1, <1>3, LoadLocal
  <2> QED BY <1>1, <2>1, <2>2, ShapeKept DEF OrchestrationTypeOK, Critical
<1>4. CASE GroupSettle(x)
  <2>1. /\ Alone(x) /\ act[x].pc = "settle" /\ act'[x].pc = "idle"
        /\ act'[x].ok = 0 /\ act'[x].bad = 0
        /\ UNCHANGED <<plan, state, waiting, built, lock, requeues, skipped>>
    BY <1>1, <1>4, JoinMoves DEF GroupSettle, At, rowVars, history
  <2>2. rec' \in Record
    BY <1>1, <1>4, RecordTyped DEF GroupSettle, Summary
  <2>3. Role(x)' /\ InRange(x)'
    BY <1>1, <2>1 DEF Role, InRange, At, WorkerPC
  <2> QED BY <1>1, <2>1, <2>2, <2>3, ShapeKept DEF OrchestrationTypeOK, Critical
<1> QED BY <1>2, <1>3, <1>4

(* The hook of a chord.                                                    *)
LEMMA ChordShape ==
  ASSUME ShapeInv, NEW x \in Worker, plan = "chord",
         \/ Acquire(x) \/ ChordRead(x) \/ Load(x) \/ ChordSettle(x)
         \/ ChordBody(x) \/ ChordRecord(x)
  PROVE  ShapeInv'
<1> USE OrchestrationAssumption
<1>1. /\ OrchestrationTypeOK /\ Role(x) /\ InRange(x) /\ act[x] \in ActorState
      /\ x \in Actor /\ x # Handler /\ rec \in Record /\ Callback \in Item
  BY DEF ShapeInv, OrchestrationTypeOK, Actor, Callback, Item
<1>2. CASE Acquire(x)
  <2>1. /\ Alone(x) /\ Keeps(x) /\ act[x].pc = "lock" /\ act'[x].pc = "read"
        /\ UNCHANGED <<plan, state, waiting, built, rec, requeues, skipped>>
        /\ lock = None /\ lock' = x
    BY <1>1, <1>2, ExecutionMoves DEF Acquire, At, rowVars, history
  <2>2. Role(x)' /\ InRange(x)'
    BY <1>1, <2>1 DEF Role, InRange, At, WorkerPC, Keeps
  <2> QED BY <1>1, <2>1, <2>2, ShapeKept DEF OrchestrationTypeOK, Critical
<1>3. CASE ChordRead(x)
  <2>1. /\ Alone(x) /\ act[x].pc = "read" /\ act'[x].ok = 0 /\ act'[x].bad = 0
        /\ \/ act'[x].pc = "idle" /\ lock' = None
           \/ act'[x].pc = "enqueue" /\ act'[x].item = Callback /\ lock' = None
           \/ /\ act'[x].pc = "load" /\ act'[x].item = act[x].item
              /\ act'[x].todo = Parts /\ lock' = lock
        /\ UNCHANGED <<plan, state, waiting, built, rec, requeues, skipped>>
    BY <1>1, <1>3, JoinMoves DEF ChordRead, At, rowVars, history, Release
  <2>2. Parts = 1..(Size - 1) /\ 1 \in 1..Size
    BY DEF Parts, Item, Callback
  <2>3. Role(x)' /\ InRange(x)'
    BY <1>1, <2>1, <2>2 DEF Role, InRange, At, WorkerPC, Counted
  <2> QED BY <1>1, <2>1, <2>3, ShapeKept DEF OrchestrationTypeOK, Critical
<1>4. CASE Load(x)
  <2>1. /\ act[x].pc = "load"
        /\ UNCHANGED <<plan, state, waiting, built, rec, lock, requeues, skipped>>
    BY <1>4 DEF Load, At, rowVars, history
  <2>2. Alone(x) /\ Role(x)' /\ InRange(x)' /\ act'[x].pc \in {"load", "settle"}
    BY <1>1, <1>4, LoadLocal
  <2> QED BY <1>1, <2>1, <2>2, ShapeKept DEF OrchestrationTypeOK, Critical
<1>5. CASE ChordSettle(x)
  <2>1. /\ Alone(x) /\ act[x].pc = "settle"
        /\ \/ /\ act'[x].pc = "idle" /\ act'[x].ok = 0 /\ act'[x].bad = 0 /\ lock' = None
              /\ \/ UpdateChordState("partial_failed", FALSE)
                 \/ UpdateChordState("running", FALSE)
           \/ act'[x].pc = "body" /\ Keeps(x) /\ lock' = lock /\ rec' = rec
        /\ UNCHANGED <<plan, state, waiting, built, requeues, skipped>>
    BY <1>1, <1>5, JoinMoves DEF ChordSettle, At, rowVars, history, Release
  <2>2. rec' \in Record
    BY <1>1, <2>1, RecordTyped
  <2>3. Role(x)' /\ InRange(x)'
    BY <1>1, <2>1 DEF Role, InRange, At, WorkerPC, Keeps
  <2> QED BY <1>1, <2>1, <2>2, <2>3, ShapeKept DEF OrchestrationTypeOK, Critical
<1>6. CASE ChordBody(x)
  <2>1. /\ Alone(x) /\ Keeps(x) /\ act[x].pc = "body" /\ act'[x].pc = "record"
        /\ UNCHANGED <<plan, waiting, rec, lock, requeues, skipped>> /\ InsertRow(Callback)
    BY <1>1, <1>6, JoinMoves DEF ChordBody, At, history
  <2>2. Role(x)' /\ InRange(x)'
    BY <1>1, <2>1 DEF Role, InRange, At, WorkerPC, Keeps
  <2> QED BY <1>1, <2>1, <2>2, RowsTyped, ShapeKept DEF OrchestrationTypeOK, Critical
<1>7. CASE ChordRecord(x)
  <2>1. /\ Alone(x) /\ act[x].pc = "record" /\ act'[x].pc = "enqueue"
        /\ act'[x].item = Callback /\ act'[x].ok = 0 /\ act'[x].bad = 0 /\ lock' = None
        /\ UNCHANGED <<plan, state, waiting, built, requeues, skipped>>
    BY <1>1, <1>7, JoinMoves DEF ChordRecord, At, rowVars, history, Release
  <2>2. rec' \in Record
    BY <1>1, <1>7, RecordTyped DEF ChordRecord
  <2>3. Role(x)' /\ InRange(x)'
    BY <1>1, <2>1 DEF Role, InRange, At, WorkerPC
  <2> QED BY <1>1, <2>1, <2>2, <2>3, ShapeKept DEF OrchestrationTypeOK, Critical
<1> QED BY <1>2, <1>3, <1>4, <1>5, <1>6, <1>7

-----------------------------------------------------------------------------
(* The steps there are, by what kind of orchestration takes them.          *)

DispatchStep(x) == (x = Handler /\ CreateRecord(x)) \/ Insert(x) \/ Enqueue(x)
ExecutionStep(w) == TakeAny(w) \/ End(w) \/ EndSilently(w) \/ Reload(w) \/ Notify(w)
ChainHook(x) ==
  \/ (MarkFailed(x) /\ x # Handler) \/ Acquire(x) \/ ChainRead(x) \/ ChainFinish(x)
  \/ ChainRun(x) \/ ChainStep(x)
GroupHook(w) == GroupRead(w) \/ Load(w) \/ GroupSettle(w)
ChordHook(w) ==
  \/ Acquire(w) \/ ChordRead(w) \/ Load(w) \/ ChordSettle(w) \/ ChordBody(w) \/ ChordRecord(w)

(* Every step is one of these, by the kind of orchestration there is.      *)
LEMMA StepCases ==
  ASSUME ShapeInv, [Next]_vars
  PROVE  \/ \E x \in Actor : DispatchStep(x)
         \/ \E w \in Worker : ExecutionStep(w)
         \/ plan = "chain" /\ \E x \in Actor : ChainHook(x)
         \/ plan = "group" /\ \E w \in Worker : GroupHook(w)
         \/ plan = "chord" /\ \E w \in Worker : ChordHook(w)
         \/ \E i \in Item : Requeue(i) \/ CancelPending(i)
         \/ UNCHANGED vars
<1> DEFINE Cases ==
      \/ \E x \in Actor : DispatchStep(x)
      \/ \E w \in Worker : ExecutionStep(w)
      \/ plan = "chain" /\ \E x \in Actor : ChainHook(x)
      \/ plan = "group" /\ \E w \in Worker : GroupHook(w)
      \/ plan = "chord" /\ \E w \in Worker : ChordHook(w)
      \/ \E i \in Item : Requeue(i) \/ CancelPending(i)
      \/ UNCHANGED vars
<1> USE OrchestrationAssumption
<1>1. plan \in {"chain", "group", "chord"} /\ \A x \in Actor : Role(x)
  BY DEF ShapeInv, OrchestrationTypeOK
<1>2. Worker \subseteq Actor /\ Handler \in Actor /\ Handler \notin Worker
  BY DEF Actor
<1>3. ASSUME NEW x \in Actor, Insert(x) \/ Enqueue(x) PROVE Cases
  BY <1>3 DEF DispatchStep
<1>4. ASSUME NEW x \in Actor,
             Acquire(x) \/ ChainRead(x) \/ ChainFinish(x) \/ ChainRun(x) \/ ChainStep(x)
      PROVE  Cases
  <2>1. act[x].pc \in Steps
    BY <1>4 DEF Acquire, ChainRead, ChainFinish, ChainRun, ChainStep, At, Steps
  <2>2. Role(x)
    BY <1>1
  <2>3. CASE plan = "chain"
    BY <1>4, <2>3 DEF ChainHook
  <2>4. CASE plan # "chain"
    <3>1. x \in Worker
      BY <2>1, <2>2, <2>4 DEF Role, HandlerPC, Steps, Actor
    <3>2. plan = "chord" /\ Acquire(x)
      BY <1>1, <1>2, <1>4, <2>2, <2>4, <3>1
         DEF Role, WorkerPC, Acquire, ChainRead, ChainFinish, ChainRun, ChainStep, At
    <3> QED BY <3>1, <3>2 DEF ChordHook
  <2> QED BY <2>3, <2>4
<1>5. ASSUME NEW w \in Worker, NotifyHook(w), ~Advance(w) PROVE Cases
  <2>1. Role(w) /\ w \in Actor /\ w # Handler
    BY <1>1, <1>2
  <2>2. CASE Reload(w) \/ Notify(w)
    BY <2>2 DEF ExecutionStep
  <2>3. CASE MarkFailed(w)
    <3>1. plan = "chain"
      BY <2>1, <2>3 DEF MarkFailed, At, Role, WorkerPC
    <3> QED BY <2>1, <2>3, <3>1 DEF ChainHook
  <2>4. CASE GroupRead(w) \/ GroupSettle(w)
    BY <2>4 DEF GroupHook, GroupRead, GroupSettle
  <2>5. CASE Load(w)
    <3>1. plan \in {"group", "chord"}
      BY <1>1, <2>1, <2>5 DEF Load, At, Role, WorkerPC, Steps
    <3> QED BY <2>5, <3>1 DEF GroupHook, ChordHook
  <2>6. CASE ChordRead(w) \/ ChordSettle(w)
    BY <2>6 DEF ChordHook, ChordRead, ChordSettle
  <2>7. CASE ChordBody(w) \/ ChordRecord(w)
    <3>1. plan = "chord"
      BY <1>1, <2>1, <2>7 DEF ChordBody, ChordRecord, At, Role, WorkerPC, Steps
    <3> QED BY <2>7, <3>1 DEF ChordHook
  <2> QED BY <1>5, <2>2, <2>3, <2>4, <2>5, <2>6, <2>7 DEF NotifyHook
<1>6. CASE HandleOp
  <2>1. CASE CreateRecord(Handler)
    BY <1>2, <2>1 DEF DispatchStep
  <2> QED BY <1>2, <1>3, <1>4, <1>6, <2>1 DEF HandleOp, Advance
<1>7. ASSUME NEW w \in Worker, Advance(w) PROVE Cases
  BY <1>2, <1>3, <1>4, <1>7 DEF Advance
<1>8. ASSUME NEW w \in Worker, TakeAny(w) \/ End(w) \/ EndSilently(w) PROVE Cases
  BY <1>8 DEF ExecutionStep
<1> QED BY <1>5, <1>6, <1>7, <1>8 DEF Next

(* What a client does to a row changes nothing else.                       *)
LEMMA ClientShape ==
  ASSUME ShapeInv, NEW i \in Item, Requeue(i) \/ CancelPending(i)
  PROVE  ShapeInv'
<1>0. OrchestrationTypeOK
  BY DEF ShapeInv
<1>1. /\ UNCHANGED <<plan, built, rec, lock, act>>
      /\ \/ skipped' = TRUE /\ requeues' = requeues /\ waiting' = waiting
         \/ skipped' = skipped /\ requeues' = requeues + 1 /\ requeues < MaxRequeues
      /\ \E s \in {"pending", "cancelled"} : state' = [state EXCEPT ![i] = s]
  BY DEF Requeue, CancelPending
<1>2. state' \in [Item -> ItemState]
  <2>1. PICK s \in {"pending", "cancelled"} : state' = [state EXCEPT ![i] = s]
    BY <1>1
  <2>2. s \in ItemState
    BY DEF ItemState, Unhappy
  <2> QED BY <1>0, <2>1, <2>2, RowsTyped
<1>3. waiting' \in [Item -> Nat]
  BY <1>0, RowsTyped DEF Requeue, CancelPending, OrchestrationTypeOK
<1>4. requeues' \in 0..MaxRequeues
  BY <1>0, <1>1, OrchestrationAssumption DEF OrchestrationTypeOK
<1>5. OrchestrationTypeOK'
  BY <1>0, <1>1, <1>2, <1>3, <1>4 DEF OrchestrationTypeOK
<1>6. Mutex' /\ \A x \in Actor : Role(x)'
  BY <1>1 DEF ShapeInv, Mutex, Role, At, HandlerPC, WorkerPC
<1>7. \A x \in Actor : InRange(x)'
  BY <1>1 DEF ShapeInv, InRange, At, Counted
<1> QED BY <1>5, <1>6, <1>7 DEF ShapeInv

(* Every step keeps the shape.                                             *)
LEMMA ShapeStep == ShapeInv /\ [Next]_vars => ShapeInv'
<1> SUFFICES ASSUME ShapeInv, [Next]_vars PROVE ShapeInv'
  OBVIOUS
<1>1. ASSUME UNCHANGED vars PROVE ShapeInv'
  <2>1. UNCHANGED <<plan, state, waiting, built, rec, lock, act, requeues, skipped>>
    BY <1>1 DEF vars, rowVars, history
  <2>2. OrchestrationTypeOK' /\ Mutex'
    BY <2>1 DEF ShapeInv, OrchestrationTypeOK, Mutex
  <2>3. \A x \in Actor : Role(x)' /\ InRange(x)'
    BY <2>1 DEF ShapeInv, Role, InRange, At, Counted, HandlerPC, WorkerPC
  <2> QED BY <2>2, <2>3 DEF ShapeInv
<1> QED BY <1>1, StepCases, DispatchShape, ExecutionShape, ChainShape, GroupShape,
           ChordShape, ClientShape
        DEF DispatchStep, ExecutionStep, ChainHook, GroupHook, ChordHook

(* The handler starts in its place.                                        *)
LEMMA InitShape == Init => ShapeInv
<1> SUFFICES ASSUME Init PROVE ShapeInv
  OBVIOUS
<1> USE OrchestrationAssumption
<1>1. /\ \A x \in Actor \ {Handler} : act[x] = Idle
      /\ act[Handler] = [Idle EXCEPT !.pc = IF plan = "chain" THEN "create" ELSE "insert",
                                     !.item = 1]
      /\ act = [x \in Actor |-> act[x]]
  BY DEF Init, Actor
<1>2. Idle \in ActorState
  BY NoRecTyped DEF Idle, ActorState, PC, ItemState
<1>3. act[Handler] \in ActorState
  <2> DEFINE pc == IF plan = "chain" THEN "create" ELSE "insert"
  <2>1. pc \in PC /\ 1 \in 0..Size
    BY DEF PC
  <2> HIDE DEF pc
  <2>2. [Idle EXCEPT !.pc = pc, !.item = 1] \in ActorState
    BY <1>2, <2>1 DEF ActorState
  <2> QED BY <1>1, <2>2 DEF pc
<1>4. /\ Idle.pc = "idle" /\ Idle.ok = 0 /\ Idle.bad = 0
      /\ act[Handler].pc = IF plan = "chain" THEN "create" ELSE "insert"
      /\ act[Handler].item = 1 /\ act[Handler].ok = 0 /\ act[Handler].bad = 0
  BY <1>1 DEF Idle
<1>5. OrchestrationTypeOK
  <2>1. act \in [Actor -> ActorState]
    BY <1>1, <1>2, <1>3
  <2>2. /\ plan \in {"chain", "group", "chord"} /\ state \in [Item -> ItemState]
        /\ waiting \in [Item -> Nat] /\ built \in [Item -> Nat] /\ rec \in Record
        /\ lock \in Actor \cup {None} /\ requeues \in 0..MaxRequeues
    BY NoRecTyped DEF Init, ItemState
  <2>3. skipped \in BOOLEAN
    BY DEF Init
  <2> QED BY <2>1, <2>2, <2>3 DEF OrchestrationTypeOK
<1>6. Mutex
  BY <1>1, <1>4, <1>5 DEF Init, Mutex, Critical, Actor
<1>7. \A x \in Actor : Role(x)
  <2>1. Role(Handler)
    BY <1>4 DEF Role, At, HandlerPC, Item, Callback
  <2>2. ASSUME NEW x \in Actor, x # Handler PROVE Role(x)
    BY <1>1, <1>4, <2>2 DEF Role, At, WorkerPC
  <2> QED BY <2>1, <2>2
<1>8. \A x \in Actor : InRange(x)
  BY <1>1, <1>4, <1>5 DEF InRange, At
<1> QED BY <1>5, <1>6, <1>7, <1>8 DEF ShapeInv

-----------------------------------------------------------------------------
(* What has been built.  A row without an insertion is not there; who is   *)
(* about to insert one finds none, and no two are about to insert the same.*)

Rows ==
  /\ \A i \in Item : /\ built[i] \in {0, 1}
                     /\ built[i] = 0 => state[i] = "absent" /\ waiting[i] = 0
  /\ \A x \in Actor :
       /\ At(x, "insert") => built[act[x].item] = 0
       /\ At(x, "enqueue") => built[act[x].item] = 1
       /\ At(x, "exec") => state[act[x].item] = "running"
  /\ \A x, y \in Actor :
       /\ At(x, "insert") /\ At(y, "insert") /\ act[x].item = act[y].item => x = y
       /\ At(x, "exec") /\ At(y, "exec") /\ act[x].item = act[y].item => x = y

(* While the handler creates a group or a chord there is no record, and    *)
(* what comes after the row it is at has not been built.  Nothing runs     *)
(* before a chain has its record.                                          *)
Creating ==
  /\ At(Handler, "create") \/ (plan # "chain" /\ ~At(Handler, "idle")) => rec.state = "none"
  /\ rec.state = "none" => rec.step = 0 /\ rec.callback = FALSE
  /\ plan = "chain" /\ rec.state = "none" =>
       At(Handler, "create") /\ \A w \in Worker : At(w, "idle")
  /\ plan # "chain" => \A i \in Item \ {Callback} :
       /\ At(Handler, "insert") /\ i >= act[Handler].item => built[i] = 0
       /\ At(Handler, "enqueue") /\ i > act[Handler].item => built[i] = 0
  /\ plan = "group" => built[Callback] = 0

(* No step beyond the n-th has been built or is about to be.               *)
Beyond(n) ==
  \A i \in Item : i > n =>
    built[i] = 0 /\ \A x \in Actor : ~(At(x, "insert") /\ act[x].item = i)

(* mark_failed sets the step back to 0 while another hook may hold the     *)
(* record; what that hook has read is what it writes.                      *)
ChainCount ==
  plan = "chain" =>
    /\ rec.state # "failed" => Beyond(rec.step)
    /\ \A x \in Actor : act[x].pc \in {"finish", "run", "step"} =>
         /\ Beyond(act[x].seen.step)
         /\ rec.state = "failed" \/ rec.step = act[x].seen.step

(* Whoever holds a chord's record found it open; the callback is built     *)
(* between the two writes that close it.                                   *)
ChordCount ==
  plan = "chord" =>
    /\ rec.state # "failed"
    /\ \A x \in Actor :
         /\ act[x].pc \in {"load", "settle", "body", "record"} =>
              rec.state \in {"pending", "running"}
         /\ At(x, "body") => built[Callback] = 0
         /\ At(x, "record") => built[Callback] = 1
    /\ rec.callback = TRUE => built[Callback] = 1
    /\ built[Callback] = 1 => rec.state = "success" \/ \E x \in Actor : At(x, "record")

BuildInv == Rows /\ Creating /\ ChainCount /\ ChordCount

(* What the updates write.                                                 *)
LEMMA RecordWrites ==
  ASSUME rec \in Record
  PROVE  /\ \A n, s : UpdateChainStep(n, s) =>
              IF rec.state = "none" THEN rec' = rec
              ELSE rec'.step = n /\ rec'.state = s /\ rec'.callback = rec.callback
         /\ \A s : UpdateGroupState(s) =>
              IF rec.state = "none" THEN rec' = rec
              ELSE rec'.step = rec.step /\ rec'.state = s /\ rec'.callback = rec.callback
         /\ \A s : UpdateChordState(s, FALSE) =>
              IF rec.state = "none" THEN rec' = rec
              ELSE rec'.step = rec.step /\ rec'.state = s /\ rec'.callback = rec.callback
         /\ \A s : UpdateChordState(s, TRUE) =>
              IF rec.state = "none" THEN rec' = rec
              ELSE rec'.step = rec.step /\ rec'.state = s /\ rec'.callback = TRUE
BY DEF UpdateChainStep, UpdateGroupState, UpdateChordState, UpdateRecord, Record

(* A move that touches neither rows nor record.                            *)
LEMMA QuietBuild ==
  ASSUME ShapeInv, BuildInv, NEW x \in Actor, Alone(x),
         UNCHANGED <<plan, state, waiting, built, rec>>,
         act[x].pc \notin {"idle", "create", "record"},
         act'[x].pc \notin {"create", "insert", "enqueue", "exec", "body", "record"},
         x = Handler => plan = "chain",
         plan = "chord" /\ act'[x].pc \in {"load", "settle"} =>
           rec.state \in {"pending", "running"},
         plan = "chain" /\ act'[x].pc \in {"finish", "run", "step"} =>
           \/ rec.state # "failed" /\ act'[x].seen.step = rec.step
           \/ act[x].pc \in {"finish", "run", "step"} /\ act'[x].seen = act[x].seen
  PROVE  BuildInv'
<1>1. \A y \in Actor \ {x} : act'[y] = act[y]
  BY DEF Alone
<1>2. Rows'
  BY <1>1 DEF BuildInv, Rows, At
<1>3. Creating'
  BY <1>1, OrchestrationAssumption DEF BuildInv, Creating, At, Actor
<1>4. ChainCount'
  <2>1. \A n : Beyond(n) => Beyond(n)'
    BY <1>1 DEF Beyond, At
  <2> QED BY <1>1, <2>1 DEF BuildInv, ChainCount
<1>5. ChordCount'
  BY <1>1 DEF BuildInv, ChordCount, At
<1> QED BY <1>2, <1>3, <1>4, <1>5 DEF BuildInv

(* Dispatching.                                                            *)
LEMMA DispatchBuild ==
  ASSUME ShapeInv, BuildInv, NEW x \in Actor, DispatchStep(x)
  PROVE  BuildInv'
<1> USE OrchestrationAssumption
<1>1. /\ OrchestrationTypeOK /\ Role(x) /\ rec \in Record /\ Rows /\ Creating
      /\ ChainCount /\ ChordCount /\ built \in [Item -> Nat] /\ waiting \in [Item -> Nat]
      /\ state \in [Item -> ItemState] /\ plan \in {"chain", "group", "chord"}
  BY DEF ShapeInv, OrchestrationTypeOK, BuildInv
<1>2. CASE x = Handler /\ CreateRecord(x)
  <2>1. /\ Alone(x) /\ At(x, "create")
        /\ plan = "chain" => act'[x].pc = "lock"
        /\ plan # "chain" => act'[x].pc = "idle"
        /\ UNCHANGED <<plan, state, waiting, built>>
    BY <1>2, DispatchMoves DEF CreateRecord, rowVars, history
  <2>2. rec'.state = "pending" /\ rec'.step = 0 /\ rec'.callback = FALSE
    BY <1>2 DEF CreateRecord, NoRec
  <2>3. rec.state = "none" /\ rec.step = 0 /\ rec.callback = FALSE
    BY <1>1, <1>2, <2>1 DEF Creating
  <2>4. \A y \in Actor \ {x} : act'[y] = act[y]
    BY <2>1 DEF Alone
  <2>5. Rows'
    BY <1>1, <2>1, <2>4 DEF Rows, At
  <2>6. Creating'
    BY <1>1, <1>2, <2>1, <2>2, <2>4 DEF Creating, At
  <2>7. ChainCount'
    <3>1. ASSUME plan = "chain" PROVE Beyond(0)'
      <4>1. Beyond(0)
        BY <1>1, <2>3, <3>1 DEF ChainCount
      <4> QED BY <2>1, <2>4, <3>1, <4>1 DEF Beyond, At
    <3>2. ASSUME plan = "chain", NEW y \in Actor
          PROVE  act'[y].pc \notin {"finish", "run", "step"}
      BY <1>1, <1>2, <2>1, <2>3, <2>4, <3>2 DEF Creating, At, Actor
    <3> QED BY <2>1, <2>2, <3>1, <3>2 DEF ChainCount
  <2>8. ChordCount'
    <3>1. ASSUME plan = "chord", NEW y \in Actor
          PROVE  act'[y].pc \notin {"load", "settle", "body", "record"}
      BY <1>1, <2>1, <2>3, <2>4, <3>1 DEF ChordCount
    <3> QED BY <1>1, <2>1, <2>2, <2>3, <2>4, <3>1 DEF ChordCount, At
  <2> QED BY <2>5, <2>6, <2>7, <2>8 DEF BuildInv
<1>3. CASE Insert(x)
  <2> DEFINE i == act[x].item
  <2>1. /\ Alone(x) /\ act'[x].item = i /\ At(x, "insert") /\ act'[x].pc = "enqueue"
        /\ UNCHANGED <<plan, waiting, rec>>
        /\ i \in Item /\ state' = [state EXCEPT ![i] = "pending"]
        /\ built' = [built EXCEPT ![i] = @ + 1]
    BY <1>1, <1>3, DispatchMoves DEF Insert, InsertRow, At, Role, Keeps
  <2>2. built[i] = 0 /\ built'[i] = 1 /\ state[i] = "absent" /\ state'[i] = "pending"
    BY <1>1, <2>1 DEF Rows
  <2>3. \A y \in Actor \ {x} : act'[y] = act[y]
    BY <2>1 DEF Alone
  <2>4. \A j \in Item \ {i} : built'[j] = built[j] /\ state'[j] = state[j]
    BY <1>1, <2>1
  <2>5. plan # "chain" => x = Handler /\ i # Callback
    BY <1>1, <2>1 DEF Role, WorkerPC, At, Actor
  <2>6. Rows'
    <3>1. \A j \in Item : /\ built'[j] \in {0, 1}
                          /\ built'[j] = 0 => state'[j] = "absent" /\ waiting'[j] = 0
      BY <1>1, <2>1, <2>2, <2>4 DEF Rows
    <3>2. ASSUME NEW y \in Actor, y # x
          PROVE  /\ At(y, "insert")' => built'[act'[y].item] = 0
                 /\ At(y, "enqueue")' => built'[act'[y].item] = 1
                 /\ At(y, "exec")' => state'[act'[y].item] = "running"
      <4>1. act[y].pc # "idle" => act[y].item \in Item
        BY DEF ShapeInv, Role
      <4> QED BY <1>1, <2>1, <2>2, <2>3, <2>4, <3>2, <4>1 DEF Rows, At
    <3> QED BY <1>1, <2>1, <2>2, <2>3, <3>1, <3>2 DEF Rows, At
  <2>7. Creating'
    <3>1. CASE plan = "chain"
      BY <1>1, <2>1, <2>3, <3>1 DEF Creating, At, Actor
    <3>2. CASE plan # "chain"
      <4>1. x = Handler /\ i # Callback /\ rec.state = "none"
        BY <1>1, <2>1, <2>5, <3>2 DEF Creating, At
      <4>2. Callback \in Item
        BY DEF Callback, Item
      <4>3. \A j \in Item \ {Callback} : j >= i => built[j] = 0
        BY <1>1, <2>1, <3>2, <4>1 DEF Creating
      <4>4. \A j \in Item \ {Callback} : j > i => built'[j] = 0
        BY <2>1, <2>4, <4>3 DEF Item
      <4> QED BY <1>1, <2>1, <2>4, <3>2, <4>1, <4>2, <4>4 DEF Creating, At
    <3> QED BY <3>1, <3>2
  <2>8. ChainCount'
    <3>1. \A n \in 0..Size : Beyond(n) => Beyond(n)'
      BY <2>1, <2>3, <2>4 DEF Beyond, At
    <3>2. rec.step \in 0..Size /\ \A y \in Actor : act[y].seen.step \in 0..Size
      BY <1>1 DEF OrchestrationTypeOK, ActorState, Record
    <3> QED BY <1>1, <2>1, <2>3, <3>1, <3>2 DEF ChainCount
  <2>9. ChordCount'
    <3>1. plan = "chord" => built'[Callback] = built[Callback]
      BY <2>4, <2>5 DEF Callback, Item
    <3> QED BY <1>1, <2>1, <2>3, <3>1 DEF ChordCount, At
  <2> QED BY <2>6, <2>7, <2>8, <2>9 DEF BuildInv
<1>4. CASE Enqueue(x)
  <2> DEFINE i == act[x].item
  <2>1. /\ Alone(x) /\ At(x, "enqueue") /\ i \in Item
        /\ \/ act'[x].pc = "idle" /\ (x # Handler \/ plan = "chain")
           \/ act'[x].pc = "create" /\ x = Handler /\ plan # "chain"
           \/ /\ act'[x].pc = "insert" /\ x = Handler /\ plan # "chain"
              /\ act'[x].item = i + 1 /\ i # Size - 1
        /\ UNCHANGED <<plan, state, built, rec>>
        /\ waiting' = [waiting EXCEPT ![i] = @ + 1]
    BY <1>1, <1>4, DispatchMoves DEF Enqueue, At, Role
  <2>2. built[i] = 1
    BY <1>1, <2>1 DEF Rows
  <2>3. \A y \in Actor \ {x} : act'[y] = act[y]
    BY <2>1 DEF Alone
  <2>4. x = Handler /\ plan # "chain" => i # Size
    BY <1>1, <2>1 DEF Role, At, Callback
  <2>5. act'[x].pc = "insert" =>
          /\ i + 1 \in Item \ {Callback} /\ built[i + 1] = 0
          /\ \A y \in Actor \ {x} : ~At(y, "insert")
    <3>1. ASSUME act'[x].pc = "insert" PROVE i + 1 \in Item \ {Callback} /\ i + 1 > i
      BY <2>1, <2>4, <3>1 DEF Item, Callback
    <3>2. ASSUME act'[x].pc = "insert" PROVE built[i + 1] = 0
      BY <1>1, <2>1, <3>1, <3>2 DEF Creating
    <3>3. ASSUME act'[x].pc = "insert", NEW y \in Actor \ {x} PROVE ~At(y, "insert")
      <4>1. Role(y) /\ y # Handler /\ plan # "chain"
        BY <2>1, <3>3 DEF ShapeInv
      <4> QED BY <4>1 DEF Role, At, WorkerPC
    <3> QED BY <3>1, <3>2, <3>3
  <2>6. Rows'
    <3>1. \A j \in Item : built'[j] \in {0, 1}
                          /\ (built'[j] = 0 => state'[j] = "absent" /\ waiting'[j] = 0)
      BY <1>1, <2>1, <2>2 DEF Rows
    <3> QED BY <1>1, <2>1, <2>3, <2>5, <3>1 DEF Rows, At
  <2>7. Creating'
    <3>1. CASE plan = "chain"
      BY <1>1, <2>1, <2>3, <3>1 DEF Creating, At, Actor
    <3>2. CASE plan # "chain" /\ x # Handler
      BY <1>1, <2>1, <2>3, <3>2 DEF Creating, At, Actor
    <3>3. CASE plan # "chain" /\ x = Handler
      <4>1. rec.state = "none"
        BY <1>1, <2>1, <3>3 DEF Creating, At
      <4>2. \A j \in Item \ {Callback} : act'[x].pc = "insert" /\ j >= i + 1 => built[j] = 0
        <5>1. \A j \in Item : j >= i + 1 => j > i
          BY <2>1 DEF Item
        <5> QED BY <1>1, <2>1, <3>3, <5>1 DEF Creating
      <4> QED BY <1>1, <2>1, <3>3, <4>1, <4>2 DEF Creating, At
    <3> QED BY <3>1, <3>2, <3>3
  <2>8. ChainCount'
    <3>1. \A n : plan = "chain" /\ Beyond(n) => Beyond(n)'
      BY <2>1, <2>3 DEF Beyond, At
    <3> QED BY <1>1, <2>1, <2>3, <3>1 DEF ChainCount
  <2>9. ChordCount'
    BY <1>1, <2>1, <2>3 DEF ChordCount, At
  <2> QED BY <2>6, <2>7, <2>8, <2>9 DEF BuildInv
<1> QED BY <1>2, <1>3, <1>4 DEF DispatchStep

(* A row that is taken or ended has been built, and nobody else runs it.   *)
LEMMA RowBuild ==
  ASSUME ShapeInv, BuildInv, NEW x \in Worker, Alone(x), UNCHANGED <<plan, built, rec>>,
         NEW i \in Item, NEW s, built[i] = 1, state' = [state EXCEPT ![i] = s],
         waiting' = waiting \/ waiting' = [waiting EXCEPT ![i] = @ - 1],
         \/ /\ At(x, "idle") /\ act'[x].pc = "exec" /\ act'[x].item = i
            /\ s = "running" /\ state[i] # "running"
         \/ At(x, "exec") /\ act[x].item = i /\ act'[x].pc \in {"idle", "reload"}
  PROVE  BuildInv'
<1> USE OrchestrationAssumption
<1>1. /\ Rows /\ Creating /\ ChainCount /\ ChordCount /\ x \in Actor /\ x # Handler
      /\ state \in [Item -> ItemState] /\ waiting \in [Item -> Nat]
      /\ built \in [Item -> Nat]
  BY DEF ShapeInv, OrchestrationTypeOK, BuildInv, Actor
<1>2. \A y \in Actor \ {x} : act'[y] = act[y]
  BY DEF Alone
<1>3. \A j \in Item : /\ j # i => state'[j] = state[j] /\ waiting'[j] = waiting[j]
                      /\ j = i => state'[j] = s
  BY <1>1
<1>4. Rows'
  <2>1. \A j \in Item : /\ built'[j] \in {0, 1}
                        /\ built'[j] = 0 => state'[j] = "absent" /\ waiting'[j] = 0
    BY <1>1, <1>3 DEF Rows
  <2>2. ASSUME NEW y \in Actor, y # x, At(y, "exec")
        PROVE  act[y].item \in Item /\ act[y].item # i
    <3>1. act[y].item \in Item /\ state[act[y].item] = "running"
      BY <1>1, <2>2 DEF ShapeInv, Role, Rows, At
    <3> QED BY <1>1, <2>2, <3>1 DEF Rows, At
  <2>3. \A y \in Actor : /\ At(y, "insert")' => built'[act'[y].item] = 0
                         /\ At(y, "enqueue")' => built'[act'[y].item] = 1
    BY <1>1, <1>2 DEF Rows, At
  <2>4. \A y \in Actor : At(y, "exec")' => state'[act'[y].item] = "running"
    BY <1>1, <1>2, <1>3, <2>2 DEF Rows, At
  <2>5. \A y, z \in Actor :
          At(y, "insert")' /\ At(z, "insert")' /\ act'[y].item = act'[z].item => y = z
    BY <1>1, <1>2 DEF Rows, At
  <2>6. \A y, z \in Actor :
          At(y, "exec")' /\ At(z, "exec")' /\ act'[y].item = act'[z].item => y = z
    BY <1>1, <1>2, <2>2 DEF Rows, At
  <2> QED BY <2>1, <2>3, <2>4, <2>5, <2>6 DEF Rows
<1>5. ~(plan = "chain" /\ rec.state = "none")
  <2> SUFFICES ASSUME plan = "chain", rec.state = "none" PROVE FALSE
    OBVIOUS
  <2>1. Beyond(0)
    BY <1>1 DEF Creating, ChainCount
  <2> QED BY <2>1 DEF Beyond, Item
<1>6. Creating'
  BY <1>1, <1>2, <1>5 DEF Creating, At, Actor
<1>7. ChainCount'
  <2>1. \A n : Beyond(n) => Beyond(n)'
    BY <1>1, <1>2 DEF Beyond, At
  <2> QED BY <1>1, <1>2, <2>1 DEF ChainCount
<1>8. ChordCount'
  BY <1>1, <1>2 DEF ChordCount, At
<1> QED BY <1>4, <1>6, <1>7, <1>8 DEF BuildInv

(* The rows a client or a worker writes without moving.                    *)
LEMMA StillBuild ==
  ASSUME ShapeInv, BuildInv, UNCHANGED <<plan, built, rec, act>>,
         NEW i \in Item, built[i] = 1, NEW s,
         \/ state' = state
         \/ state[i] # "running" /\ state' = [state EXCEPT ![i] = s],
         \A j \in Item : j # i => waiting'[j] = waiting[j]
  PROVE  BuildInv'
<1>1. /\ Rows /\ Creating /\ ChainCount /\ ChordCount
      /\ state \in [Item -> ItemState] /\ waiting \in [Item -> Nat]
      /\ built \in [Item -> Nat]
  BY DEF ShapeInv, OrchestrationTypeOK, BuildInv
<1>2. Rows'
  <2>1. \A j \in Item : /\ built'[j] \in {0, 1}
                        /\ built'[j] = 0 => state'[j] = "absent" /\ waiting'[j] = 0
    BY <1>1 DEF Rows
  <2>2. \A y \in Actor : At(y, "exec")' => state'[act'[y].item] = "running"
    BY <1>1 DEF Rows, At, ShapeInv, Role
  <2>3. /\ \A y \in Actor : /\ At(y, "insert")' => built'[act'[y].item] = 0
                            /\ At(y, "enqueue")' => built'[act'[y].item] = 1
        /\ \A y, z \in Actor :
             /\ At(y, "insert")' /\ At(z, "insert")' /\ act'[y].item = act'[z].item => y = z
             /\ At(y, "exec")' /\ At(z, "exec")' /\ act'[y].item = act'[z].item => y = z
    BY <1>1 DEF Rows, At
  <2> QED BY <2>1, <2>2, <2>3 DEF Rows
<1>3. Creating' /\ ChordCount'
  BY <1>1 DEF Creating, ChordCount, At
<1>4. ChainCount'
  <2>1. \A n : Beyond(n) => Beyond(n)'
    BY DEF Beyond, At
  <2> QED BY <1>1, <2>1 DEF ChainCount
<1> QED BY <1>2, <1>3, <1>4 DEF BuildInv

(* A row that is there has been built, and so has one that waits.          *)
LEMMA BuiltRow ==
  ASSUME ShapeInv, BuildInv, NEW i \in Item, state[i] # "absent" \/ waiting[i] > 0
  PROVE  built[i] = 1
BY DEF ShapeInv, OrchestrationTypeOK, BuildInv, Rows

(* Executing.                                                              *)
LEMMA ExecutionBuild ==
  ASSUME ShapeInv, BuildInv, NEW x \in Worker, ExecutionStep(x)
  PROVE  BuildInv'
<1> USE OrchestrationAssumption
<1>1. /\ x \in Actor /\ x # Handler /\ Role(x) /\ Rows
      /\ plan \in {"chain", "group", "chord"}
      /\ state \in [Item -> ItemState] /\ waiting \in [Item -> Nat]
  BY DEF ShapeInv, OrchestrationTypeOK, BuildInv, Actor
<1>2. ASSUME NEW i \in Item, Take(x, i) PROVE BuildInv'
  <2>1. /\ At(x, "idle") /\ waiting[i] > 0 /\ state[i] # "running"
        /\ waiting' = [waiting EXCEPT ![i] = @ - 1]
        /\ UNCHANGED <<plan, built, rec>>
    BY <1>2 DEF Take
  <2>2. built[i] = 1
    BY <2>1, BuiltRow
  <2>3. CASE state[i] \in Final
    <3>1. state' = state /\ act' = act
      BY <1>2, <2>3 DEF Take
    <3>2. \A j \in Item : j # i => waiting'[j] = waiting[j]
      BY <1>1, <2>1
    <3> QED BY <2>1, <2>2, <3>1, <3>2, StillBuild
  <2>4. CASE state[i] \notin Final
    <3>1. Alone(x) /\ act'[x].pc = "exec" /\ act'[x].item = i
      BY <1>1, <1>2, <2>4, ExecutionMoves
    <3>2. state' = [state EXCEPT ![i] = "running"]
      BY <1>2, <2>4 DEF Take
    <3> QED BY <2>1, <2>2, <3>1, <3>2, RowBuild
  <2> QED BY <2>3, <2>4
<1>3. CASE End(x) \/ EndSilently(x)
  <2> DEFINE i == act[x].item
  <2>1. /\ Alone(x) /\ act'[x].pc \in {"idle", "reload"}
        /\ At(x, "exec") /\ UNCHANGED <<plan, built, rec, waiting>>
    BY <1>1, <1>3, ExecutionMoves DEF End, EndSilently
  <2>2. PICK s : state' = [state EXCEPT ![i] = s]
    BY <1>3 DEF End, EndSilently
  <2>3. i \in Item /\ state[i] = "running"
    BY <1>1, <2>1 DEF Role, Rows, At
  <2>4. built[i] = 1
    BY <2>3, BuiltRow
  <2> HIDE DEF i
  <2> QED BY <2>1, <2>2, <2>3, <2>4, RowBuild DEF i
<1>4. CASE Reload(x) \/ Notify(x)
  <2>1. /\ Alone(x) /\ UNCHANGED <<plan, state, waiting, built, rec>>
        /\ act[x].pc \in {"reload", "notify"}
    BY <1>1, <1>4, ExecutionMoves DEF Reload, Notify, rowVars, At
  <2>2. act'[x].pc \in {"idle", "notify", "lock", "mark", "read"}
    BY <1>1, <1>4, ExecutionMoves DEF Hook
  <2> QED BY <1>1, <2>1, <2>2, QuietBuild
<1> QED BY <1>2, <1>3, <1>4 DEF ExecutionStep, TakeAny

(* The hook of a chain.                                                    *)
LEMMA ChainBuild ==
  ASSUME ShapeInv, BuildInv, plan = "chain", NEW x \in Actor, ChainHook(x)
  PROVE  BuildInv'
<1> USE OrchestrationAssumption
<1>1. /\ Rows /\ Creating /\ ChainCount /\ ChordCount /\ rec \in Record /\ Mutex
      /\ built \in [Item -> Nat] /\ act \in [Actor -> ActorState]
      /\ Role(x) /\ InRange(x) /\ Handler \in Actor
  BY DEF ShapeInv, OrchestrationTypeOK, BuildInv, Actor
<1>2. /\ Alone(x) /\ UNCHANGED <<plan, state, waiting, built>>
      /\ act[x].pc \notin {"idle", "create"}
  BY <1>1, ExecutionMoves, ChainMoves
     DEF ChainHook, MarkFailed, Acquire, ChainRead, ChainFinish, ChainRun, ChainStep,
         rowVars, At
<1>3. rec.state # "none"
  BY <1>1, <1>2 DEF Creating, At, Actor
<1>4. \A y \in Actor \ {x} : act'[y] = act[y]
  BY <1>2 DEF Alone
<1>5. ASSUME act'[x].pc \notin {"create", "insert", "enqueue", "exec", "body", "record"},
             rec'.state # "none",
             rec'.state # "failed" => Beyond(rec.step)',
             act'[x].pc \in {"finish", "run", "step"} =>
               /\ Beyond(act[x].seen.step)'
               /\ rec'.state = "failed" \/ rec'.step = act'[x].seen.step,
             \A y \in Actor \ {x} : act[y].pc \in {"finish", "run", "step"} =>
               rec'.state = "failed"
      PROVE  BuildInv'
  <2>1. Rows'
    BY <1>1, <1>2, <1>4, <1>5 DEF Rows, At
  <2>2. Creating'
    BY <1>1, <1>2, <1>3, <1>4, <1>5 DEF Creating, At
  <2>3. ChainCount'
    <3>1. \A n : Beyond(n) => Beyond(n)'
      BY <1>2, <1>4, <1>5 DEF Beyond, At
    <3>2. ASSUME NEW y \in Actor, act'[y].pc \in {"finish", "run", "step"}
          PROVE  /\ Beyond(act[y].seen.step)'
                 /\ rec'.state = "failed" \/ rec'.step = act'[y].seen.step
      <4>1. CASE y = x
        BY <1>5, <3>2, <4>1
      <4>2. CASE y # x
        <5>1. act'[y] = act[y] /\ Beyond(act[y].seen.step) /\ rec'.state = "failed"
          BY <1>1, <1>4, <1>5, <3>2, <4>2 DEF ChainCount
        <5>2. PICK n : n = act[y].seen.step
          OBVIOUS
        <5>3. Beyond(n)'
          BY <3>1, <5>1, <5>2
        <5> QED BY <5>1, <5>2, <5>3
      <4> QED BY <4>1, <4>2
    <3> QED BY <1>2, <1>5, <3>2 DEF ChainCount
  <2>4. ChordCount'
    BY <1>2 DEF ChordCount
  <2> QED BY <2>1, <2>2, <2>3, <2>4 DEF BuildInv
<1>6. act[x].pc \in Critical =>
        \A y \in Actor \ {x} : act[y].pc \notin {"finish", "run", "step"}
  BY <1>1 DEF Mutex, Critical
<1>7. CASE MarkFailed(x)
  <2>1. rec'.step = 0 /\ rec'.state = "failed" /\ act'[x].pc = "idle"
    BY <1>1, <1>3, <1>7, RecordWrites, ChainMoves DEF MarkFailed
  <2> QED BY <1>5, <2>1
<1>8. CASE Acquire(x)
  <2>1. act'[x].pc = "read" /\ rec' = rec /\ act[x].pc = "lock"
    BY <1>8, ExecutionMoves DEF Acquire, At
  <2> QED BY <1>2, <2>1, QuietBuild
<1>9. CASE ChainRead(x)
  <2>1. rec' = rec /\ act[x].pc = "read"
    BY <1>9 DEF ChainRead, At
  <2>2. \/ act'[x].pc = "idle"
        \/ /\ act'[x].pc \in {"finish", "run", "step"} /\ act'[x].seen = rec
           /\ rec.state # "failed"
    BY <1>9, ChainMoves
  <2> QED BY <1>2, <2>1, <2>2, QuietBuild
<1>10. CASE ChainFinish(x)
  <2>1. rec'.step = act[x].seen.step /\ rec'.state = "success" /\ act'[x].pc = "idle"
        /\ act[x].pc = "finish"
    BY <1>1, <1>3, <1>10, RecordWrites, ChainMoves DEF ChainFinish, At
  <2>2. PICK n : n = act[x].seen.step
    OBVIOUS
  <2>3. Beyond(n)
    BY <1>1, <2>1, <2>2 DEF ChainCount
  <2>4. Beyond(n)'
    BY <1>2, <1>4, <2>1, <2>3 DEF Beyond, At
  <2>5. Beyond(rec.step)'
    BY <2>1, <2>2, <2>4 DEF Beyond
  <2> QED BY <1>5, <1>6, <2>1, <2>5 DEF Critical
<1>11. CASE ChainRun(x)
  <2>1. rec'.step = act[x].seen.step /\ rec'.state = "running" /\ act'[x].pc = "step"
        /\ act'[x].seen = act[x].seen /\ act[x].pc = "run"
    BY <1>1, <1>3, <1>11, RecordWrites, ChainMoves DEF ChainRun, At, Keeps
  <2>2. PICK n : n = act[x].seen.step
    OBVIOUS
  <2>3. Beyond(n)
    BY <1>1, <2>1, <2>2 DEF ChainCount
  <2>4. Beyond(n)'
    BY <1>2, <1>4, <2>1, <2>3 DEF Beyond, At
  <2>5. Beyond(rec.step)' /\ Beyond(act[x].seen.step)'
    BY <2>1, <2>2, <2>4 DEF Beyond
  <2> QED BY <1>5, <1>6, <2>1, <2>5 DEF Critical
<1>12. CASE ChainStep(x)
  <2>0. PICK n : n = act[x].seen.step
    OBVIOUS
  <2>1. rec'.step = n + 1 /\ rec'.state = "running" /\ act'[x].pc = "insert"
        /\ act'[x].item = n + 1 /\ n + 1 \in Item /\ act[x].pc = "step"
    BY <1>1, <1>3, <1>12, <2>0, RecordWrites, ChainMoves DEF ChainStep, At
  <2>2. Beyond(n) /\ n \in Int
    BY <1>1, <2>0, <2>1 DEF ChainCount, ActorState, Record
  <2>3. built[n + 1] = 0 /\ \A y \in Actor : ~(At(y, "insert") /\ act[y].item = n + 1)
    BY <2>1, <2>2 DEF Beyond
  <2>4. Rows'
    BY <1>1, <1>2, <1>4, <2>1, <2>3 DEF Rows, At
  <2>5. Creating'
    BY <1>1, <1>2, <1>3, <1>4, <2>1 DEF Creating, At
  <2>6. ChainCount'
    <3>1. Beyond(n + 1)'
      <4> SUFFICES ASSUME NEW i \in Item, i > n + 1
                   PROVE  /\ built'[i] = 0
                          /\ \A y \in Actor : ~(At(y, "insert")' /\ act'[y].item = i)
        BY DEF Beyond
      <4>1. i > n
        BY <2>2 DEF Item
      <4> QED BY <1>2, <1>4, <2>1, <2>2, <4>1 DEF Beyond, At, Item
    <3>2. \A y \in Actor : act'[y].pc \notin {"finish", "run", "step"}
      BY <1>4, <1>6, <2>1 DEF Critical
    <3> QED BY <2>1, <3>1, <3>2 DEF ChainCount, Beyond
  <2>7. ChordCount'
    BY <1>2 DEF ChordCount
  <2> QED BY <2>4, <2>5, <2>6, <2>7 DEF BuildInv
<1> QED BY <1>7, <1>8, <1>9, <1>10, <1>11, <1>12 DEF ChainHook

(* The hook of a group.                                                    *)
LEMMA GroupBuild ==
  ASSUME ShapeInv, BuildInv, plan = "group", NEW x \in Worker, GroupHook(x)
  PROVE  BuildInv'
<1> USE OrchestrationAssumption
<1>1. /\ Rows /\ Creating /\ ChainCount /\ ChordCount /\ rec \in Record
      /\ x \in Actor /\ x # Handler /\ InRange(x)
  BY DEF ShapeInv, OrchestrationTypeOK, BuildInv, Actor
<1>2. CASE GroupRead(x)
  <2>1. /\ Alone(x) /\ act'[x].pc = "load" /\ At(x, "read")
        /\ UNCHANGED <<plan, state, waiting, built, rec>>
    BY <1>1, <1>2, JoinMoves DEF GroupRead, rowVars
  <2> QED BY <1>1, <2>1, QuietBuild DEF At
<1>3. CASE Load(x)
  <2>1. /\ Alone(x) /\ act'[x].pc \in {"load", "settle"} /\ At(x, "load")
        /\ UNCHANGED <<plan, state, waiting, built, rec>>
    BY <1>3, LoadLocal DEF Load, rowVars
  <2> QED BY <1>1, <2>1, QuietBuild DEF At
<1>4. CASE GroupSettle(x)
  <2>1. /\ Alone(x) /\ act'[x].pc = "idle" /\ At(x, "settle")
        /\ UNCHANGED <<plan, state, waiting, built>>
    BY <1>1, <1>4, JoinMoves DEF GroupSettle, rowVars
  <2>2. \A y \in Actor \ {x} : act'[y] = act[y]
    BY <2>1 DEF Alone
  <2>3. \/ rec' = rec /\ rec.state = "none"
        \/ rec'.step = rec.step /\ rec'.callback = rec.callback /\ rec.state # "none"
           /\ rec'.state # "none"
    BY <1>1, <1>4, RecordWrites DEF GroupSettle, Summary
  <2>4. Rows'
    BY <1>1, <2>1, <2>2 DEF Rows, At
  <2>5. Creating'
    BY <1>1, <2>1, <2>2, <2>3 DEF Creating, At, Actor
  <2> QED BY <1>1, <2>1, <2>4, <2>5 DEF BuildInv, ChainCount, ChordCount
<1> QED BY <1>2, <1>3, <1>4 DEF GroupHook

(* The hook of a chord.                                                    *)
LEMMA ChordBuild ==
  ASSUME ShapeInv, BuildInv, plan = "chord", NEW x \in Worker, ChordHook(x)
  PROVE  BuildInv'
<1> USE OrchestrationAssumption
<1>1. /\ Rows /\ Creating /\ ChainCount /\ ChordCount /\ rec \in Record /\ Mutex
      /\ built \in [Item -> Nat] /\ state \in [Item -> ItemState]
      /\ x \in Actor /\ x # Handler /\ InRange(x) /\ Callback \in Item /\ Handler \in Actor
      /\ waiting \in [Item -> Nat]
  BY DEF ShapeInv, OrchestrationTypeOK, BuildInv, Actor, Callback, Item
<1>2. Alone(x)
  BY <1>1, ExecutionMoves, JoinMoves, LoadLocal DEF ChordHook
<1>3. \A y \in Actor \ {x} : act'[y] = act[y]
  BY <1>2 DEF Alone
<1>4. \A y \in Actor \ {x} : act[x].pc \in Critical => act[y].pc \notin Critical
  BY <1>1 DEF Mutex
<1>5. CASE Acquire(x)
  <2>1. /\ act'[x].pc = "read" /\ At(x, "lock")
        /\ UNCHANGED <<plan, state, waiting, built, rec>>
    BY <1>1, <1>5, ExecutionMoves DEF Acquire, rowVars
  <2> QED BY <1>1, <1>2, <2>1, QuietBuild DEF At
<1>6. CASE ChordRead(x)
  <2>1. At(x, "read") /\ UNCHANGED <<plan, state, waiting, built, rec>>
    BY <1>6 DEF ChordRead, rowVars
  <2>2. CASE \/ act'[x].pc = "idle"
             \/ act'[x].pc = "load" /\ rec.state \in {"pending", "running"}
    BY <1>1, <1>2, <2>1, <2>2, QuietBuild DEF At
  <2>3. CASE act'[x].pc = "enqueue" /\ act'[x].item = Callback /\ rec.callback
    <3>1. built[Callback] = 1
      BY <1>1, <2>3 DEF ChordCount, Record
    <3>2. Rows'
      BY <1>1, <1>3, <2>1, <2>3, <3>1 DEF Rows, At
    <3>3. Creating'
      BY <1>1, <1>3, <2>1, <2>3 DEF Creating, At
    <3>4. ChordCount'
      BY <1>1, <1>3, <2>1, <2>3 DEF ChordCount, At
    <3> QED BY <2>1, <3>2, <3>3, <3>4 DEF BuildInv, ChainCount
  <2>4. rec.state \notin {"none", "partial_failed", "success"} =>
          rec.state \in {"pending", "running"}
    BY <1>1 DEF ChordCount, Record
  <2> QED BY <1>1, <1>6, <2>2, <2>3, <2>4, JoinMoves
<1>7. CASE Load(x)
  <2>1. /\ act'[x].pc \in {"load", "settle"} /\ At(x, "load")
        /\ UNCHANGED <<plan, state, waiting, built, rec>>
    BY <1>7, LoadLocal DEF Load, rowVars
  <2>2. rec.state \in {"pending", "running"}
    BY <1>1, <2>1 DEF ChordCount, At
  <2> QED BY <1>1, <1>2, <2>1, <2>2, QuietBuild DEF At
<1>8. CASE ChordSettle(x)
  <2>1. At(x, "settle") /\ UNCHANGED <<plan, state, waiting, built>>
    BY <1>8 DEF ChordSettle, rowVars
  <2>2. rec.state \in {"pending", "running"}
    BY <1>1, <2>1 DEF ChordCount, At
  <2>3. \A y \in Actor : ~At(y, "record") /\ (y # x => act[y].pc \notin Critical)
    BY <1>1, <1>4, <2>1 DEF Critical, At
  <2>4. ~(rec.callback = TRUE) /\ built[Callback] = 0
    <3>1. built[Callback] # 1
      BY <1>1, <2>2, <2>3 DEF ChordCount
    <3> QED BY <1>1, <3>1 DEF ChordCount, Rows
  <2>5. act'[x].pc \in {"idle", "body"}
    BY <1>1, <1>8, JoinMoves
  <2>6. Rows'
    BY <1>1, <1>3, <2>1, <2>5 DEF Rows, At
  <2>7. /\ rec'.state \notin {"none", "failed"}
        /\ rec'.callback = TRUE => rec.callback = TRUE
        /\ act'[x].pc = "body" => rec' = rec
    <3>1. CASE UpdateChordState("partial_failed", FALSE) /\ act'[x].pc = "idle"
      BY <1>1, <2>2, <3>1 DEF UpdateChordState, UpdateRecord, Record
    <3>2. CASE UpdateChordState("running", FALSE) /\ act'[x].pc = "idle"
      BY <1>1, <2>2, <3>2 DEF UpdateChordState, UpdateRecord, Record
    <3>3. CASE rec' = rec
      BY <2>2, <3>3
    <3> QED BY <1>1, <1>8, <3>1, <3>2, <3>3, JoinMoves
  <2>8. Creating'
    BY <1>1, <1>3, <2>1, <2>2, <2>5, <2>7 DEF Creating, At
  <2>9. ChordCount'
    <3>1. \A y \in Actor : /\ act'[y].pc \notin {"load", "settle", "record"}
                           /\ act'[y].pc = "body" => y = x
      BY <1>3, <2>3, <2>5 DEF Critical
    <3>2. built'[Callback] = 0
      BY <2>1, <2>4
    <3>3. ~(rec'.callback = TRUE)
      BY <2>4, <2>7
    <3>4. ASSUME NEW y \in Actor
          PROVE  /\ act'[y].pc \in {"load", "settle", "body", "record"} =>
                      rec'.state \in {"pending", "running"}
                 /\ act'[y].pc # "record"
      BY <2>2, <2>7, <3>1, <3>4
    <3>5. rec'.state # "failed"
      BY <2>7
    <3> QED BY <3>2, <3>3, <3>4, <3>5 DEF ChordCount, At
  <2> QED BY <2>1, <2>6, <2>8, <2>9 DEF BuildInv, ChainCount
<1>9. CASE ChordBody(x)
  <2>1. /\ act'[x].pc = "record" /\ At(x, "body")
        /\ UNCHANGED <<plan, waiting, rec>>
        /\ state' = [state EXCEPT ![Callback] = "pending"]
        /\ built' = [built EXCEPT ![Callback] = @ + 1]
    BY <1>1, <1>9, JoinMoves DEF ChordBody, InsertRow
  <2>2. /\ built[Callback] = 0 /\ built'[Callback] = 1 /\ rec.state \in {"pending", "running"}
        /\ state[Callback] = "absent" /\ state'[Callback] = "pending"
    BY <1>1, <2>1 DEF ChordCount, At, Rows
  <2>3. \A j \in Item \ {Callback} : built'[j] = built[j] /\ state'[j] = state[j]
    BY <1>1, <2>1
  <2>4. \A y \in Actor : act[y].pc = "insert" => act[y].item # Callback
    BY <2>1 DEF ShapeInv, Role, WorkerPC
  <2>5. Rows'
    <3>1. \A j \in Item : /\ built'[j] \in {0, 1}
                          /\ built'[j] = 0 => state'[j] = "absent" /\ waiting'[j] = 0
      BY <1>1, <2>1, <2>2, <2>3 DEF Rows
    <3>2. ASSUME NEW y \in Actor
          PROVE  /\ At(y, "insert")' => built'[act'[y].item] = 0
                 /\ At(y, "enqueue")' => built'[act'[y].item] = 1
                 /\ At(y, "exec")' => state'[act'[y].item] = "running"
      <4>1. CASE y = x
        BY <2>1, <4>1 DEF At
      <4>2. CASE y # x
        <5>1. act'[y] = act[y] /\ (act[y].pc # "idle" => act[y].item \in Item)
          BY <1>3, <4>2 DEF ShapeInv, Role
        <5> QED BY <1>1, <2>2, <2>3, <2>4, <5>1 DEF Rows, At
      <4> QED BY <4>1, <4>2
    <3> QED BY <1>1, <1>3, <2>1, <3>1, <3>2 DEF Rows, At
  <2>6. Creating'
    BY <1>1, <1>3, <2>1, <2>2, <2>3 DEF Creating, At
  <2>7. ChordCount'
    <3>1. \A y \in Actor \ {x} : act[y].pc \notin Critical
      BY <1>4, <2>1 DEF Critical, At
    <3> QED BY <1>1, <1>3, <2>1, <2>2, <3>1 DEF ChordCount, At, Critical
  <2> QED BY <2>1, <2>5, <2>6, <2>7 DEF BuildInv, ChainCount
<1>10. CASE ChordRecord(x)
  <2>1. /\ act'[x].pc = "enqueue" /\ act'[x].item = Callback /\ At(x, "record")
        /\ UNCHANGED <<plan, state, waiting, built>>
    BY <1>1, <1>10, JoinMoves DEF ChordRecord, rowVars
  <2>2. built[Callback] = 1 /\ rec.state \in {"pending", "running"}
    BY <1>1, <2>1 DEF ChordCount, At
  <2>3. rec'.state = "success" /\ rec'.callback = TRUE
    BY <1>1, <1>10, <2>2, RecordWrites DEF ChordRecord
  <2>4. Rows'
    BY <1>1, <1>3, <2>1, <2>2 DEF Rows, At
  <2>5. Creating'
    BY <1>1, <1>3, <2>1, <2>2, <2>3 DEF Creating, At
  <2>6. ChordCount'
    <3>1. \A y \in Actor \ {x} : act[y].pc \notin Critical
      BY <1>4, <2>1 DEF Critical, At
    <3> QED BY <1>3, <2>1, <2>2, <2>3, <3>1 DEF ChordCount, At, Critical
  <2> QED BY <2>1, <2>4, <2>5, <2>6 DEF BuildInv, ChainCount
<1> QED BY <1>5, <1>6, <1>7, <1>8, <1>9, <1>10 DEF ChordHook

(* Clients.                                                                *)
LEMMA ClientBuild ==
  ASSUME ShapeInv, BuildInv, NEW i \in Item, Requeue(i) \/ CancelPending(i)
  PROVE  BuildInv'
<1>1. /\ waiting \in [Item -> Nat] /\ state \in [Item -> ItemState]
      /\ UNCHANGED <<plan, built, rec, act>>
      /\ state[i] \in Final \cup {"pending"}
      /\ waiting' = waiting \/ waiting' = [waiting EXCEPT ![i] = @ + 1]
  BY DEF ShapeInv, OrchestrationTypeOK, Requeue, CancelPending
<1>2. PICK s : state' = [state EXCEPT ![i] = s]
  BY DEF Requeue, CancelPending
<1>3. built[i] = 1
  BY <1>1, BuiltRow DEF Final
<1>4. state[i] # "running" /\ \A j \in Item : j # i => waiting'[j] = waiting[j]
  BY <1>1 DEF Final
<1> QED BY <1>1, <1>2, <1>3, <1>4, StillBuild

(* Every step keeps what is known of what has been built.                  *)
LEMMA BuildStep ==
  ASSUME ShapeInv, BuildInv, [Next]_vars
  PROVE  BuildInv'
<1>1. ASSUME UNCHANGED vars PROVE BuildInv'
  <2>1. UNCHANGED <<plan, state, waiting, built, rec, act>>
    BY <1>1 DEF vars, rowVars
  <2>2. Rows' /\ Creating' /\ ChordCount'
    BY <2>1 DEF BuildInv, Rows, Creating, ChordCount, At
  <2>3. \A n : Beyond(n) => Beyond(n)'
    BY <2>1 DEF Beyond, At
  <2>4. ChainCount'
    BY <2>1, <2>3 DEF BuildInv, ChainCount
  <2> QED BY <2>2, <2>4 DEF BuildInv
<1> QED BY <1>1, StepCases, DispatchBuild, ExecutionBuild, ChainBuild, GroupBuild,
           ChordBuild, ClientBuild

(* Nothing has been built at first.                                        *)
LEMMA InitBuild == Init => BuildInv
<1> SUFFICES ASSUME Init PROVE BuildInv
  OBVIOUS
<1> USE OrchestrationAssumption
<1>1. /\ \A x \in Actor \ {Handler} : act[x].pc = "idle"
      /\ act[Handler].pc = IF plan = "chain" THEN "create" ELSE "insert"
      /\ act[Handler].item = 1 /\ Handler \in Actor
  BY DEF Init, Actor, Idle
<1>2. /\ \A i \in Item : built[i] = 0 /\ state[i] = "absent" /\ waiting[i] = 0
      /\ rec.state = "none" /\ rec.step = 0 /\ rec.callback = FALSE
      /\ 1 \in Item /\ Callback \in Item
  BY DEF Init, NoRec, Item, Callback
<1>3. Rows
  BY <1>1, <1>2 DEF Rows, At
<1>4. Creating
  BY <1>1, <1>2 DEF Creating, At, Actor
<1>5. ChainCount
  <2>1. plan = "chain" => Beyond(0)
    BY <1>1, <1>2 DEF Beyond, At
  <2> QED BY <1>1, <1>2, <2>1 DEF ChainCount
<1>6. ChordCount
  BY <1>1, <1>2 DEF ChordCount, At
<1> QED BY <1>3, <1>4, <1>5, <1>6 DEF BuildInv

(* The shape of the actors, the mutex and what has been built are as       *)
(* described in every state.                                               *)
THEOREM BuildInvariant == Spec => [](ShapeInv /\ BuildInv)
<1>1. Init => ShapeInv /\ BuildInv
  BY InitShape, InitBuild
<1>2. ShapeInv /\ BuildInv /\ [Next]_vars => (ShapeInv /\ BuildInv)'
  BY ShapeStep, BuildStep
<1> QED BY <1>1, <1>2, PTL DEF Spec

(* Every variable of the orchestration keeps its type.                     *)
THEOREM OrchestrationTypeCorrect == Spec => []OrchestrationTypeOK
<1>1. ShapeInv => OrchestrationTypeOK
  BY DEF ShapeInv
<1> QED BY <1>1, BuildInvariant, PTL

(* No step of a chain and no callback of a chord is dispatched twice: the  *)
(* step is counted and the mutex held between the read of the record and   *)
(* that write, mark_failed stops a chain for good, and a chord's callback  *)
(* is built between the two writes that close its record.                  *)
THEOREM DispatchedAlwaysOnce == Spec => []DispatchedOnce
<1>1. BuildInv => DispatchedOnce
  BY DEF BuildInv, Rows, DispatchedOnce
<1> QED BY <1>1, BuildInvariant, PTL

(* Only the hook that holds the mutex of a chain or a chord is between the *)
(* read of its record and the last write.                                  *)
THEOREM OneHookAtATime ==
  Spec => [](plan # "group" =>
               \A x, y \in Actor : act[x].pc \in Critical /\ act[y].pc \in Critical => x = y)
<1>1. ShapeInv => (plan # "group" =>
        \A x, y \in Actor : act[x].pc \in Critical /\ act[y].pc \in Critical => x = y)
  BY DEF ShapeInv, Mutex
<1> QED BY <1>1, BuildInvariant, PTL

(* A chord that has come to its end keeps it: who holds its mutex found it *)
(* open, and every hook that writes it holds the mutex.                    *)
THEOREM ChordAlwaysEndsOnce == Spec => ChordEndsOnce
<1>1. ASSUME ShapeInv, BuildInv, [Next]_vars,
             plan = "chord", rec.state \in {"success", "partial_failed"}
      PROVE  rec' = rec
  <2>1. Creating /\ ChordCount
    BY <1>1 DEF BuildInv
  <2>2. ASSUME NEW x \in Actor, DispatchStep(x) PROVE rec' = rec
    BY <1>1, <2>1, <2>2 DEF DispatchStep, CreateRecord, Insert, Enqueue, Creating
  <2>3. ASSUME NEW w \in Worker, ExecutionStep(w) PROVE rec' = rec
    BY <2>3 DEF ExecutionStep, TakeAny, Take, End, EndSilently, Reload, Notify
  <2>4. ASSUME NEW w \in Worker, ChordHook(w) PROVE rec' = rec
    <3>1. act[w].pc \notin {"load", "settle", "body", "record"}
      BY <1>1, <2>1, OrchestrationAssumption DEF ChordCount, Actor
    <3> QED BY <2>4, <3>1
            DEF ChordHook, Acquire, ChordRead, Load, ChordSettle, ChordBody, ChordRecord, At
  <2>5. ASSUME NEW i \in Item, Requeue(i) \/ CancelPending(i) PROVE rec' = rec
    BY <2>5 DEF Requeue, CancelPending
  <2>6. UNCHANGED vars => rec' = rec
    BY DEF vars
  <2> QED BY <1>1, <2>2, <2>3, <2>4, <2>5, <2>6, StepCases
<1>2. ShapeInv /\ BuildInv /\ [Next]_vars =>
        [plan = "chord" /\ rec.state \in {"success", "partial_failed"} => rec' = rec]_vars
  BY <1>1
<1> QED BY <1>2, BuildInvariant, PTL DEF Spec, ChordEndsOnce
=============================================================================
