-------------------------- MODULE ThreadPoolProofs --------------------------
(***************************************************************************)
(* Proofs about the executors and the thread pool, for every set of tasks, *)
(* of executions and of threads, and every number of crashes.              *)
(***************************************************************************)
EXTENDS ThreadPoolProps, FiniteSetTheorems, TLAPS

-----------------------------------------------------------------------------
(* The inductive invariant.                                                *)

(* A job is in the channel once.                                           *)
Distinct == \A i, j \in 1..Len(channel) : channel[i] = channel[j] => i = j

(* There is a process between the spawn and the wait that reaps it, or     *)
(* after a crash.                                                          *)
ChildAt(e) ==
  run[e].pc \in {"idle", "queued", "start", "send", "drain", "done", "over"} =>
    child[e] \in {"none", "gone"}

(* A verdict is reached at the end; only a request is sent.                *)
VerdictAt(e) ==
  /\ run[e].verdict = "ok" => On(e, "done")
  /\ On(e, "send") => Kind[e[1]] = "http"
  /\ Kind[e[1]] = "shell" /\ run[e].verdict = "ok" => run[e].status = "zero" /\ def.decodes

(* Whoever waits for a process has written its lease, or has tried to.     *)
LeaseAt(e) ==
  e[1] \notin gap /\ run[e].pc \in Waiting \cup Cancelling => lease[e[1]] = e[2]

(* An execution is the daemon's while it is in the channel or on a thread; *)
(* there is one of a task, and the row says so.                            *)
Active(e) == Held(e) \/ \E w \in Thread : thread[w] = e
Working ==
  /\ \A w \in Thread : thread[w] \in Exec => run[thread[w]].pc \in Busy \cup {"done"}
  /\ \A w, v \in Thread : thread[w] \in Exec /\ thread[w] = thread[v] => w = v
  /\ \A e \in Exec : Active(e) => row[e[1]] = "running"
  /\ \A e, f \in Exec : Active(e) /\ Active(f) /\ e[1] = f[1] => e = f
  /\ ~up => \A e \in Exec : ~Active(e)

(* A process the daemon has lost keeps its row Running by its lease, and   *)
(* so nobody begins another one.                                           *)
Orphaned(e) ==
  e[1] \notin gap /\ Alive(e) /\ On(e, "lost") =>
    /\ lease[e[1]] = e[2] /\ row[e[1]] = "running"
    /\ \A f \in Exec : f[1] = e[1] => ~Active(f)

PoolInv ==
  /\ PoolTypeOK /\ Distinct /\ Working
  /\ \A e \in Exec : ChildAt(e) /\ VerdictAt(e) /\ LeaseAt(e) /\ Orphaned(e)

-----------------------------------------------------------------------------
(* Executions, and what the executor's steps do to them.                   *)

(* An execution is a task and the number of a run of it.                   *)
LEMMA ExecPairs ==
  /\ \A e \in Exec : e = <<e[1], e[2]>> /\ e[1] \in Task /\ e[2] \in 1..Runs[e[1]]
  /\ \A t \in Task : \A n \in 1..Runs[t] : <<t, n>> \in Exec
<1>1. ASSUME NEW e \in Exec
      PROVE  e = <<e[1], e[2]>> /\ e[1] \in Task /\ e[2] \in 1..Runs[e[1]]
  <2>1. PICK t \in Task : e \in {t} \X (1..Runs[t])
    BY DEF Exec
  <2> QED BY <2>1
<1>2. ASSUME NEW t \in Task, NEW n \in 1..Runs[t] PROVE <<t, n>> \in Exec
  <2>1. <<t, n>> \in {t} \X (1..Runs[t])
    BY <1>2
  <2> QED BY <2>1 DEF Exec
<1> QED BY <1>1, <1>2

(* The other executions, and their processes, stay as they are.            *)
Others(e) == \A f \in Exec \ {e} : run'[f] = run[f] /\ child'[f] = child[f]
PCs == Busy \cup {"idle", "queued", "done", "over", "lost"}
Children == {"none", "running", "asked", "zombie", "gone"}

(* To another place.                                                       *)
LEMMA GoMoves ==
  ASSUME run \in [Exec -> RunState], NEW e \in Exec, NEW pc \in PCs, Go(e, pc)
  PROVE  /\ run' \in [Exec -> RunState] /\ \A f \in Exec \ {e} : run'[f] = run[f]
         /\ run'[e].pc = pc /\ run'[e].status = run[e].status
         /\ run'[e].verdict = run[e].verdict
<1> DEFINE r == [run[e] EXCEPT !.pc = pc]
<1>1. run[e] \in RunState /\ run' = [run EXCEPT ![e] = r]
  BY DEF Go
<1>2. r \in RunState
  BY <1>1 DEF RunState, PCs
<1>3. r.pc = pc /\ r.status = run[e].status /\ r.verdict = run[e].verdict
  BY <1>1 DEF RunState
<1> HIDE DEF r
<1> QED BY <1>1, <1>2, <1>3

(* To a place with a verdict.                                              *)
LEMMA ReturnMoves ==
  ASSUME run \in [Exec -> RunState], NEW e \in Exec, NEW pc \in PCs,
         NEW v \in {"none", "ok", "failed", "error", "cancelled"}, Return(e, pc, v)
  PROVE  /\ run' \in [Exec -> RunState] /\ \A f \in Exec \ {e} : run'[f] = run[f]
         /\ run'[e].pc = pc /\ run'[e].status = run[e].status /\ run'[e].verdict = v
<1> DEFINE r == [run[e] EXCEPT !.pc = pc, !.verdict = v]
<1>1. run[e] \in RunState /\ run' = [run EXCEPT ![e] = r]
  BY DEF Return
<1>2. r \in RunState
  BY <1>1 DEF RunState, PCs
<1>3. r.pc = pc /\ r.status = run[e].status /\ r.verdict = v
  BY <1>1 DEF RunState
<1> HIDE DEF r
<1> QED BY <1>1, <1>2, <1>3

(* SIGTERM and SIGKILL.                                                    *)
LEMMA SignalMoves ==
  ASSUME run \in [Exec -> RunState], child \in [Exec -> Children],
         NEW e \in Exec, NEW pc \in PCs, AskGroup(e, pc) \/ KillLeader(e, pc)
  PROVE  /\ run' \in [Exec -> RunState] /\ child' \in [Exec -> Children] /\ Others(e)
         /\ run'[e].pc = pc /\ run'[e].verdict = run[e].verdict
<1>1. CASE AskGroup(e, pc)
  <2>1. child' \in [Exec -> Children] /\ \A f \in Exec \ {e} : child'[f] = child[f]
    BY <1>1 DEF AskGroup, Children
  <2> QED BY <1>1, <2>1, GoMoves DEF AskGroup, Others
<1>2. CASE KillLeader(e, pc)
  <2> DEFINE s == IF Alive(e) THEN "nonzero" ELSE run[e].status
             r == [run[e] EXCEPT !.pc = pc, !.status = s]
  <2>1. run[e] \in RunState /\ run' = [run EXCEPT ![e] = r]
    BY <1>2 DEF KillLeader
  <2>2. s \in {"none", "zero", "nonzero"}
    BY <2>1 DEF RunState
  <2> HIDE DEF s
  <2>3. r \in RunState
    BY <2>1, <2>2 DEF RunState, PCs
  <2>4. r.pc = pc /\ r.verdict = run[e].verdict
    BY <2>1 DEF RunState
  <2> HIDE DEF r
  <2>5. child' \in [Exec -> Children] /\ \A f \in Exec \ {e} : child'[f] = child[f]
    BY <1>2 DEF KillLeader, Children
  <2> QED BY <2>1, <2>3, <2>4, <2>5 DEF Others
<1> QED BY <1>1, <1>2

(* What an executor's step leaves behind.                                  *)
Local(e) == ChildAt(e) /\ VerdictAt(e) /\ LeaseAt(e)
ExecTypes ==
  /\ def \in Defs /\ run \in [Exec -> RunState] /\ child \in [Exec -> Children]
  /\ heir \subseteq Exec /\ flag \subseteq Exec /\ gap \subseteq Task
  /\ lease \in [Task -> Nat] /\ \A t \in Task : lease[t] <= Runs[t]

LEMMA ExecuteMoves ==
  ASSUME ExecTypes, NEW e \in Exec, Local(e), ExecuteStep(e)
  PROVE  /\ ExecTypes' /\ Others(e) /\ Local(e)'
         /\ run[e].pc \in Busy /\ run'[e].pc \in Busy \cup {"done"}
         /\ gap \subseteq gap' /\ \A t \in Task : t # e[1] => lease'[t] = lease[t]
<1>1. /\ e = <<e[1], e[2]>> /\ e[1] \in Task /\ e[2] \in 1..Runs[e[1]]
      /\ run \in [Exec -> RunState] /\ child \in [Exec -> Children]
      /\ lease \in [Task -> Nat]
  BY ExecPairs DEF ExecTypes
<1>2. CASE Spawn(e)
  <2>1. On(e, "start") /\ Kind[e[1]] = "shell" /\ UNCHANGED <<def, heir, flag, lease, gap>>
    BY <1>2 DEF Spawn
  <2>2. CASE Go(e, "lease") /\ child' = [child EXCEPT ![e] = "running"]
    <3>1. "lease" \in PCs
      BY DEF PCs, Busy
    <3>2. /\ run' \in [Exec -> RunState] /\ \A f \in Exec \ {e} : run'[f] = run[f]
          /\ run'[e].pc = "lease" /\ run'[e].status = run[e].status
          /\ run'[e].verdict = run[e].verdict
      BY <1>1, <2>2, <3>1, GoMoves
    <3>3. /\ child' \in [Exec -> Children]
          /\ \A f \in Exec \ {e} : child'[f] = child[f]
      BY <1>1, <2>2 DEF Children
    <3> QED BY <2>1, <3>2, <3>3
            DEF ExecTypes, Others, Local, ChildAt, VerdictAt, LeaseAt, On, Busy, Waiting,
                Cancelling
  <2>3. CASE Return(e, "done", "error") /\ UNCHANGED child
    <3>1. "done" \in PCs
      BY DEF PCs
    <3>2. /\ run' \in [Exec -> RunState] /\ \A f \in Exec \ {e} : run'[f] = run[f]
          /\ run'[e].pc = "done" /\ run'[e].verdict = "error"
      BY <1>1, <2>3, <3>1, ReturnMoves
    <3> QED BY <2>1, <2>3, <3>2
            DEF ExecTypes, Others, Local, ChildAt, VerdictAt, LeaseAt, On, Busy, Waiting,
                Cancelling
  <2> QED BY <1>2, <2>2, <2>3 DEF Spawn
<1>3. CASE WriteLease(e)
  <2>1. /\ On(e, "lease") /\ Go(e, "wait") /\ UNCHANGED <<def, child, heir, flag>>
        /\ \/ lease' = [lease EXCEPT ![e[1]] = e[2]] /\ gap' = gap
           \/ gap' = gap \cup {e[1]} /\ lease' = lease
    BY <1>3 DEF WriteLease
  <2>2. "wait" \in PCs
    BY DEF PCs, Busy, Waiting
  <2>3. /\ run' \in [Exec -> RunState] /\ \A f \in Exec \ {e} : run'[f] = run[f]
        /\ run'[e].pc = "wait" /\ run'[e].verdict = run[e].verdict
    BY <1>1, <2>1, <2>2, GoMoves
  <2>4. /\ lease' \in [Task -> Nat] /\ \A t \in Task : t # e[1] => lease'[t] = lease[t]
        /\ \A t \in Task : lease'[t] <= Runs[t]
        /\ gap \subseteq gap' /\ gap' \subseteq Task
        /\ e[1] \in gap' \/ lease'[e[1]] = e[2]
    BY <1>1, <2>1, ExecutorAssumption DEF ExecTypes
  <2> QED BY <2>1, <2>3, <2>4
          DEF ExecTypes, Others, Local, ChildAt, VerdictAt, LeaseAt, On, Busy, Waiting,
              Cancelling
<1>4. CASE SoftTimeout(e) \/ HardTimeout(e) \/ CancelSeen(e) \/ CancelGrace(e)
  <2>1. /\ UNCHANGED <<def, heir, flag, lease, gap>>
        /\ run[e].pc \in Waiting \cup {"term"}
        /\ \E pc \in {"grace", "killed", "term", "forced"} :
             AskGroup(e, pc) \/ KillLeader(e, pc)
    BY <1>4 DEF SoftTimeout, HardTimeout, CancelSeen, CancelGrace, On, LastWait, Waiting
  <2>2. PICK pc \in {"grace", "killed", "term", "forced"} : AskGroup(e, pc) \/ KillLeader(e, pc)
    BY <2>1
  <2>3. pc \in PCs
    BY DEF PCs, Busy, Waiting, Cancelling
  <2>4. /\ run' \in [Exec -> RunState] /\ child' \in [Exec -> Children] /\ Others(e)
        /\ run'[e].pc = pc /\ run'[e].verdict = run[e].verdict
    BY <1>1, <2>2, <2>3, SignalMoves
  <2> QED BY <2>1, <2>4
          DEF ExecTypes, Local, ChildAt, VerdictAt, LeaseAt, On, Busy, Waiting, Cancelling
<1>5. CASE Reap(e)
  <2>1. /\ UNCHANGED <<def, heir, flag, lease, gap>> /\ child' = [child EXCEPT ![e] = "gone"]
        /\ run[e].pc \in Waiting \cup Cancelling
        /\ Return(e, "drain", VerdictOfWait(e))
    BY <1>5 DEF Reap
  <2>2. PICK v \in {"none", "error", "cancelled"} : v = VerdictOfWait(e)
    BY DEF VerdictOfWait
  <2>3. "drain" \in PCs
    BY DEF PCs, Busy
  <2>4. /\ run' \in [Exec -> RunState] /\ \A f \in Exec \ {e} : run'[f] = run[f]
        /\ run'[e].pc = "drain" /\ run'[e].verdict = v
    BY <1>1, <2>1, <2>2, <2>3, ReturnMoves
  <2>5. /\ child' \in [Exec -> Children] /\ child'[e] = "gone"
        /\ \A f \in Exec \ {e} : child'[f] = child[f]
    BY <1>1, <2>1 DEF Children
  <2> QED BY <2>1, <2>2, <2>4, <2>5
          DEF ExecTypes, Others, Local, ChildAt, VerdictAt, LeaseAt, On, Busy, Waiting,
              Cancelling
<1>6. CASE Drain(e)
  <2>1. /\ UNCHANGED <<def, child, flag, lease, gap>> /\ heir' \subseteq heir
        /\ On(e, "drain") /\ Return(e, "done", Outcome(e))
    BY <1>6 DEF Drain
  <2>2. run[e].verdict \in {"none", "failed", "error", "cancelled"}
    BY <1>1, <2>1 DEF Local, VerdictAt, On, RunState
  <2>3. PICK v \in {"none", "ok", "failed", "error", "cancelled"} : v = Outcome(e)
    BY <2>2 DEF Outcome
  <2>4. v = "ok" => run[e].status = "zero" /\ def.decodes
    BY <2>2, <2>3 DEF Outcome
  <2>5. "done" \in PCs
    BY DEF PCs
  <2>6. /\ run' \in [Exec -> RunState] /\ \A f \in Exec \ {e} : run'[f] = run[f]
        /\ run'[e].pc = "done" /\ run'[e].status = run[e].status /\ run'[e].verdict = v
    BY <1>1, <2>1, <2>3, <2>5, ReturnMoves
  <2> QED BY <2>1, <2>4, <2>6
          DEF ExecTypes, Others, Local, ChildAt, VerdictAt, LeaseAt, On, Busy, Waiting,
              Cancelling
<1>7. CASE HttpStart(e) \/ HttpAnswer(e) \/ HttpCancelled(e)
  <2>1. /\ UNCHANGED <<def, child, heir, flag, lease, gap>> /\ Kind[e[1]] = "http"
        /\ run[e].pc \in {"start", "send"}
        /\ \/ run[e].pc = "start" /\ Go(e, "send")
           \/ \E v \in {"ok", "error", "cancelled"} : Return(e, "done", v)
    BY <1>7 DEF HttpStart, HttpAnswer, HttpCancelled, On, Local, VerdictAt
  <2>2. "send" \in PCs /\ "done" \in PCs
    BY DEF PCs, Busy
  <2>3. /\ run' \in [Exec -> RunState] /\ \A f \in Exec \ {e} : run'[f] = run[f]
        /\ \/ run'[e].pc = "send" /\ run'[e].verdict = run[e].verdict
           \/ run'[e].pc = "done"
    BY <1>1, <2>1, <2>2, GoMoves, ReturnMoves
  <2> QED BY <2>1, <2>3
          DEF ExecTypes, Others, Local, ChildAt, VerdictAt, LeaseAt, On, Busy, Waiting,
              Cancelling
<1> QED BY <1>2, <1>3, <1>4, <1>5, <1>6, <1>7 DEF ExecuteStep

-----------------------------------------------------------------------------
(* Every step keeps the invariant.                                         *)

Pool ==
  /\ channel \in Seq(Exec) /\ thread \in [Thread -> Exec \cup {None, Exited}]
  /\ row \in [Task -> {"pending", "running", "ended"}]
Channelled == {channel[i] : i \in 1..Len(channel)} = {e \in Exec : run[e].pc = "queued"}

(* The types of the pool are those of its parts.                           *)
LEMMA TypeParts == PoolTypeOK <=> ExecTypes /\ Pool /\ Channelled
BY DEF PoolTypeOK, ExecTypes, Pool, Channelled, Children

LEMMA TypePartsNext ==
  ASSUME ExecTypes', Pool', Channelled'
  PROVE  PoolTypeOK'
BY DEF PoolTypeOK, ExecTypes, Pool, Channelled, Children

(* An execution nobody touches keeps what holds of it, if nobody else of   *)
(* its task writes the lease.                                              *)
LEMMA LocalKept ==
  ASSUME NEW f \in Exec, Local(f), run'[f] = run[f], child'[f] = child[f], def' = def,
         f[1] \notin gap' => f[1] \notin gap,
         run[f].pc \in Waiting \cup Cancelling => lease'[f[1]] = lease[f[1]]
  PROVE  Local(f)'
BY DEF Local, ChildAt, VerdictAt, LeaseAt, On

(* An execution that comes into no new hands leaves the lost ones alone.   *)
LEMMA OrphanKept ==
  ASSUME NEW f \in Exec, Orphaned(f), Alive(f)' => Alive(f), On(f, "lost")' => On(f, "lost"),
         f[1] \notin gap' => f[1] \notin gap,
         lease'[f[1]] = lease[f[1]] \/ \E e \in Exec : e[1] = f[1] /\ Active(e),
         row'[f[1]] = row[f[1]] \/ \E e \in Exec : e[1] = f[1] /\ Active(e),
         \A e \in Exec : Active(e)' => Active(e)
  PROVE  Orphaned(f)'
BY DEF Orphaned

(* A worker executes.                                                      *)
LEMMA ExecutePool ==
  ASSUME PoolInv, NEW w \in Thread, Execute(w)
  PROVE  PoolInv'
<1>1. PICK e \in Exec : e = thread[w]
  BY DEF Execute
<1>2. /\ ExecTypes /\ Pool /\ Channelled /\ Distinct /\ Working /\ Local(e)
      /\ \A f \in Exec : Local(f) /\ Orphaned(f)
  BY TypeParts DEF PoolInv, Local
<1>3. ExecuteStep(e) /\ UNCHANGED <<channel, thread, row, up, crashes>>
  BY <1>1 DEF Execute, poolVars
<1>4. /\ ExecTypes' /\ Others(e) /\ Local(e)'
      /\ run[e].pc \in Busy /\ run'[e].pc \in Busy \cup {"done"}
      /\ gap \subseteq gap' /\ \A t \in Task : t # e[1] => lease'[t] = lease[t]
  BY <1>2, <1>3, ExecuteMoves
<1>5. def' = def
  BY <1>3 DEF ExecuteStep, Spawn, WriteLease, SoftTimeout, HardTimeout, CancelSeen, CancelGrace,
              Reap, Drain, HttpStart, HttpAnswer, HttpCancelled
<1>6. Active(e) /\ \A f \in Exec : Active(f)' => Active(f)
  BY <1>1, <1>3, <1>4 DEF Active, Held, Others
<1>7. Pool' /\ Distinct'
  BY <1>2, <1>3 DEF Pool, Distinct
<1>8. Channelled'
  <2>1. \A f \in Exec : run'[f].pc = "queued" <=> run[f].pc = "queued"
    BY <1>4 DEF Others, Busy, Waiting, Cancelling
  <2> QED BY <1>2, <1>3, <2>1 DEF Channelled
<1>9. Working'
  <2>1. \A v \in Thread : thread[v] \in Exec => run'[thread[v]].pc \in Busy \cup {"done"}
    BY <1>2, <1>4 DEF Working, Others
  <2> QED BY <1>2, <1>3, <1>6, <2>1 DEF Working
<1>10. ASSUME NEW f \in Exec, f # e PROVE Local(f)'
  <2>1. run[f].pc \in Waiting \cup Cancelling => lease'[f[1]] = lease[f[1]]
    <3>1. run[f].pc \in Waiting \cup Cancelling => Active(f)
      BY DEF Active, Held, Busy
    <3>2. Active(f) => f[1] # e[1]
      BY <1>2, <1>6, <1>10 DEF Working
    <3> QED BY <1>4, <3>1, <3>2, ExecPairs
  <2> QED BY <1>2, <1>4, <1>5, <1>10, <2>1, LocalKept DEF Others
<1>11. ASSUME NEW f \in Exec PROVE Orphaned(f)'
  <2>1. CASE f = e
    BY <1>4, <2>1 DEF Orphaned, On, Busy, Waiting, Cancelling
  <2>2. CASE f # e
    <3>1. run'[f] = run[f] /\ child'[f] = child[f]
      BY <1>4, <2>2 DEF Others
    <3>2. /\ Alive(f)' => Alive(f)
          /\ On(f, "lost")' => On(f, "lost")
      BY <3>1 DEF Alive, On
    <3>3. lease'[f[1]] = lease[f[1]] \/ \E d \in Exec : d[1] = f[1] /\ Active(d)
      BY <1>4, <1>6, ExecPairs
    <3> QED BY <1>2, <1>3, <1>4, <1>6, <3>2, <3>3, OrphanKept
  <2> QED BY <2>1, <2>2
<1>12. PoolTypeOK'
  BY <1>4, <1>7, <1>8, TypePartsNext
<1>13. \A f \in Exec : Local(f)'
  BY <1>4, <1>10
<1> QED BY <1>7, <1>9, <1>11, <1>12, <1>13 DEF PoolInv, Local

(* A process ends, forks or lets go of its pipes; a client cancels.        *)
LEMMA ProcessPool ==
  ASSUME PoolInv, NEW e \in Exec, Process(e) \/ SignalCancel(e)
  PROVE  PoolInv'
<1>1. /\ ExecTypes /\ Pool /\ Channelled /\ Distinct /\ Working
      /\ \A f \in Exec : Local(f) /\ Orphaned(f)
  BY TypeParts DEF PoolInv, Local
<1>2. UNCHANGED <<def, lease, gap, channel, thread, row, up>>
  BY DEF Process, ProcessStep, ChildExits, ChildForks, HeirExits, SignalCancel, poolVars
<1>3. /\ ExecTypes' /\ Local(e)' /\ Others(e) /\ run'[e].pc = run[e].pc
      /\ Alive(e)' => Alive(e)
  <2>1. CASE run' = run /\ child' = child
    <3>1. heir' \subseteq Exec /\ flag' \subseteq Exec
      BY <1>1 DEF Process, ProcessStep, ChildExits, ChildForks, HeirExits, SignalCancel,
                  ExecTypes
    <3> QED BY <1>1, <1>2, <2>1, <3>1
            DEF ExecTypes, Local, ChildAt, VerdictAt, LeaseAt, On, Others, Alive
  <2>2. CASE ChildExits(e)
    <3>1. PICK s \in {"none", "zero", "nonzero"} : run' = [run EXCEPT ![e].status = s]
      BY <2>2 DEF ChildExits
    <3>2. PICK c \in {"gone", "zombie"} : child' = [child EXCEPT ![e] = c]
      BY <2>2 DEF ChildExits
    <3> DEFINE r == [run[e] EXCEPT !.status = s]
    <3>3. r \in RunState /\ r.pc = run[e].pc /\ r.verdict = run[e].verdict
      BY <1>1 DEF ExecTypes, RunState
    <3>4. run' = [run EXCEPT ![e] = r]
      BY <3>1
    <3> HIDE DEF r
    <3>5. /\ run' \in [Exec -> RunState] /\ \A f \in Exec \ {e} : run'[f] = run[f]
          /\ run'[e].pc = run[e].pc /\ run'[e].verdict = run[e].verdict
      BY <1>1, <3>3, <3>4 DEF ExecTypes
    <3>6. /\ child' \in [Exec -> Children] /\ \A f \in Exec \ {e} : child'[f] = child[f]
          /\ child'[e] = c
      BY <1>1, <3>2 DEF ExecTypes, Children
    <3>7. Alive(e) /\ UNCHANGED <<heir, flag>>
      BY <2>2 DEF ChildExits
    <3>8. run[e].pc \notin {"idle", "queued", "start", "send", "drain", "done", "over"}
      BY <1>1, <3>7 DEF Local, ChildAt, Alive
    <3>9. run[e].verdict # "ok"
      BY <1>1, <3>8 DEF Local, VerdictAt, On
    <3> QED BY <1>1, <1>2, <3>5, <3>6, <3>7, <3>8, <3>9
            DEF ExecTypes, Local, ChildAt, VerdictAt, LeaseAt, On, Others
  <2> QED BY <2>1, <2>2 DEF Process, ProcessStep, ChildForks, HeirExits, SignalCancel
<1>4. \A f \in Exec : run'[f].pc = run[f].pc
  BY <1>3 DEF Others
<1>5. \A f \in Exec : Active(f)' <=> Active(f)
  BY <1>2, <1>4 DEF Active, Held
<1>6. Pool' /\ Distinct' /\ Channelled'
  BY <1>1, <1>2, <1>4 DEF Pool, Distinct, Channelled
<1>7. Working'
  BY <1>1, <1>2, <1>4, <1>5 DEF Working
<1>8. ASSUME NEW f \in Exec, f # e PROVE Local(f)'
  BY <1>1, <1>2, <1>3, <1>8, LocalKept DEF Others
<1>9. ASSUME NEW f \in Exec PROVE Orphaned(f)'
  <2>1. /\ Alive(f)' => Alive(f)
        /\ On(f, "lost")' => On(f, "lost")
    BY <1>3, <1>4 DEF Others, Alive, On
  <2> QED BY <1>1, <1>2, <1>5, <2>1, OrphanKept
<1>10. PoolTypeOK'
  BY <1>3, <1>6, TypePartsNext
<1>11. \A f \in Exec : Local(f)'
  BY <1>3, <1>8
<1> QED BY <1>6, <1>7, <1>9, <1>10, <1>11 DEF PoolInv, Local

(* process_one hands a future to the pool.                                 *)
LEMMA SubmitPool ==
  ASSUME PoolInv, NEW e \in Exec, Submit(e)
  PROVE  PoolInv'
<1>1. /\ ExecTypes /\ Pool /\ Channelled /\ Distinct /\ Working
      /\ \A f \in Exec : Local(f) /\ Orphaned(f)
  BY TypeParts DEF PoolInv, Local
<1>2. /\ up /\ row[e[1]] = "pending" /\ run[e].pc = "idle" /\ Go(e, "queued")
      /\ row' = [row EXCEPT ![e[1]] = "running"] /\ channel' = Append(channel, e)
      /\ UNCHANGED <<def, child, heir, flag, lease, gap, thread, up>>
  BY DEF Submit, On
<1>3. /\ run' \in [Exec -> RunState] /\ \A f \in Exec \ {e} : run'[f] = run[f]
      /\ run'[e].pc = "queued" /\ run'[e].verdict = run[e].verdict
  <2>1. "queued" \in PCs
    BY DEF PCs
  <2> QED BY <1>1, <1>2, <2>1, GoMoves DEF ExecTypes
<1>4. /\ e[1] \in Task /\ row'[e[1]] = "running"
      /\ row' \in [Task -> {"pending", "running", "ended"}]
      /\ \A t \in Task : t # e[1] => row'[t] = row[t]
  BY <1>1, <1>2, ExecPairs DEF Pool
<1>5. /\ channel' \in Seq(Exec) /\ Len(channel') = Len(channel) + 1
      /\ channel'[Len(channel')] = e
      /\ \A i \in 1..Len(channel) : channel'[i] = channel[i]
      /\ Len(channel) \in Nat
  BY <1>1, <1>2 DEF Pool
<1>6. \A i \in 1..Len(channel) : channel[i] \in Exec /\ channel[i] # e
  BY <1>1, <1>2 DEF Channelled
<1>7. Pool' /\ ExecTypes'
  BY <1>1, <1>2, <1>3, <1>4, <1>5 DEF Pool, ExecTypes
<1>8. Distinct'
  BY <1>1, <1>5, <1>6 DEF Distinct
<1>9. Channelled'
  <2>1. \A f \in Exec : run'[f].pc = "queued" <=> f = e \/ run[f].pc = "queued"
    BY <1>3
  <2>2. {channel'[i] : i \in 1..Len(channel')} = {channel[i] : i \in 1..Len(channel)} \cup {e}
    BY <1>5
  <2> QED BY <1>1, <2>1, <2>2 DEF Channelled
<1>10. /\ \A f \in Exec : f # e => (Active(f)' <=> Active(f))
       /\ Active(e)'
       /\ \A f \in Exec : Active(f) => f[1] # e[1]
  BY <1>1, <1>2, <1>3 DEF Active, Held, Working
<1>11. Working'
  <2>1. \A w \in Thread : thread[w] \in Exec => run'[thread[w]].pc \in Busy \cup {"done"}
    BY <1>1, <1>2, <1>3 DEF Working, Busy, Waiting, Cancelling
  <2>2. \A f \in Exec : Active(f)' => row'[f[1]] = "running"
    BY <1>1, <1>4, <1>10, ExecPairs DEF Working
  <2>3. \A f, g \in Exec : Active(f)' /\ Active(g)' /\ f[1] = g[1] => f = g
    BY <1>1, <1>10 DEF Working
  <2> QED BY <1>1, <1>2, <2>1, <2>2, <2>3 DEF Working
<1>12. ASSUME NEW f \in Exec PROVE Local(f)'
  <2>1. CASE f = e
    BY <1>1, <1>2, <1>3, <2>1 DEF Local, ChildAt, VerdictAt, LeaseAt, On, Waiting, Cancelling
  <2>2. CASE f # e
    BY <1>1, <1>2, <1>3, <2>2, LocalKept
  <2> QED BY <2>1, <2>2
<1>13. ASSUME NEW f \in Exec PROVE Orphaned(f)'
  <2>1. SUFFICES ASSUME f[1] \notin gap, Alive(f), run'[f].pc = "lost"
        PROVE  /\ lease[f[1]] = f[2] /\ row'[f[1]] = "running"
               /\ \A g \in Exec : g[1] = f[1] => ~Active(g)'
    BY <1>2 DEF Orphaned, On, Alive
  <2>2. f # e /\ run[f].pc = "lost"
    BY <1>3, <2>1
  <2>3. /\ lease[f[1]] = f[2] /\ row[f[1]] = "running"
        /\ \A g \in Exec : g[1] = f[1] => ~Active(g)
    BY <1>1, <2>1, <2>2 DEF Orphaned, On
  <2>4. f[1] # e[1]
    BY <1>2, <2>3
  <2> QED BY <1>4, <1>10, <2>3, <2>4, ExecPairs
<1>14. PoolTypeOK'
  BY <1>7, <1>9, TypePartsNext
<1> QED BY <1>8, <1>11, <1>12, <1>13, <1>14 DEF PoolInv, Local

(* A thread takes the first job.                                           *)
LEMMA TakePool ==
  ASSUME PoolInv, NEW w \in Thread, Take(w)
  PROVE  PoolInv'
<1>1. /\ ExecTypes /\ Pool /\ Channelled /\ Distinct /\ Working
      /\ \A f \in Exec : Local(f) /\ Orphaned(f)
  BY TypeParts DEF PoolInv, Local
<1>2. /\ channel # <<>> /\ channel \in Seq(Exec) /\ thread[w] = None
  BY <1>1 DEF Take, Pool
<1>3. /\ Len(channel) \in Nat \ {0} /\ channel[1] = Head(channel)
  BY <1>2
<1>4. PICK e \in Exec : e = channel[1]
  BY <1>2, <1>3
<1>5. /\ Go(e, "start") /\ thread' = [thread EXCEPT ![w] = e] /\ channel' = Tail(channel)
      /\ UNCHANGED <<def, child, heir, flag, lease, gap, row, up>>
  BY <1>3, <1>4 DEF Take
<1>6. /\ run' \in [Exec -> RunState] /\ \A f \in Exec \ {e} : run'[f] = run[f]
      /\ run'[e].pc = "start" /\ run'[e].verdict = run[e].verdict
  <2>1. "start" \in PCs
    BY DEF PCs, Busy
  <2> QED BY <1>1, <1>5, <2>1, GoMoves DEF ExecTypes
<1>7. run[e].pc = "queued"
  BY <1>1, <1>3, <1>4 DEF Channelled
<1>8. /\ channel' \in Seq(Exec) /\ Len(channel') = Len(channel) - 1
      /\ \A i \in 1..Len(channel') : channel'[i] = channel[i + 1]
  BY <1>2, <1>3, <1>5
<1>9. /\ thread' \in [Thread -> Exec \cup {None, Exited}] /\ thread'[w] = e
      /\ \A v \in Thread \ {w} : thread'[v] = thread[v]
  BY <1>1, <1>5 DEF Pool
<1>10. Pool' /\ ExecTypes'
  BY <1>1, <1>5, <1>6, <1>8, <1>9 DEF Pool, ExecTypes
<1>11. Distinct'
  <2>1. ASSUME NEW i \in 1..Len(channel'), NEW j \in 1..Len(channel'), channel'[i] = channel'[j]
        PROVE  i = j
    <3>1. i + 1 \in 1..Len(channel) /\ j + 1 \in 1..Len(channel)
      BY <1>3, <1>8
    <3>2. i + 1 = j + 1
      BY <1>1, <1>8, <2>1, <3>1 DEF Distinct
    <3> QED BY <1>3, <1>8, <3>2
  <2> QED BY <2>1 DEF Distinct
<1>12. Channelled'
  <2>1. \A f \in Exec : run'[f].pc = "queued" <=> f # e /\ run[f].pc = "queued"
    BY <1>6
  <2>2. ASSUME NEW f \in {channel'[i] : i \in 1..Len(channel')}
        PROVE  f \in Exec /\ run'[f].pc = "queued"
    <3>1. PICK i \in 1..Len(channel') : f = channel[i + 1]
      BY <1>8
    <3>2. i + 1 \in 1..Len(channel) /\ i + 1 # 1 /\ 1 \in 1..Len(channel)
      BY <1>3, <1>8
    <3>3. f # e
      BY <1>1, <1>4, <3>1, <3>2 DEF Distinct
    <3> QED BY <1>1, <2>1, <3>1, <3>2, <3>3 DEF Channelled
  <2>3. ASSUME NEW f \in Exec, run'[f].pc = "queued"
        PROVE  f \in {channel'[i] : i \in 1..Len(channel')}
    <3>1. PICK i \in 1..Len(channel) : f = channel[i]
      BY <1>1, <2>1, <2>3 DEF Channelled
    <3>2. i # 1
      BY <1>4, <2>1, <2>3, <3>1
    <3>3. i - 1 \in 1..Len(channel') /\ (i - 1) + 1 = i
      BY <1>3, <1>8, <3>2
    <3>4. channel'[i - 1] = f
      BY <1>8, <3>1, <3>3
    <3> QED BY <3>3, <3>4
  <2> QED BY <2>2, <2>3 DEF Channelled
<1>13. /\ \A f \in Exec : Active(f)' <=> Active(f)
  <2>1. None \notin Exec
    BY PoolAssumption
  <2>2. Held(e) /\ Held(e)'
    BY <1>6, <1>7 DEF Held, Busy
  <2>3. ASSUME NEW f \in Exec, f # e PROVE Active(f)' <=> Active(f)
    BY <1>2, <1>6, <1>9, <2>1, <2>3 DEF Active, Held
  <2> QED BY <2>2, <2>3 DEF Active
<1>14. Working'
  <2>1. \A v \in Thread \ {w} : thread[v] # e
    BY <1>1, <1>7 DEF Working, Busy, Waiting, Cancelling
  <2>2. \A v \in Thread : thread'[v] \in Exec => run'[thread'[v]].pc \in Busy \cup {"done"}
    BY <1>1, <1>6, <1>9, <2>1 DEF Working, Busy
  <2>3. \A v, u \in Thread : thread'[v] \in Exec /\ thread'[v] = thread'[u] => v = u
    BY <1>1, <1>9, <2>1 DEF Working
  <2> QED BY <1>1, <1>5, <1>13, <2>2, <2>3 DEF Working
<1>15. ASSUME NEW f \in Exec PROVE Local(f)'
  <2>1. CASE f = e
    BY <1>1, <1>5, <1>6, <1>7, <2>1
       DEF Local, ChildAt, VerdictAt, LeaseAt, On, Waiting, Cancelling
  <2>2. CASE f # e
    BY <1>1, <1>5, <1>6, <2>2, LocalKept
  <2> QED BY <2>1, <2>2
<1>16. ASSUME NEW f \in Exec PROVE Orphaned(f)'
  <2>1. /\ Alive(f)' => Alive(f)
        /\ On(f, "lost")' => On(f, "lost")
    BY <1>5, <1>6 DEF Alive, On
  <2> QED BY <1>1, <1>5, <1>13, <2>1, OrphanKept
<1>17. PoolTypeOK'
  BY <1>10, <1>12, TypePartsNext
<1> QED BY <1>11, <1>14, <1>15, <1>16, <1>17 DEF PoolInv, Local

(* A thread is done with its job, by its end or by a panic.                *)
LEMMA FreePool ==
  ASSUME PoolInv, NEW w \in Thread, Settle(w) \/ JobPanics(w)
  PROVE  PoolInv'
<1>1. /\ ExecTypes /\ Pool /\ Channelled /\ Distinct /\ Working
      /\ \A f \in Exec : Local(f) /\ Orphaned(f)
  BY TypeParts DEF PoolInv, Local
<1>2. PICK e \in Exec : e = thread[w] /\ run[e].pc \in Busy \cup {"done"}
  BY DEF Settle, JobPanics, Panics, On
<1>3. e[1] \in Task
  BY ExecPairs
<1>4. /\ run' = [run EXCEPT ![e] = Dropped("over")] /\ thread' = [thread EXCEPT ![w] = None]
      /\ UNCHANGED <<def, lease, gap, channel, up>>
      /\ flag' \subseteq flag /\ heir' \subseteq heir
  BY <1>2 DEF Settle, JobPanics, Panics, DropChild
<1>5. /\ child' \in [Exec -> Children] /\ child'[e] \in {"none", "gone"}
      /\ \A f \in Exec \ {e} : child'[f] = child[f]
  <2>1. CASE Settle(w)
    BY <1>1, <1>2, <2>1 DEF Settle, ExecTypes, Local, ChildAt, On
  <2>2. CASE JobPanics(w)
    BY <1>1, <1>2, <2>2 DEF JobPanics, Panics, DropChild, ExecTypes, Children
  <2> QED BY <2>1, <2>2
<1>6. /\ row' \in [Task -> {"pending", "running", "ended"}]
      /\ \A t \in Task : t # e[1] => row'[t] = row[t]
  <2>1. CASE Settle(w)
    <3>1. PICK s \in {"pending", "ended"} : row' = [row EXCEPT ![e[1]] = s]
      BY <1>2, <2>1 DEF Settle
    <3> QED BY <1>1, <3>1 DEF Pool
  <2>2. CASE JobPanics(w)
    BY <1>1, <2>2 DEF JobPanics, Panics, Pool
  <2> QED BY <2>1, <2>2
<1>7. /\ run' \in [Exec -> RunState] /\ \A f \in Exec \ {e} : run'[f] = run[f]
      /\ run'[e].pc = "over" /\ run'[e].verdict = "none"
  <2>1. Dropped("over") \in RunState
    BY DEF Dropped, NoRun, RunState
  <2>2. Dropped("over").pc = "over" /\ Dropped("over").verdict = "none"
    BY DEF Dropped, NoRun
  <2> QED BY <1>1, <1>4, <2>1, <2>2 DEF ExecTypes
<1>8. /\ thread' \in [Thread -> Exec \cup {None, Exited}] /\ thread'[w] = None
      /\ \A v \in Thread \ {w} : thread'[v] = thread[v] /\ thread[v] # e
  BY <1>1, <1>2, <1>4 DEF Pool, Working
<1>9. None \notin Exec
  BY PoolAssumption
<1>10. Pool' /\ ExecTypes' /\ Distinct'
  BY <1>1, <1>4, <1>5, <1>6, <1>7, <1>8 DEF Pool, ExecTypes, Distinct
<1>11. Channelled'
  <2>1. \A f \in Exec : run'[f].pc = "queued" <=> run[f].pc = "queued"
    BY <1>2, <1>7 DEF Busy, Waiting, Cancelling
  <2> QED BY <1>1, <1>4, <2>1 DEF Channelled
<1>12. /\ Active(e) /\ ~Active(e)'
       /\ \A f \in Exec : Active(f)' => Active(f) /\ f # e
  <2>1. Active(e) /\ ~Active(e)'
    BY <1>2, <1>7, <1>8, <1>9 DEF Active, Held, Busy, Waiting, Cancelling
  <2>2. ASSUME NEW f \in Exec, f # e PROVE Active(f)' => Active(f)
    BY <1>7, <1>8, <1>9, <2>2 DEF Active, Held
  <2> QED BY <2>1, <2>2
<1>13. Working'
  <2>1. \A v \in Thread : thread'[v] \in Exec => run'[thread'[v]].pc \in Busy \cup {"done"}
    BY <1>1, <1>7, <1>8, <1>9 DEF Working
  <2>2. \A v, u \in Thread : thread'[v] \in Exec /\ thread'[v] = thread'[u] => v = u
    BY <1>1, <1>8, <1>9 DEF Working
  <2>3. \A f \in Exec : Active(f)' => row'[f[1]] = "running"
    <3>1. ASSUME NEW f \in Exec, Active(f)' PROVE row'[f[1]] = "running"
      <4>1. f[1] # e[1] /\ row[f[1]] = "running"
        BY <1>1, <1>12, <3>1 DEF Working
      <4> QED BY <1>6, <4>1, ExecPairs
    <3> QED BY <3>1
  <2> QED BY <1>1, <1>4, <1>12, <2>1, <2>2, <2>3 DEF Working
<1>14. ASSUME NEW f \in Exec PROVE Local(f)'
  <2>1. CASE f = e
    BY <1>5, <1>7, <2>1 DEF Local, ChildAt, VerdictAt, LeaseAt, On, Waiting, Cancelling
  <2>2. CASE f # e
    BY <1>1, <1>4, <1>5, <1>7, <2>2, LocalKept
  <2> QED BY <2>1, <2>2
<1>15. ASSUME NEW f \in Exec PROVE Orphaned(f)'
  <2>1. CASE f = e
    BY <1>7, <2>1 DEF Orphaned, On
  <2>2. CASE f # e
    <3>1. /\ Alive(f)' => Alive(f)
          /\ On(f, "lost")' => On(f, "lost")
      BY <1>5, <1>7, <2>2 DEF Alive, On
    <3>2. row'[f[1]] = row[f[1]] \/ \E d \in Exec : d[1] = f[1] /\ Active(d)
      BY <1>6, <1>12, ExecPairs
    <3> QED BY <1>1, <1>4, <1>12, <3>1, <3>2, OrphanKept
  <2> QED BY <2>1, <2>2
<1>16. PoolTypeOK'
  BY <1>10, <1>11, TypePartsNext
<1> QED BY <1>10, <1>13, <1>14, <1>15, <1>16 DEF PoolInv, Local

(* A crash.                                                                *)
LEMMA CrashPool ==
  ASSUME PoolInv, Crash
  PROVE  PoolInv'
<1>1. /\ ExecTypes /\ Pool /\ Channelled /\ Distinct /\ Working
      /\ \A f \in Exec : Local(f) /\ Orphaned(f)
  BY TypeParts DEF PoolInv, Local
<1>2. /\ UNCHANGED <<def, lease, row>> /\ heir' = {} /\ flag' = {} /\ channel' = <<>>
      /\ thread' = [w \in Thread |-> None]
      /\ gap' = gap \cup {e[1] : e \in {x \in Exec : On(x, "lease")}}
  BY DEF Crash
<1>3. /\ run' \in [Exec -> RunState]
      /\ \A f \in Exec : Held(f) => run'[f].pc = "lost" /\ run'[f].verdict = "none"
      /\ \A f \in Exec : ~Held(f) => run'[f] = run[f]
  <2>1. /\ Dropped("lost") \in RunState
        /\ Dropped("lost").pc = "lost" /\ Dropped("lost").verdict = "none"
    BY DEF Dropped, NoRun, RunState
  <2>2. run' = [e \in Exec |-> IF Held(e) THEN Dropped("lost") ELSE run[e]]
    BY DEF Crash
  <2> QED BY <1>1, <2>1, <2>2 DEF ExecTypes
<1>4. /\ child' \in [Exec -> Children]
      /\ \A f \in Exec : child'[f] = child[f] \/ child'[f] = "gone"
  BY <1>1 DEF Crash, ExecTypes, Children
<1>5. ExecTypes'
  <2>1. gap' \subseteq Task
    BY <1>1, <1>2, ExecPairs DEF ExecTypes
  <2> QED BY <1>1, <1>2, <1>3, <1>4, <2>1 DEF ExecTypes
<1>6. /\ channel' \in Seq(Exec) /\ Len(channel') = 0
      /\ \A w \in Thread : thread'[w] = None
      /\ thread' \in [Thread -> Exec \cup {None, Exited}]
  BY <1>2
<1>7. Pool' /\ Distinct'
  BY <1>1, <1>2, <1>6 DEF Pool, Distinct
<1>8. \A f \in Exec : ~Held(f)' /\ ~Active(f)'
  <2>1. None \notin Exec
    BY PoolAssumption
  <2>2. \A f \in Exec : ~Held(f)'
    BY <1>3 DEF Held, Busy, Waiting, Cancelling
  <2> QED BY <1>6, <2>1, <2>2 DEF Active
<1>9. Channelled'
  <2>1. \A f \in Exec : run'[f].pc # "queued"
    BY <1>8 DEF Held
  <2>2. {channel'[i] : i \in 1..Len(channel')} = {}
    BY <1>6
  <2> QED BY <2>1, <2>2 DEF Channelled
<1>10. Working'
  BY <1>6, <1>8, PoolAssumption DEF Working
<1>11. ASSUME NEW f \in Exec PROVE Local(f)'
  <2>1. CASE Held(f)
    BY <1>3, <2>1 DEF Local, ChildAt, VerdictAt, LeaseAt, On, Waiting, Cancelling
  <2>2. CASE ~Held(f)
    <3>1. run'[f] = run[f] /\ run[f].pc \notin Busy
      BY <1>3, <2>2 DEF Held
    <3> QED BY <1>1, <1>2, <1>4, <3>1 DEF Local, ChildAt, VerdictAt, LeaseAt, On, Busy
  <2> QED BY <2>1, <2>2
<1>12. ASSUME NEW f \in Exec PROVE Orphaned(f)'
  <2>1. SUFFICES ASSUME f[1] \notin gap', Alive(f)', run'[f].pc = "lost"
        PROVE  lease[f[1]] = f[2] /\ row[f[1]] = "running"
    BY <1>2, <1>8 DEF Orphaned, On
  <2>2. f[1] \notin gap /\ Alive(f)
    BY <1>2, <1>4, <2>1 DEF Alive
  <2>3. CASE Held(f)
    <3>1. run[f].pc \in Waiting \cup Cancelling
      <4>1. run[f].pc # "lease"
        BY <1>2, <2>1 DEF On
      <4>2. run[f].pc \notin {"queued", "start", "send", "drain"}
        BY <1>1, <2>2 DEF Local, ChildAt, Alive
      <4> QED BY <2>3, <4>1, <4>2 DEF Held, Busy
    <3>2. row[f[1]] = "running"
      BY <1>1, <2>3 DEF Working, Active
    <3> QED BY <1>1, <2>2, <3>1, <3>2 DEF Local, LeaseAt
  <2>4. CASE ~Held(f)
    BY <1>1, <1>3, <2>1, <2>2, <2>4 DEF Orphaned, On
  <2> QED BY <2>3, <2>4
<1>13. PoolTypeOK'
  BY <1>5, <1>7, <1>9, TypePartsNext
<1> QED BY <1>7, <1>10, <1>11, <1>12, <1>13 DEF PoolInv, Local

(* The start that resets the Running rows.                                 *)
LEMMA RestartPool ==
  ASSUME PoolInv, Restart
  PROVE  PoolInv'
<1>1. /\ ExecTypes /\ Pool /\ Channelled /\ Distinct /\ Working
      /\ \A f \in Exec : Local(f) /\ Orphaned(f)
  BY TypeParts DEF PoolInv, Local
<1>2. /\ ~up /\ up' /\ UNCHANGED <<def, run, child, heir, flag, lease, gap, channel, thread>>
  BY DEF Restart, execVars
<1>3. row' = [t \in Task |-> IF row[t] = "running" /\ ~OrphanOf(t) THEN "pending" ELSE row[t]]
  BY DEF Restart, ResetRunningToPending
<1>4. /\ row' \in [Task -> {"pending", "running", "ended"}]
      /\ \A t \in Task : OrphanOf(t) => row'[t] = row[t]
  BY <1>1, <1>3 DEF Pool
<1>5. \A f \in Exec : ~Active(f) /\ ~Active(f)'
  BY <1>1, <1>2 DEF Working, Active, Held
<1>6. ExecTypes' /\ Pool' /\ Channelled' /\ Distinct'
  BY <1>1, <1>2, <1>4 DEF ExecTypes, Pool, Channelled, Distinct
<1>7. Working'
  BY <1>1, <1>2, <1>5 DEF Working
<1>8. \A f \in Exec : Local(f)'
  BY <1>1, <1>2 DEF Local, ChildAt, VerdictAt, LeaseAt, On
<1>9. ASSUME NEW f \in Exec PROVE Orphaned(f)'
  <2>1. SUFFICES ASSUME f[1] \notin gap, Alive(f), On(f, "lost")
        PROVE  lease[f[1]] = f[2] /\ row'[f[1]] = "running"
    BY <1>2, <1>5 DEF Orphaned, On, Alive
  <2>2. lease[f[1]] = f[2] /\ row[f[1]] = "running"
    BY <1>1, <2>1 DEF Orphaned
  <2>3. f = <<f[1], f[2]>> /\ f[1] \in Task /\ f[2] \in 1..Runs[f[1]]
    BY ExecPairs
  <2>4. OrphanOf(f[1])
    BY <2>1, <2>2, <2>3, ExecutorAssumption DEF OrphanOf
  <2> QED BY <1>4, <2>2, <2>3, <2>4
<1>10. PoolTypeOK'
  BY <1>6, TypePartsNext
<1> QED BY <1>6, <1>7, <1>8, <1>9, <1>10 DEF PoolInv, Local

-----------------------------------------------------------------------------
(* The theorems.                                                           *)

LEMMA PoolInit == Init => PoolInv
<1> SUFFICES ASSUME Init PROVE PoolInv
  OBVIOUS
<1>1. /\ def \in Defs /\ heir = {} /\ flag = {} /\ gap = {} /\ up
      /\ run = [e \in Exec |-> NoRun] /\ child = [e \in Exec |-> "none"]
      /\ lease = [t \in Task |-> 0] /\ channel = <<>>
      /\ thread = [w \in Thread |-> None] /\ row = [t \in Task |-> "pending"]
  BY DEF Init, ExecInit
<1>2. NoRun \in RunState /\ NoRun.pc = "idle" /\ NoRun.verdict = "none"
  BY DEF NoRun, RunState
<1>3. ExecTypes
  BY <1>1, <1>2, ExecutorAssumption DEF ExecTypes, Children
<1>4. Pool
  BY <1>1 DEF Pool
<1>5. Len(channel) = 0
  BY <1>1
<1>6. Channelled /\ Distinct
  BY <1>1, <1>2, <1>5 DEF Channelled, Distinct
<1>7. \A e \in Exec : run[e].pc = "idle" /\ run[e].verdict = "none" /\ child[e] = "none"
  BY <1>1, <1>2
<1>8. \A e \in Exec : ~Active(e)
  BY <1>1, <1>7, PoolAssumption DEF Active, Held, Busy, Waiting, Cancelling
<1>9. Working
  BY <1>1, <1>8, PoolAssumption DEF Working
<1>10. \A e \in Exec : Local(e) /\ Orphaned(e)
  BY <1>7 DEF Local, ChildAt, VerdictAt, LeaseAt, Orphaned, On, Waiting, Cancelling
<1> QED BY <1>3, <1>4, <1>6, <1>9, <1>10, TypeParts DEF PoolInv, Local

LEMMA PoolStep == PoolInv /\ [Next]_vars => PoolInv'
<1> SUFFICES ASSUME PoolInv, [Next]_vars PROVE PoolInv'
  OBVIOUS
<1>1. CASE \E e \in Exec : Submit(e) \/ SignalCancel(e) \/ Process(e)
  BY <1>1, SubmitPool, ProcessPool
<1>2. CASE \E w \in Thread : Take(w) \/ Execute(w) \/ Settle(w) \/ JobPanics(w)
  BY <1>2, TakePool, ExecutePool, FreePool
<1>3. CASE Crash
  BY <1>3, CrashPool
<1>4. CASE Restart
  BY <1>4, RestartPool
<1>5. CASE UNCHANGED vars
  BY <1>5 DEF vars, execVars, poolVars, PoolInv, PoolTypeOK, Distinct, Working, Active, Held,
              ChildAt, VerdictAt, LeaseAt, Orphaned, On, Alive
<1> QED BY <1>1, <1>2, <1>3, <1>4, <1>5 DEF Next

(* The invariant holds in every reachable state.                           *)
THEOREM PoolInvariant == Spec => []PoolInv
BY PoolInit, PoolStep, PTL DEF Spec

(* Every variable keeps its type, and the channel holds exactly the        *)
(* executions that wait for a thread.                                      *)
THEOREM PoolTypeCorrect == Spec => []PoolTypeOK
<1>1. PoolInv => PoolTypeOK
  BY DEF PoolInv
<1> QED BY <1>1, PoolInvariant, PTL

(* Whatever crashes and restarts, with any number of threads, a task whose *)
(* row always got its lease never has two processes.                       *)
THEOREM NeverSecondChild == Spec => []NoSecondChild
<1>1. ASSUME PoolInv, NEW t \in Task, t \notin gap,
             NEW n \in 1..Runs[t], NEW m \in 1..Runs[t], Alive(<<t, n>>), Alive(<<t, m>>)
      PROVE  n = m
  <2>1. <<t, n>> \in Exec /\ <<t, m>> \in Exec
    BY <1>1, ExecPairs
  <2>2. ASSUME NEW e \in Exec, e[1] = t, Alive(e)
        PROVE  \/ Active(e)
               \/ lease[t] = e[2] /\ \A f \in Exec : f[1] = t => ~Active(f)
    <3>1. run[e].pc \in Busy \cup {"idle", "queued", "done", "over", "lost"}
      BY <1>1 DEF PoolInv, PoolTypeOK, RunState
    <3>2. run[e].pc \in Busy \cup {"lost"}
      BY <1>1, <2>2, <3>1 DEF PoolInv, ChildAt, Alive
    <3>3. CASE run[e].pc \in Busy
      BY <3>3 DEF Active, Held
    <3>4. CASE On(e, "lost")
      <4>1. Orphaned(e)
        BY <1>1 DEF PoolInv
      <4> QED BY <1>1, <2>2, <3>4, <4>1 DEF Orphaned
    <3> QED BY <3>2, <3>3, <3>4 DEF On
  <2>3. <<t, n>>[1] = t /\ <<t, n>>[2] = n /\ <<t, m>>[1] = t /\ <<t, m>>[2] = m
    OBVIOUS
  <2>4. CASE Active(<<t, n>>)
    <3>1. Active(<<t, m>>)
      BY <1>1, <2>1, <2>2, <2>3, <2>4
    <3>2. <<t, n>> = <<t, m>>
      BY <1>1, <2>1, <2>3, <2>4, <3>1 DEF PoolInv, Working
    <3> QED BY <2>3, <3>2
  <2>5. CASE ~Active(<<t, n>>)
    <3>1. lease[t] = n /\ ~Active(<<t, m>>)
      BY <1>1, <2>1, <2>2, <2>3, <2>5
    <3>2. lease[t] = m
      BY <1>1, <2>1, <2>2, <2>3, <3>1
    <3> QED BY <3>1, <3>2
  <2> QED BY <2>4, <2>5
<1>2. ASSUME PoolInv PROVE NoSecondChild
  <2>1. SUFFICES ASSUME NEW t \in Task, t \notin gap
        PROVE  Cardinality({n \in 1..Runs[t] : Alive(<<t, n>>)}) <= 1
    BY DEF NoSecondChild
  <2> DEFINE S == {n \in 1..Runs[t] : Alive(<<t, n>>)}
  <2>2. CASE S = {}
    <3>1. Cardinality(S) = 0
      BY <2>2, FS_EmptySet
    <3> QED BY <3>1
  <2>3. CASE S # {}
    <3>1. PICK n : n \in S
      BY <2>3
    <3>2. S = {n}
      BY <1>1, <1>2, <2>1, <3>1
    <3>3. Cardinality(S) = 1
      BY <3>2, FS_Singleton
    <3> QED BY <3>3
  <2> QED BY <2>2, <2>3
<1> QED BY <1>2, PoolInvariant, PTL

(* However an execution ends - by itself, by a timeout, a cancellation, a  *)
(* panic or with the daemon - no process of it stays unreaped.             *)
THEOREM NoChildEverLeft == Spec => []NoChildLeft
<1>1. PoolInv => NoChildLeft
  BY DEF PoolInv, ChildAt, NoChildLeft
<1> QED BY <1>1, PoolInvariant, PTL

(* A command killed or given up never passes for a success, whenever its   *)
(* exit is seen.                                                           *)
THEOREM SuccessAlwaysEarned == Spec => []SuccessIsEarned
<1>1. PoolInv => SuccessIsEarned
  BY DEF PoolInv, VerdictAt, SuccessIsEarned
<1> QED BY <1>1, PoolInvariant, PTL
=============================================================================
