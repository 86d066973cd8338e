-------------------------- MODULE LifecycleProofs --------------------------
(***************************************************************************)
(* Proofs about start, stop and restart for every set of PHP processes and *)
(* every number of daemons they spawn.                                     *)
(***************************************************************************)
EXTENDS LifecycleProps, FiniteSetTheorems, TLAPS

-----------------------------------------------------------------------------
(* The inductive invariant.  A daemon that is not leaving is known by the  *)
(* pid file, or it has not written it yet and the call that spawned it     *)
(* still waits; a call about to signal a daemon knows of the only one.     *)

Working(d) == daemon[d] \in Live \ {"leaving"}

(* Signals wait for daemons that have their handler.                       *)
SignalsHeld == term \subseteq {d \in Process : daemon[d] \notin Unprepared}

(* A call that deals with a daemon deals with one that was once spawned.   *)
TargetsExist ==
  \A c \in Client : call[c].pc \in {"watch", "poll", "term", "await"} =>
    call[c].target \in Process /\ daemon[call[c].target] # "none"

OneCaller == serial => \A b, c \in Client : At(b, "idle") \/ At(c, "idle") \/ b = c

(* Until a new daemon has written its pid file there is none, and the call *)
(* that spawned it does not return.                                        *)
Expected(d) ==
  daemon[d] = "spawned" =>
    /\ pidfile = None
    /\ \E c \in Client : call[c].pc \in {"watch", "poll"} /\ call[c].target = d

Named(d) ==
  /\ Working(d) /\ daemon[d] # "spawned" => pidfile = d
  /\ daemon[d] \in {"serving", "draining"} => socket = d

Targeted(d) ==
  Working(d) => \A c \in Client : call[c].pc \in {"term", "await"} => call[c].target = d

Known == serial => \A d \in Process : Expected(d) /\ Named(d) /\ Targeted(d)

LifecycleInv == LifecycleTypeOK /\ SignalsHeld /\ TargetsExist /\ OneCaller /\ Known

-----------------------------------------------------------------------------
(* What a step does to the calls: one of them moves, the others stay.      *)

Others(c) == \A b \in Client \ {c} : call'[b] = call[b]

(* Each way a call moves on keeps the calls well typed.                    *)
LEMMA CallMoves ==
  ASSUME call \in [Client -> Call], NEW c \in Client
  PROVE  /\ \A pc \in {"spawn", "watch", "poll", "term", "await"}, d \in Process \cup {None} :
              Goto(c, pc, d) =>
                /\ call' \in [Client -> Call] /\ Others(c)
                /\ call'[c].pc = pc /\ call'[c].target = d
         /\ Return(c) =>
              call' \in [Client -> Call] /\ Others(c) /\ call'[c].pc = "idle"
         /\ AfterStop(c) =>
              call' \in [Client -> Call] /\ Others(c) /\ call'[c].pc \in {"idle", "fast"}
         /\ \A pc \in {"fast", "status", "stop"}, again \in BOOLEAN :
              Begin(c, pc, again) =>
                /\ call' \in [Client -> Call] /\ Others(c)
                /\ call'[c].pc = pc
<1>1. Idle \in Call /\ [Idle EXCEPT !.pc = "fast"] \in Call /\ call[c] \in Call
  BY DEF Idle, Call
<1>2. ASSUME NEW pc \in {"spawn", "watch", "poll", "term", "await"},
             NEW d \in Process \cup {None}, Goto(c, pc, d)
      PROVE  /\ call' \in [Client -> Call] /\ Others(c)
             /\ call'[c].pc = pc /\ call'[c].target = d
  <2>1. call' = [call EXCEPT ![c] = [call[c] EXCEPT !.pc = pc, !.target = d]]
    BY <1>2 DEF Goto
  <2>2. [call[c] EXCEPT !.pc = pc, !.target = d] \in Call
    BY <1>1, <1>2 DEF Call
  <2>3. /\ [call[c] EXCEPT !.pc = pc, !.target = d].pc = pc
        /\ [call[c] EXCEPT !.pc = pc, !.target = d].target = d
    BY <1>1 DEF Call
  <2> QED BY <2>1, <2>2, <2>3 DEF Others
<1>3. Return(c) => call' \in [Client -> Call] /\ Others(c) /\ call'[c].pc = "idle"
  BY <1>1 DEF Return, Others, Idle
<1>4. AfterStop(c) =>
        call' \in [Client -> Call] /\ Others(c) /\ call'[c].pc \in {"idle", "fast"}
  BY <1>1 DEF AfterStop, Others, Idle
<1>5. ASSUME NEW pc \in {"fast", "status", "stop"}, NEW again \in BOOLEAN,
             Begin(c, pc, again)
      PROVE  call' \in [Client -> Call] /\ Others(c) /\ call'[c].pc = pc
  <2>1. [Idle EXCEPT !.pc = pc, !.again = again] \in Call
    BY DEF Idle, Call
  <2>2. [Idle EXCEPT !.pc = pc, !.again = again].pc = pc
    BY DEF Idle
  <2> QED BY <1>5, <2>1, <2>2 DEF Begin, Others
<1> QED BY <1>2, <1>3, <1>4, <1>5

-----------------------------------------------------------------------------
(* Type correctness, with the signals that wait.                           *)

(* One daemon changes its state and keeps or loses its signal.             *)
LEMMA BecomeTyped ==
  ASSUME daemon \in [Process -> DaemonState], SignalsHeld,
         term \subseteq {d \in Process : daemon[d] \in Live},
         NEW d \in Process, NEW s \in DaemonState \ Unprepared, Become(d, s),
         \/ term' = term /\ (s \in Live \/ d \notin term)
         \/ term' = term \ {d}
  PROVE  /\ daemon' \in [Process -> DaemonState]
         /\ term' \subseteq {x \in Process : daemon'[x] \in Live}
         /\ SignalsHeld'
BY DEF Become, SignalsHeld, Unprepared

(* Every step keeps the types.                                            *)
LEMMA Typed ==
  LifecycleTypeOK /\ SignalsHeld /\ [Next]_vars => LifecycleTypeOK' /\ SignalsHeld'
<1> SUFFICES ASSUME LifecycleTypeOK, SignalsHeld, [Next]_vars
             PROVE  LifecycleTypeOK' /\ SignalsHeld'
  OBVIOUS
<1> USE LifecycleAssumption
<1>1. ASSUME NEW c \in Client, CallSome(c) PROVE LifecycleTypeOK' /\ SignalsHeld'
  <2>1. call' \in [Client -> Call]
    BY <1>1, CallMoves DEF CallSome, LifecycleTypeOK
  <2> QED BY <1>1, <2>1 DEF CallSome, Begin, LifecycleTypeOK, SignalsHeld, files
<1>2. ASSUME NEW c \in Client, StartFast(c) PROVE LifecycleTypeOK' /\ SignalsHeld'
  <2>1. call' \in [Client -> Call]
    BY <1>2, CallMoves DEF StartFast, LifecycleTypeOK
  <2> QED BY <1>2, <2>1 DEF StartFast, ReadPid, LifecycleTypeOK, SignalsHeld
<1>3. ASSUME NEW c \in Client, StartSpawn(c) PROVE LifecycleTypeOK' /\ SignalsHeld'
  <2>1. call' \in [Client -> Call]
    BY <1>3, CallMoves DEF StartSpawn, LifecycleTypeOK
  <2>2. CASE UNCHANGED <<daemon, parent>>
    BY <1>3, <2>1, <2>2 DEF StartSpawn, ReadPid, LifecycleTypeOK, SignalsHeld
  <2>3. ASSUME NEW n \in Process, IsNext(n), Become(n, "spawned"),
               parent' = [parent EXCEPT ![n] = c]
        PROVE  LifecycleTypeOK' /\ SignalsHeld'
    <3>1. daemon[n] = "none"
      BY <2>3 DEF IsNext, Process
    <3>2. daemon' \in [Process -> DaemonState]
      BY <2>3 DEF Become, LifecycleTypeOK, DaemonState, Live,
                Starting, Unprepared
    <3>3. n \notin term
      BY <3>1 DEF LifecycleTypeOK, Live, Starting, Unprepared
    <3>4. term' \subseteq {d \in Process : daemon'[d] \in Live} /\ SignalsHeld'
      BY <1>3, <2>3, <3>3 DEF StartSpawn, Become, LifecycleTypeOK, SignalsHeld, Unprepared,
                                     Live, Starting
    <3> QED BY <1>3, <2>1, <2>3, <3>2, <3>4 DEF StartSpawn, ReadPid, LifecycleTypeOK
  <2> QED BY <1>3, <2>2, <2>3 DEF StartSpawn
<1>4. ASSUME NEW c \in Client, StartWatch(c) PROVE LifecycleTypeOK' /\ SignalsHeld'
  <2> DEFINE d == call[c].target
  <2>0. d \in Process \cup {None}
    BY DEF LifecycleTypeOK, Call
  <2>1. call' \in [Client -> Call]
    BY <1>4, <2>0, CallMoves DEF StartWatch, LifecycleTypeOK
  <2>2. CASE d \in Process /\ Become(d, "dead") /\ daemon[d] = "zombie"
    <3>1. d \notin term
      BY <2>2 DEF LifecycleTypeOK, Live, Starting, Unprepared
    <3>2. parent' \in [Process -> Client \cup {None}]
      BY <1>4 DEF StartWatch, LifecycleTypeOK
    <3> QED BY <1>4, <2>1, <2>2, <3>1, <3>2, BecomeTyped
            DEF StartWatch, LifecycleTypeOK, DaemonState, Live, Starting, Unprepared, files
  <2>3. CASE UNCHANGED <<daemon, parent>>
    BY <1>4, <2>1, <2>3 DEF StartWatch, LifecycleTypeOK, SignalsHeld, files
  <2>4. CASE d \notin Process /\ Become(d, "dead") /\ parent' = [parent EXCEPT ![d] = None]
    <3>1. UNCHANGED <<daemon, parent>>
      BY <2>4 DEF LifecycleTypeOK, Become
    <3> QED BY <2>3, <3>1
  <2> QED BY <1>4, <2>2, <2>3, <2>4 DEF StartWatch
<1>5. ASSUME NEW c \in Client, StartPoll(c) PROVE LifecycleTypeOK' /\ SignalsHeld'
  <2>1. call' \in [Client -> Call]
    BY <1>5, CallMoves DEF StartPoll, LifecycleTypeOK
  <2> QED BY <1>5, <2>1 DEF StartPoll, ReadPid, LifecycleTypeOK, SignalsHeld
<1>6. ASSUME NEW c \in Client, StopRead(c) PROVE LifecycleTypeOK' /\ SignalsHeld'
  <2>1. call' \in [Client -> Call]
    BY <1>6, CallMoves DEF StopRead, LifecycleTypeOK
  <2> QED BY <1>6, <2>1 DEF StopRead, RemoveFiles, LifecycleTypeOK, SignalsHeld, files
<1>7. ASSUME NEW c \in Client, StopTerm(c) PROVE LifecycleTypeOK' /\ SignalsHeld'
  <2> DEFINE d == call[c].target
  <2>0. d \in Process \cup {None}
    BY DEF LifecycleTypeOK, Call
  <2>1. call' \in [Client -> Call]
    BY <1>7, <2>0, CallMoves DEF StopTerm, LifecycleTypeOK
  <2>2. CASE ~Found(d)
    BY <1>7, <2>1, <2>2 DEF StopTerm, RemoveFiles, LifecycleTypeOK, SignalsHeld
  <2>3. CASE Found(d)
    <3>1. d \in Process
      BY <2>0, <2>3 DEF Found
    <3>2. CASE daemon[d] \in Unprepared
      <4>1. d \notin term
        BY <3>2 DEF SignalsHeld
      <4>2. Become(d, DeadState(d)) /\ UNCHANGED term
        BY <1>7, <2>3, <3>2 DEF StopTerm, Terminate, Live, Starting
      <4>3. DeadState(d) \in DaemonState \ Unprepared
        BY DEF DeadState, DaemonState, Unprepared
      <4> QED BY <1>7, <2>1, <2>3, <3>1, <4>1, <4>2, <4>3, BecomeTyped
              DEF StopTerm, LifecycleTypeOK, files
    <3>3. CASE daemon[d] \notin Unprepared /\ daemon[d] \in Live
      <4>1. term' = term \cup {d} /\ UNCHANGED daemon
        BY <1>7, <2>3, <3>3 DEF StopTerm, Terminate, Live, Starting
      <4> QED BY <1>7, <2>1, <2>3, <3>1, <3>3, <4>1
              DEF StopTerm, LifecycleTypeOK, SignalsHeld, files
    <3>4. CASE daemon[d] \notin Live /\ daemon[d] \notin Unprepared
      <4>1. UNCHANGED <<daemon, term>>
        BY <1>7, <2>3, <3>4 DEF StopTerm, Terminate, Live, Starting
      <4> QED BY <1>7, <2>1, <2>3, <4>1 DEF StopTerm, LifecycleTypeOK, SignalsHeld, files
    <3> QED BY <3>2, <3>3, <3>4
  <2> QED BY <2>2, <2>3
<1>8. ASSUME NEW c \in Client, StopAwait(c) PROVE LifecycleTypeOK' /\ SignalsHeld'
  <2>1. call' \in [Client -> Call]
    BY <1>8, CallMoves DEF StopAwait, LifecycleTypeOK
  <2> QED BY <1>8, <2>1 DEF StopAwait, RemoveFiles, LifecycleTypeOK, SignalsHeld
<1>9. ASSUME NEW c \in Client, StopKill(c) PROVE LifecycleTypeOK' /\ SignalsHeld'
  <2> DEFINE d == call[c].target
  <2>1. call' \in [Client -> Call]
    BY <1>9, CallMoves DEF StopKill, LifecycleTypeOK
  <2>2. d \in Process
    BY <1>9 DEF StopKill, Found, LifecycleTypeOK, Call
  <2>3. Become(d, DeadState(d)) /\ DeadState(d) \in DaemonState \ Unprepared
    BY <1>9 DEF StopKill, Become, DeadState, DaemonState, Unprepared
  <2> QED BY <1>9, <2>1, <2>2, <2>3, BecomeTyped DEF StopKill, RemoveFiles, LifecycleTypeOK
<1>10. ASSUME NEW c \in Client, Status(c) PROVE LifecycleTypeOK' /\ SignalsHeld'
  <2>1. call' \in [Client -> Call]
    BY <1>10, CallMoves DEF Status, LifecycleTypeOK
  <2> QED BY <1>10, <2>1 DEF Status, ReadPid, LifecycleTypeOK, SignalsHeld
<1>11. ASSUME NEW c \in Client, Leave(c) PROVE LifecycleTypeOK' /\ SignalsHeld'
  <2>1. daemon' \in [Process -> DaemonState] /\ parent' \in [Process -> Client \cup {None}]
    BY <1>11 DEF Leave, LifecycleTypeOK, DaemonState
  <2>2. \A d \in Process : daemon[d] # "zombie" => daemon'[d] = daemon[d]
    BY <1>11 DEF Leave
  <2>3. term' \subseteq {d \in Process : daemon'[d] \in Live} /\ SignalsHeld'
    BY <1>11, <2>2 DEF Leave, LifecycleTypeOK, SignalsHeld, Live, Starting, Unprepared
  <2> QED BY <1>11, <2>1, <2>3 DEF Leave, LifecycleTypeOK, files
<1>12. ASSUME NEW d \in Process, WritePid(d) PROVE LifecycleTypeOK' /\ SignalsHeld'
  BY <1>12 DEF WritePid, Become, LifecycleTypeOK, SignalsHeld, DaemonState, Live,
                Starting, Unprepared
<1>13. ASSUME NEW d \in Process, InstallHandler(d) PROVE LifecycleTypeOK' /\ SignalsHeld'
  BY <1>13 DEF InstallHandler, Become, LifecycleTypeOK, SignalsHeld, files,
               DaemonState, Live,
                Starting, Unprepared
<1>14. ASSUME NEW d \in Process, Bind(d) PROVE LifecycleTypeOK' /\ SignalsHeld'
  BY <1>14 DEF Bind, Become, LifecycleTypeOK, SignalsHeld, DaemonState, Live,
                Starting, Unprepared
<1>15. ASSUME NEW d \in Process, EndServing(d) PROVE LifecycleTypeOK' /\ SignalsHeld'
  BY <1>15 DEF EndServing, Become, LifecycleTypeOK, SignalsHeld, files,
               DaemonState, Live,
                Starting, Unprepared
<1>16. ASSUME NEW d \in Process, DaemonStopping(d) PROVE LifecycleTypeOK' /\ SignalsHeld'
  BY <1>16 DEF DaemonStopping, RemoveFiles, Become, LifecycleTypeOK, SignalsHeld,
               DaemonState, Live,
                Starting, Unprepared
<1>17. ASSUME NEW d \in Process, Die(d) PROVE LifecycleTypeOK' /\ SignalsHeld'
  <2>1. DeadState(d) \in DaemonState \ Unprepared
    BY DEF DeadState, DaemonState, Unprepared
  <2> QED BY <1>17, <2>1, BecomeTyped DEF Die, LifecycleTypeOK, files
<1>18. CASE UNCHANGED vars
  BY <1>18 DEF vars, files, LifecycleTypeOK, SignalsHeld
<1> QED BY <1>1, <1>2, <1>3, <1>4, <1>5, <1>6, <1>7, <1>8, <1>9, <1>10, <1>11,
           <1>12, <1>13, <1>14, <1>15, <1>16, <1>17, <1>18
        DEF Next, ClientStep, DaemonStep

-----------------------------------------------------------------------------
(* Who calls, and with which daemon the calls deal.                        *)

(* A daemon once spawned stays so, whatever becomes of it.                 *)
LEMMA SpawnedOnce ==
  ASSUME LifecycleTypeOK, [Next]_vars, NEW d \in Process, daemon[d] # "none"
  PROVE  daemon'[d] # "none"
<1>1. ASSUME NEW c \in Client, CallSome(c) PROVE UNCHANGED daemon
  BY <1>1 DEF CallSome, Begin
<1>2. ASSUME NEW c \in Client, StartSpawn(c) PROVE daemon'[d] # "none"
  BY <1>2 DEF StartSpawn, IsNext, Become, LifecycleTypeOK
<1>3. ASSUME NEW c \in Client, StartWatch(c) PROVE daemon'[d] # "none"
  BY <1>3 DEF StartWatch, Become, LifecycleTypeOK
<1>4. ASSUME NEW c \in Client, StopTerm(c) PROVE daemon'[d] # "none"
  BY <1>4 DEF StopTerm, Terminate, Become, DeadState, LifecycleTypeOK, Live, Starting,
              Unprepared
<1>5. ASSUME NEW c \in Client, StopKill(c) PROVE daemon'[d] # "none"
  BY <1>5 DEF StopKill, DeadState, LifecycleTypeOK
<1>6. ASSUME NEW c \in Client, Leave(c) PROVE daemon'[d] # "none"
  BY <1>6 DEF Leave
<1>7. ASSUME NEW c \in Client, \/ StartFast(c) \/ StartPoll(c) \/ StopRead(c)
                               \/ StopAwait(c) \/ Status(c)
      PROVE  UNCHANGED daemon
  BY <1>7 DEF StartFast, StartPoll, StopRead, StopAwait, Status
<1>8. ASSUME NEW x \in Process, DaemonStep(x) PROVE daemon'[d] # "none"
  BY <1>8 DEF DaemonStep, WritePid, InstallHandler, Bind, EndServing, DaemonStopping,
              Die, Become, DeadState, LifecycleTypeOK
<1>9. CASE UNCHANGED vars
  BY <1>9 DEF vars
<1> QED BY <1>1, <1>2, <1>3, <1>4, <1>5, <1>6, <1>7, <1>8, <1>9 DEF Next, ClientStep

(* The next move of a call, if the step is one of a call, and the target   *)
(* it then has.                                                            *)
Moves(c) ==
  /\ Others(c)
  /\ \/ ~At(c, "idle")
     \/ serial => \A x \in Client : At(x, "idle")
  /\ call'[c].pc \in {"watch", "poll", "term", "await"} =>
       /\ call'[c].target \in Process
       /\ daemon'[call'[c].target] # "none"

(* A call that moves is the only one to do so.                             *)
LEMMA CallerMoves ==
  ASSUME LifecycleTypeOK, TargetsExist, NEW b \in Client, CallSome(b) \/ ClientStep(b)
  PROVE  Moves(b)
<1>0. [Next]_vars
  BY DEF Next
<1>1. ASSUME NEW c \in Client, CallSome(c) PROVE Moves(c)
  BY <1>1, CallMoves DEF CallSome, Begin, Moves, LifecycleTypeOK
<1>2. ASSUME NEW c \in Client, StartFast(c) PROVE Moves(c)
  BY <1>2, CallMoves DEF StartFast, Moves, At, LifecycleTypeOK
<1>3. ASSUME NEW c \in Client, StartSpawn(c) PROVE Moves(c)
  <2>1. CASE Return(c)
    BY <1>3, <2>1, CallMoves DEF StartSpawn, Moves, At, LifecycleTypeOK
  <2>2. ASSUME NEW n \in Process, Become(n, "spawned"), Goto(c, "watch", n) PROVE Moves(c)
    <3>1. Others(c) /\ call'[c].target = n
      BY <2>2, CallMoves DEF LifecycleTypeOK
    <3>2. daemon'[n] = "spawned"
      BY <2>2 DEF Become, LifecycleTypeOK
    <3> QED BY <1>3, <3>1, <3>2 DEF StartSpawn, Moves, At
  <2> QED BY <1>3, <2>1, <2>2 DEF StartSpawn
<1>4. ASSUME NEW c \in Client, StartWatch(c) \/ StopTerm(c) PROVE Moves(c)
  <2>1. /\ ~At(c, "idle")
        /\ call[c].target \in Process /\ daemon[call[c].target] # "none"
    BY <1>4 DEF StartWatch, StopTerm, At, TargetsExist
  <2>2. /\ Others(c)
        /\ call'[c].pc \in {"idle", "fast"} \/ call'[c].target = call[c].target
    BY <1>4, <2>1, CallMoves DEF StartWatch, StopTerm, LifecycleTypeOK
  <2>3. daemon'[call[c].target] # "none"
    BY <1>0, <2>1, SpawnedOnce
  <2> QED BY <2>1, <2>2, <2>3 DEF Moves
<1>5. ASSUME NEW c \in Client, StartPoll(c) \/ StopAwait(c) \/ StopKill(c) \/ Status(c)
      PROVE  Moves(c)
  BY <1>5, CallMoves DEF StartPoll, StopAwait, StopKill, Status, Moves, At, LifecycleTypeOK
<1>6. ASSUME NEW c \in Client, StopRead(c) PROVE Moves(c)
  <2>1. CASE Found(pidfile) /\ Goto(c, "term", pidfile)
    <3>1. pidfile \in Process /\ daemon[pidfile] # "none"
      BY <2>1 DEF Found, LifecycleTypeOK, Live, Starting, Unprepared
    <3> QED BY <1>6, <2>1, <3>1, CallMoves DEF StopRead, Moves, At, LifecycleTypeOK
  <2>2. CASE AfterStop(c)
    BY <1>6, <2>2, CallMoves DEF StopRead, Moves, At, LifecycleTypeOK
  <2> QED BY <1>6, <2>1, <2>2 DEF StopRead
<1> QED BY <1>1, <1>2, <1>3, <1>4, <1>5, <1>6 DEF ClientStep

(* Any other step leaves the calls alone.                                  *)
LEMMA OneMoves ==
  ASSUME LifecycleTypeOK, TargetsExist, [Next]_vars
  PROVE  UNCHANGED call \/ \E c \in Client : Moves(c)
<1>1. ASSUME NEW c \in Client, Leave(c) PROVE UNCHANGED call
  BY <1>1 DEF Leave
<1>2. ASSUME NEW d \in Process, DaemonStep(d) PROVE UNCHANGED call
  BY <1>2 DEF DaemonStep, WritePid, InstallHandler, Bind, EndServing, DaemonStopping, Die
<1>3. CASE UNCHANGED vars
  BY <1>3 DEF vars
<1> QED BY <1>1, <1>2, <1>3, CallerMoves DEF Next

(* The callers are serial or not once for all.                             *)
LEMMA SerialConstant == [Next]_vars => serial' = serial
BY DEF Next, ClientStep, DaemonStep, CallSome, Begin, StartFast, StartSpawn, StartWatch,
       StartPoll, StopRead, StopTerm, StopAwait, StopKill, Status, Leave, WritePid,
       InstallHandler, Bind, EndServing, DaemonStopping, Die, vars

(* Every step keeps the targets, and the calls one at a time.              *)
LEMMA CallersKept ==
  LifecycleTypeOK /\ TargetsExist /\ OneCaller /\ [Next]_vars => TargetsExist' /\ OneCaller'
<1> SUFFICES ASSUME LifecycleTypeOK, TargetsExist, OneCaller, [Next]_vars
             PROVE  TargetsExist' /\ OneCaller'
  OBVIOUS
<1>1. TargetsExist'
  BY OneMoves, SpawnedOnce DEF TargetsExist, Moves, Others
<1>2. OneCaller'
  BY OneMoves, SerialConstant DEF OneCaller, Moves, Others, At
<1> QED BY <1>1, <1>2

-----------------------------------------------------------------------------
(* One daemon is known.                                                    *)

(* Every step keeps the one daemon known.                                  *)
LEMMA KnownKept ==
  LifecycleInv /\ [Next]_vars => Known'
<1> SUFFICES ASSUME LifecycleInv, [Next]_vars, serial
             PROVE  \A d \in Process : Expected(d)' /\ Named(d)' /\ Targeted(d)'
  BY SerialConstant DEF Known
<1> DEFINE Goal == \A d \in Process : Expected(d)' /\ Named(d)' /\ Targeted(d)'
<1> USE LifecycleAssumption DEF LifecycleInv, LifecycleTypeOK
<1>a. \A d \in Process : Expected(d) /\ Named(d) /\ Targeted(d)
  BY DEF Known
<1>b. \A b, c \in Client : At(b, "idle") \/ At(c, "idle") \/ b = c
  BY DEF OneCaller
<1>1. ASSUME NEW c \in Client, CallSome(c) PROVE Goal
  <2>1. /\ Others(c) /\ call'[c].pc \in {"fast", "status", "stop"}
        /\ \A x \in Client : At(x, "idle")
    BY <1>1, CallMoves DEF CallSome, Begin
  <2>2. UNCHANGED <<daemon, pidfile, socket>>
    BY <1>1 DEF CallSome, Begin, files
  <2> QED BY <1>a, <2>1, <2>2 DEF Expected, Named, Targeted, Working, Others, At
<1>2. ASSUME NEW c \in Client, StartFast(c) \/ Status(c) PROVE Goal
  <2>1. Others(c) /\ call'[c].pc \in {"idle", "spawn"} /\ call[c].pc \in {"fast", "status"}
    BY <1>2, CallMoves DEF StartFast, Status, At
  <2>2. UNCHANGED <<daemon, socket>> /\ pidfile' = IF Found(pidfile) THEN pidfile ELSE None
    BY <1>2 DEF StartFast, Status, ReadPid
  <2> QED BY <1>a, <1>b, <2>1, <2>2
          DEF Expected, Named, Targeted, Working, Others, At, Found, Live, Starting,
              Unprepared
<1>3. ASSUME NEW c \in Client, StartSpawn(c) PROVE Goal
  <2>1. At(c, "spawn") /\ socket' = socket
        /\ pidfile' = IF Found(pidfile) THEN pidfile ELSE None
    BY <1>3 DEF StartSpawn, ReadPid
  <2>2. \A d \in Process : daemon[d] # "spawned"
    BY <1>a, <1>b, <2>1 DEF Expected, At
  <2>3. CASE Return(c) /\ UNCHANGED daemon
    <3>1. Others(c) /\ call'[c].pc = "idle"
      BY <2>3, CallMoves
    <3> QED BY <1>a, <1>b, <2>1, <2>2, <2>3, <3>1
            DEF Expected, Named, Targeted, Working, Others, At, Found, Live, Starting,
                Unprepared
  <2>4. ASSUME NEW n \in Process, ~Found(pidfile), Become(n, "spawned"),
               Goto(c, "watch", n)
        PROVE  Goal
    <3>1. Others(c) /\ call'[c].pc = "watch" /\ call'[c].target = n
      BY <2>4, CallMoves
    <3>2. pidfile' = None
      BY <2>1, <2>4
    <3>3. \A d \in Process : ~Working(d)
      BY <1>a, <2>2, <2>4 DEF Named, Working, Found, Process
    <3>4. daemon'[n] = "spawned" /\ \A d \in Process \ {n} : daemon'[d] = daemon[d]
      BY <2>4 DEF Become
    <3> QED BY <1>b, <2>1, <2>2, <3>1, <3>2, <3>3, <3>4
            DEF Expected, Named, Targeted, Working, Others, At, Live, Starting, Unprepared
  <2>5. \A d \in Process \cup {None} : ReadPid(d) /\ d = None => ~Found(pidfile)
    BY DEF ReadPid, Found
  <2> QED BY <1>3, <2>3, <2>4, <2>5 DEF StartSpawn
<1>4. ASSUME NEW c \in Client, StartWatch(c) PROVE Goal
  <2> DEFINE n == call[c].target
  <2>0. n \in Process /\ At(c, "watch") /\ UNCHANGED <<pidfile, socket>>
    BY <1>4 DEF StartWatch, TargetsExist, At, files
  <2>1. CASE daemon[n] = "zombie"
    <3>1. Others(c) /\ call'[c].pc = "idle"
      BY <1>4, <2>1, CallMoves DEF StartWatch
    <3>2. daemon'[n] = "dead" /\ \A d \in Process \ {n} : daemon'[d] = daemon[d]
      BY <1>4, <2>0, <2>1 DEF StartWatch, Become
    <3> QED BY <1>a, <1>b, <2>0, <2>1, <3>1, <3>2
            DEF Expected, Named, Targeted, Working, Others, At, Live, Starting, Unprepared
  <2>2. CASE daemon[n] # "zombie"
    <3>1. Others(c) /\ call'[c].pc = "poll" /\ call'[c].target = n /\ UNCHANGED daemon
      BY <1>4, <2>0, <2>2, CallMoves DEF StartWatch
    <3> QED BY <1>a, <1>b, <2>0, <2>2, <3>1
            DEF Expected, Named, Targeted, Working, Others, At
  <2> QED BY <2>1, <2>2
<1>5. ASSUME NEW c \in Client, StartPoll(c) PROVE Goal
  <2>1. Others(c) /\ call'[c].pc = "idle" /\ At(c, "poll") /\ UNCHANGED <<daemon, socket>>
    BY <1>5, CallMoves DEF StartPoll, ReadPid
  <2>2. pidfile' = IF Found(pidfile) THEN pidfile ELSE None
    BY <1>5 DEF StartPoll, ReadPid
  <2>3. pidfile' # None \/ daemon[call[c].target] # "spawned"
    BY <1>5 DEF StartPoll, ReadPid
  <2>4. \A d \in Process : daemon[d] # "spawned"
    BY <1>a, <1>b, <2>1, <2>2, <2>3 DEF Expected, At
  <2> QED BY <1>a, <1>b, <2>1, <2>2, <2>4
          DEF Expected, Named, Targeted, Working, Others, At, Found, Live, Starting,
              Unprepared
<1>6. ASSUME NEW c \in Client, StopRead(c) PROVE Goal
  <2>1. At(c, "stop") /\ UNCHANGED daemon
    BY <1>6 DEF StopRead
  <2>2. \A d \in Process : daemon[d] # "spawned"
    BY <1>a, <1>b, <2>1 DEF Expected, At
  <2>3. CASE Found(pidfile) /\ Goto(c, "term", pidfile) /\ UNCHANGED files
    <3>1. Others(c) /\ call'[c].pc = "term" /\ call'[c].target = pidfile
      BY <2>3, CallMoves DEF Found
    <3> QED BY <1>a, <1>b, <2>1, <2>2, <2>3, <3>1
            DEF Expected, Named, Targeted, Working, Others, At, files
  <2>4. CASE ~Found(pidfile) /\ AfterStop(c) /\ RemoveFiles
    <3>1. Others(c) /\ call'[c].pc \in {"idle", "fast"}
      BY <2>4, CallMoves
    <3>2. \A d \in Process : ~Working(d)
      BY <1>a, <2>2, <2>4 DEF Named, Working, Found, Process
    <3> QED BY <1>b, <2>1, <2>2, <3>1, <3>2
            DEF Expected, Named, Targeted, Working, Others, At, Live, Starting, Unprepared
  <2> QED BY <1>6, <2>3, <2>4 DEF StopRead
<1>7. ASSUME NEW c \in Client, StopTerm(c) \/ StopAwait(c) \/ StopKill(c) PROVE Goal
  <2> DEFINE n == call[c].target
  <2>1. call[c].pc \in {"term", "await"} /\ n \in Process
    BY <1>7 DEF StopTerm, StopAwait, StopKill, At, TargetsExist
  <2>2. \A d \in Process : daemon[d] # "spawned" /\ (Working(d) => d = n)
    BY <1>a, <1>b, <2>1 DEF Expected, Targeted, At
  <2>3. CASE /\ ~Found(n) \/ daemon' = [daemon EXCEPT ![n] = DeadState(n)]
             /\ ~Found(n) => UNCHANGED daemon
             /\ AfterStop(c) /\ RemoveFiles
    <3>1. Others(c) /\ call'[c].pc \in {"idle", "fast"}
      BY <2>3, CallMoves
    <3>2. \A d \in Process : ~Working(d)'
      BY <2>1, <2>2, <2>3 DEF Working, Found, DeadState, Live, Starting, Unprepared, Process
    <3> QED BY <3>2 DEF Expected, Named, Targeted, Working, Live, Starting, Unprepared
  <2>4. CASE At(c, "term") /\ Found(n)
    <3>1. Others(c) /\ call'[c].pc = "await" /\ call'[c].target = n /\ UNCHANGED files
      BY <1>7, <2>1, <2>4, CallMoves DEF StopTerm, StopAwait, StopKill, At
    <3>2. \A d \in Process \ {n} : daemon'[d] = daemon[d]
      BY <1>7, <2>4 DEF StopTerm, StopAwait, StopKill, At, Terminate, Become, Live, Starting,
                        Unprepared
    <3>3. daemon'[n] = daemon[n] \/ daemon'[n] \in {"zombie", "dead"}
      BY <1>7, <2>1, <2>4 DEF StopTerm, StopAwait, StopKill, At, Terminate, Become, DeadState,
                              Live, Starting, Unprepared
    <3> QED BY <1>a, <1>b, <2>1, <2>2, <3>1, <3>2, <3>3
            DEF Expected, Named, Targeted, Working, Others, At, files, Live, Starting,
                Unprepared
  <2> QED BY <1>7, <2>3, <2>4 DEF StopTerm, StopAwait, StopKill, At
<1>8. ASSUME NEW c \in Client, Leave(c) PROVE Goal
  <2>1. UNCHANGED <<call, pidfile, socket>>
    BY <1>8 DEF Leave, files
  <2>2. \A d \in Process : \/ daemon'[d] = daemon[d]
                           \/ daemon[d] = "zombie" /\ daemon'[d] = "dead"
    BY <1>8 DEF Leave
  <2> QED BY <1>a, <2>1, <2>2 DEF Expected, Named, Targeted, Working, Live, Starting,
                                  Unprepared
<1>9. ASSUME NEW n \in Process, WritePid(n) PROVE Goal
  <2>1. daemon'[n] = "written" /\ \A d \in Process \ {n} : daemon'[d] = daemon[d]
    BY <1>9 DEF WritePid, Become
  <2>2. \A d \in Process \ {n} : ~Working(d)
    BY <1>9, <1>a, <1>b DEF WritePid, Expected, Named, Working, At, Process
  <2> QED BY <1>9, <1>a, <2>1, <2>2
          DEF WritePid, Expected, Named, Targeted, Working, Live, Starting, Unprepared
<1>10. ASSUME NEW n \in Process, InstallHandler(n) \/ EndServing(n) PROVE Goal
  <2>1. /\ daemon[n] \in {"written", "serving"} /\ daemon'[n] \in {"ready", "draining"}
        /\ daemon'[n] = "draining" => daemon[n] = "serving"
        /\ \A d \in Process \ {n} : daemon'[d] = daemon[d]
    BY <1>10 DEF InstallHandler, EndServing, Become
  <2>2. UNCHANGED <<call, pidfile, socket>>
    BY <1>10 DEF InstallHandler, EndServing, files
  <2> QED BY <1>a, <2>1, <2>2
          DEF Expected, Named, Targeted, Working, Live, Starting, Unprepared
<1>11. ASSUME NEW n \in Process, Bind(n) PROVE Goal
  <2>1. /\ daemon[n] = "ready" /\ daemon'[n] = "serving"
        /\ \A d \in Process \ {n} : daemon'[d] = daemon[d]
    BY <1>11 DEF Bind, Become
  <2>2. \A d \in Process \ {n} : daemon[d] \notin {"serving", "draining"}
    BY <1>a, <2>1 DEF Named, Working, Live, Starting, Unprepared
  <2> QED BY <1>11, <1>a, <2>1, <2>2
          DEF Bind, Expected, Named, Targeted, Working, Live, Starting, Unprepared
<1>12. ASSUME NEW n \in Process, DaemonStopping(n) PROVE Goal
  <2>1. /\ daemon[n] \in {"written", "ready", "draining"} /\ daemon'[n] = "leaving"
        /\ \A d \in Process \ {n} : daemon'[d] = daemon[d]
    BY <1>12 DEF DaemonStopping, Become
  <2>2. \A d \in Process : ~Working(d)'
    BY <1>a, <2>1 DEF Expected, Named, Working, Live, Starting, Unprepared, Process
  <2> QED BY <2>2 DEF Expected, Named, Targeted, Working, Live, Starting, Unprepared
<1>13. ASSUME NEW n \in Process, Die(n) PROVE Goal
  <2>1. /\ daemon'[n] \in {"zombie", "dead"}
        /\ \A d \in Process \ {n} : daemon'[d] = daemon[d]
    BY <1>13 DEF Die, Become, DeadState
  <2>2. UNCHANGED <<call, pidfile, socket>>
    BY <1>13 DEF Die, files
  <2> QED BY <1>a, <2>1, <2>2
          DEF Expected, Named, Targeted, Working, Live, Starting, Unprepared
<1>14. CASE UNCHANGED vars
  BY <1>14, <1>a DEF vars, files, Expected, Named, Targeted, Working
<1> QED BY <1>1, <1>2, <1>3, <1>4, <1>5, <1>6, <1>7, <1>8, <1>9, <1>10, <1>11, <1>12,
           <1>13, <1>14
        DEF Next, ClientStep, DaemonStep

-----------------------------------------------------------------------------
(* The theorems.                                                           *)

(* What holds of start and stop throughout: whoever works is known.        *)
THEOREM LifecycleInvariant == Spec => []LifecycleInv
<1>1. Init => LifecycleInv
  BY LifecycleAssumption
     DEF Init, Idle, Call, LifecycleInv, LifecycleTypeOK, SignalsHeld, TargetsExist,
         OneCaller, Known, Expected, Named, Targeted, Working, At, DaemonState, Live,
         Starting, Unprepared
<1>2. LifecycleInv /\ [Next]_vars => LifecycleInv'
  BY Typed, CallersKept, KnownKept DEF LifecycleInv
<1> QED BY <1>1, <1>2, PTL DEF Spec

(* Types, and a SIGTERM waits only for a daemon that runs.                 *)
THEOREM LifecycleTypeCorrect == Spec => []LifecycleTypeOK
<1>1. LifecycleInv => LifecycleTypeOK
  BY DEF LifecycleInv
<1> QED BY <1>1, LifecycleInvariant, PTL

(* Calls that do not overlap leave one daemon: it is the one the pid file  *)
(* names, or the one whose start is still waited for.                      *)
THEOREM AlwaysSingleDaemon == Spec => []SingleDaemon
<1>1. LifecycleInv => SingleDaemon
  <2> SUFFICES ASSUME LifecycleInv, serial
               PROVE  Cardinality({d \in Process : daemon[d] \in Live \ {"leaving"}}) <= 1
    BY DEF SingleDaemon
  <2> DEFINE W == {d \in Process : daemon[d] \in Live \ {"leaving"}}
  <2>1. \A d, e \in W : d = e
    <3> SUFFICES ASSUME NEW d \in W, NEW e \in W PROVE d = e
      OBVIOUS
    <3>1. /\ Expected(d) /\ Named(d) /\ Expected(e) /\ Named(e)
          /\ \A b, c \in Client : At(b, "idle") \/ At(c, "idle") \/ b = c
      BY DEF LifecycleInv, Known, OneCaller
    <3> QED BY <3>1, LifecycleAssumption DEF Expected, Named, Working, At, Process
  <2>2. CASE W = {}
    BY <2>2, FS_EmptySet
  <2>3. CASE W # {}
    <3>1. PICK d : W = {d}
      BY <2>1, <2>3
    <3> QED BY <3>1, FS_Singleton
  <2> QED BY <2>2, <2>3
<1> QED BY <1>1, LifecycleInvariant, PTL

(* Calls that do not overlap find the daemon that serves.                  *)
THEOREM ServingAlwaysFound == Spec => []ServingIsFound
<1>1. LifecycleInv => ServingIsFound
  BY DEF LifecycleInv, Known, Named, Working, ServingIsFound, Live
<1> QED BY <1>1, LifecycleInvariant, PTL

(* Whoever else calls what: stop and restart go on when the daemon they    *)
(* found has ended.                                                        *)
THEOREM StopAlwaysEndsDaemon == Spec => StopEndsDaemon
<1> DEFINE Step ==
      \A c \in Client : call[c].pc \in {"term", "await"} /\ call'[c].pc \in {"idle", "fast"} =>
        daemon'[call[c].target] \in {"zombie", "dead"}
<1>1. LifecycleInv /\ [Next]_vars => [Step]_vars
  <2> SUFFICES ASSUME LifecycleInv, [Next]_vars,
                      NEW c \in Client, call[c].pc \in {"term", "await"},
                      call'[c].pc \in {"idle", "fast"}
               PROVE  daemon'[call[c].target] \in {"zombie", "dead"}
    OBVIOUS
  <2> DEFINE d == call[c].target
  <2>1. d \in Process /\ daemon[d] \in DaemonState \ {"none"}
    BY DEF LifecycleInv, LifecycleTypeOK, TargetsExist
  <2>2. CASE /\ ~Found(d) \/ daemon' = [daemon EXCEPT ![d] = DeadState(d)]
             /\ ~Found(d) => UNCHANGED daemon
    BY <2>1, <2>2, LifecycleAssumption
       DEF Found, DeadState, DaemonState, Process, LifecycleInv, LifecycleTypeOK
  <2>3. ASSUME NEW b \in Client, CallSome(b) \/ ClientStep(b) \/ Leave(b)
        PROVE  /\ ~Found(d) \/ daemon' = [daemon EXCEPT ![d] = DeadState(d)]
               /\ ~Found(d) => UNCHANGED daemon
    <3>1. b = c
      BY <2>3, CallerMoves DEF Moves, Others, Leave, LifecycleInv
    <3>2. StopTerm(c) \/ StopAwait(c) \/ StopKill(c)
      BY <2>3, <3>1 DEF CallSome, Begin, ClientStep, StartFast, StartSpawn, StartWatch,
                        StartPoll, StopRead, Status, Leave, At
    <3>3. Goto(c, "await", d) => call'[c].pc = "await"
      BY <2>1, CallMoves DEF LifecycleInv, LifecycleTypeOK
    <3> QED BY <3>2, <3>3 DEF StopTerm, StopAwait, StopKill
  <2>4. ASSUME NEW x \in Process, DaemonStep(x) PROVE UNCHANGED call
    BY <2>4 DEF DaemonStep, WritePid, InstallHandler, Bind, EndServing, DaemonStopping, Die
  <2> QED BY <2>2, <2>3, <2>4 DEF Next, vars
<1> QED BY <1>1, LifecycleInvariant, PTL DEF Spec, StopEndsDaemon
=============================================================================
