--------------------------- MODULE LifecycleProps ---------------------------
(***************************************************************************)
(* What start, stop and restart promise.                                   *)
(***************************************************************************)
EXTENDS Lifecycle

(* Every variable has its type, and a SIGTERM waits only for a daemon that *)
(* runs.                                                                   *)
LifecycleTypeOK ==
  /\ serial \in BOOLEAN
  /\ daemon \in [Process -> DaemonState]
  /\ parent \in [Process -> Client \cup {None}]
  /\ term \subseteq {d \in Process : daemon[d] \in Live}
  /\ pidfile \in Process \cup {None} /\ socket \in Process \cup {None}
  /\ call \in [Client -> Call]

(* Where calls do not overlap, a service has one daemon at a time, however *)
(* slow its start, and however it or its predecessors ended.               *)
SingleDaemon ==
  serial => Cardinality({d \in Process : daemon[d] \in Live \ {"leaving"}}) <= 1

(* Where calls do not overlap, a daemon that serves can be found: the pid  *)
(* file names it and the socket is its own.                                *)
ServingIsFound ==
  serial => \A d \in Process : daemon[d] = "serving" => pidfile = d /\ socket = d

(* A stop or restart that found a daemon does not go on before that daemon *)
(* has ended, whoever else calls what meanwhile.                           *)
StopEndsDaemon ==
  [][\A c \in Client : call[c].pc \in {"term", "await"} /\ call'[c].pc \in {"idle", "fast"} =>
       daemon'[call[c].target] \in {"zombie", "dead"}]_vars

(* Every call returns, even if the daemon it deals with hangs.             *)
CallReturns == \A c \in Client : call[c].pc # "idle" ~> call[c].pc = "idle"
=============================================================================
