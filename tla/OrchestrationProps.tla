------------------------- MODULE OrchestrationProps -------------------------
(***************************************************************************)
(* What a chain, a group and a chord promise.                              *)
(***************************************************************************)
EXTENDS Orchestration

(* Every variable has its type; the pending list of a task is bounded.     *)
OrchestrationTypeOK ==
  /\ plan \in {"chain", "group", "chord"}
  /\ state \in [Item -> ItemState]
  /\ waiting \in [Item -> Nat] /\ built \in [Item -> Nat]
  /\ rec \in Record
  /\ lock \in Actor \cup {None}
  /\ act \in [Actor -> ActorState]
  /\ requeues \in 0..MaxRequeues /\ skipped \in BOOLEAN

(* No step of a chain and no callback of a chord is dispatched twice, even *)
(* when finished tasks are requeued and several completions are handled    *)
(* at the same time.                                                       *)
DispatchedOnce == \A i \in Item : built[i] <= 1

(* Where nobody requeues, a step is dispatched only after the one before   *)
(* it succeeded, and the callback only after every header did.             *)
DependenciesMet ==
  requeues = 0 => \A i \in Item : built[i] > 0 =>
    CASE plan = "chain" -> i > 1 => state[i - 1] = "success"
      [] plan = "chord" -> i = Callback => \A h \in Parts : state[h] = "success"
      [] OTHER          -> TRUE

(* Where nobody requeues, a record never claims an end that the rows do    *)
(* not show: success only if every task it stands for succeeded, failure   *)
(* only if one did not.                                                    *)
RecordTruthful ==
  requeues = 0 =>
    /\ rec.state = "success" => \A i \in Parts : state[i] = "success"
    /\ rec.state \in {"failed", "partial_failed"} => \E i \in Parts : state[i] \in Unhappy

(* A chord that has come to its end keeps it, and its callback id.         *)
ChordEndsOnce ==
  [][plan = "chord" /\ rec.state \in {"success", "partial_failed"} => rec' = rec]_vars

(* A chain all of whose executions end with their hook comes to an end,    *)
(* whatever is requeued meanwhile.                                         *)
ChainSettles == plan = "chain" ~> rec.state \in {"success", "failed"} \/ skipped
=============================================================================
