---------------------------- MODULE DeployBatch ----------------------------
(***************************************************************************)
(* What deploying a batch promises, whatever schedules it: a node starts   *)
(* once, after all it depends on has landed, never beside a node of its    *)
(* class nor beyond the limit, and never after a failure.                  *)
(***************************************************************************)
EXTENDS DeployGraph

VARIABLES
  nodes,   \* the batch
  limit,   \* how many may deploy at once
  state    \* state[i]: "pending", "deploying", "landed" or "failed"

batchVars == <<nodes, limit, state>>

In(s) == {i \in Indices(nodes) : state[i] = s}

BatchInit ==
  /\ nodes \in Payloads
  /\ limit \in Nat \ {0}
  /\ state = [i \in Indices(nodes) |-> "pending"]

Start(i) ==
  /\ state[i] = "pending"
  /\ In("failed") = {}
  /\ Preds(nodes, i) \subseteq In("landed")
  /\ \A j \in In("deploying") : ~Conflict(nodes, i, j)
  /\ Cardinality(In("deploying")) < limit
  /\ state' = [state EXCEPT ![i] = "deploying"]
  /\ UNCHANGED <<nodes, limit>>

End(i) ==
  /\ state[i] = "deploying"
  /\ \E s \in {"landed", "failed"} : state' = [state EXCEPT ![i] = s]
  /\ UNCHANGED <<nodes, limit>>

BatchNext == \E i \in Indices(nodes) : Start(i) \/ End(i)

BatchPositions == UNION {Indices(payload) : payload \in Payloads}

(***************************************************************************)
(* Whatever was started ends.  Nothing has to be started: the user may     *)
(* interrupt, and a cyclic batch never gets far.                           *)
(***************************************************************************)
BatchSpec ==
  /\ BatchInit
  /\ [][BatchNext]_batchVars
  /\ \A i \in BatchPositions : WF_batchVars(i \in Indices(nodes) /\ End(i))
=============================================================================
