---------------------------- MODULE DeployGraph ----------------------------
(***************************************************************************)
(* The payload of one deployment batch, and the graph the runner reads     *)
(* from it (internal/runner/schedule.go).                                  *)
(*                                                                         *)
(* A node is one repo instance to deploy.  An instance is named by its     *)
(* position in the payload: seeding gives a batch one node per instance    *)
(* name, so a position and a name say the same thing.  A dependency that   *)
(* is no position of the payload names an instance outside the batch.      *)
(***************************************************************************)
EXTENDS Integers, Sequences, FiniteSets

CONSTANTS Payloads,   \* the batches a run may be given
          Requested,  \* the parallelism a run may be asked for
          Classes,    \* the repo classes
          NoClass     \* the empty repo class name, which excludes nobody

\* A node's dependencies are a list: a name may occur in it twice.
DeploymentNode == [class : Classes \cup {NoClass}, deps : Seq(Int)]

ASSUME PayloadsAssumption == Payloads \subseteq Seq(DeploymentNode)
ASSUME RequestedAssumption == Requested \subseteq Int

\* What is used when no parallelism, or a senseless one, is asked for.
DefaultParallelism == 4

\* Never more workers than nodes, and never none.
Parallelism(requested, n) ==
  LET asked  == IF requested < 1 THEN DefaultParallelism ELSE requested
      capped == IF n > 0 /\ asked > n THEN n ELSE asked
  IN  IF capped < 1 THEN 1 ELSE capped

Indices(payload) == 1 .. Len(payload)

Named(payload, i) == {payload[i].deps[k] : k \in 1 .. Len(payload[i].deps)}

(***************************************************************************)
(* The nodes that i waits for.  A dependency outside the batch is already  *)
(* met; a duplicate or self edge would leave the node waiting for ever.    *)
(***************************************************************************)
Preds(payload, i) == (Named(payload, i) \cap Indices(payload)) \ {i}

\* Two different nodes of one repo class unpack into one shared tree.
Conflict(payload, i, j) ==
  /\ i # j
  /\ payload[i].class = payload[j].class
  /\ payload[i].class # NoClass
=============================================================================
