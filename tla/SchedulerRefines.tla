-------------------------- MODULE SchedulerRefines --------------------------
(***************************************************************************)
(* Runner.Run implements DeployBatch: a node is landed or failed when the  *)
(* scheduling goroutine has taken its completion.                          *)
(***************************************************************************)
EXTENDS Scheduler

batchState ==
  [i \in Index |->
     CASE phase[i] = "waiting" -> "pending"
       [] phase[i] \in {"running", "ran", "reporting"} -> "deploying"
       [] phase[i] = "settled" /\ outcome[i] = "ok" -> "landed"
       [] OTHER -> "failed"]

Batch == INSTANCE DeployBatch WITH state <- batchState

(***************************************************************************)
(* Every run of the scheduler is a run the batch specification allows, and *)
(* every node it starts is eventually landed or failed.                    *)
(***************************************************************************)
ImplementsBatch == Batch!BatchSpec
=============================================================================
