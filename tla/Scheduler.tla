----------------------------- MODULE Scheduler -----------------------------
(***************************************************************************)
(* Runner.Run: the goroutine that dispatches a batch over its dependency   *)
(* graph, and one worker goroutine per node in flight                      *)
(* (internal/runner/schedule.go).                                          *)
(*                                                                         *)
(* The ready list is kept as the set of its members and the round in which *)
(* each was appended: a round appends its nodes in payload order, so round *)
(* and position together give back the list.                               *)
(***************************************************************************)
EXTENDS DeployGraph

VARIABLES
  nodes,      \* the payload Run was called with
  limit,      \* how many nodes may be in flight
  unmet,      \* unmet[i]: dependencies of i still to land
  ready,      \* the nodes with nothing left to wait for, not yet dispatched
  since,      \* since[i]: how many nodes had landed when i became ready
  busy,       \* the repo classes being deployed
  phase,      \* phase[i]: where node i is between payload and verdict
  outcome,    \* outcome[i]: what RunNode returned for i
  status,     \* status[i]: the status the deployment graph records for i
  succeeded,  \* the landed nodes, in landing order
  failure,    \* the first node that failed, 0 while none has
  stopped,    \* why dispatch stopped
  cancelled,  \* the context was cancelled
  pc,         \* what the scheduling goroutine is doing
  verdict     \* what Run returned

sched  == <<unmet, ready, since, busy>>
result == <<succeeded, failure, verdict>>
vars   == <<nodes, limit, sched, phase, outcome, status, result, stopped,
            cancelled, pc>>

Phases   == {"waiting", "running", "ran", "reporting", "settled"}
Outcomes == {"none", "ok", "failed"}
Statuses == {"DEPLOY_NEXT", "DEPLOYED", "FAILED"}
Verdicts == {"none", "nil", "cycle", "failed", "interrupted"}

Index    == Indices(nodes)
InFlight == {i \in Index : phase[i] \in {"running", "ran", "reporting"}}
Started  == {i \in Index : phase[i] # "waiting"}
Landed   == {i \in Index : phase[i] = "settled" /\ outcome[i] = "ok"}

-----------------------------------------------------------------------------

\* Mutant: counts a duplicate, a self and an outside edge.
UnmetOfAllEdges(payload) == [i \in Indices(payload) |-> Len(payload[i].deps)]

UnmetOf(payload) ==
  [i \in Indices(payload) |-> Cardinality(Preds(payload, i))]

NewSchedule(payload) ==
  /\ unmet = UnmetOf(payload)
  /\ ready = {i \in Indices(payload) : unmet[i] = 0}
  /\ since = [i \in Indices(payload) |-> 0]
  /\ busy = {}

Init ==
  /\ nodes \in Payloads
  /\ \E requested \in Requested : limit = Parallelism(requested, Len(nodes))
  /\ NewSchedule(nodes)
  /\ phase = [i \in Index |-> "waiting"]
  /\ outcome = [i \in Index |-> "none"]
  /\ status = [i \in Index |-> "DEPLOY_NEXT"]
  /\ succeeded = <<>>
  /\ failure = 0
  /\ stopped = "no"
  /\ cancelled = FALSE
  /\ pc = "dispatch"
  /\ verdict = "none"

-----------------------------------------------------------------------------

\* Mutant: does not ask whether the class is busy.
TakableBusy == ready

\* Ready nodes whose class nobody is deploying: busy ones are skipped.
Takable == {i \in ready : nodes[i].class \notin busy}

Before(i, j) == since[i] < since[j] \/ (since[i] = since[j] /\ i < j)

\* take's choice: the first of the ready list that is not skipped.
First(i) == i \in Takable /\ \A j \in Takable \ {i} : Before(i, j)

\* Mutant: goes on dispatching after a failure.
MayDispatchStopped == Cardinality(InFlight) < limit

MayDispatch == stopped = "no" /\ Cardinality(InFlight) < limit

\* The classes i keeps others of while it deploys.
Occupies(i) == {nodes[i].class} \ {NoClass}

\* Take the next node and start its worker.
Dispatch(i) ==
  /\ pc = "dispatch"
  /\ MayDispatch
  /\ ~cancelled
  /\ First(i)
  /\ ready' = ready \ {i}
  /\ busy' = busy \cup Occupies(i)
  /\ phase' = [phase EXCEPT ![i] = "running"]
  /\ UNCHANGED <<nodes, limit, unmet, since, outcome, status, result, stopped,
                 cancelled, pc>>

\* The loop sees the cancelled context before it takes another node.
NoticeCancel ==
  /\ pc = "dispatch"
  /\ MayDispatch
  /\ cancelled
  /\ stopped' = "interrupted"
  /\ UNCHANGED <<nodes, limit, sched, phase, outcome, status, result,
                 cancelled, pc>>

\* There is nothing to dispatch now.
DispatchEnds ==
  /\ pc = "dispatch"
  /\ ~MayDispatch \/ (~cancelled /\ Takable = {})

\* Wait for a worker while one is in flight.
Wait ==
  /\ DispatchEnds
  /\ InFlight # {}
  /\ pc' = "receive"
  /\ UNCHANGED <<nodes, limit, sched, phase, outcome, status, result, stopped,
                 cancelled>>

VerdictNow ==
  CASE failure # 0 -> "failed"
    [] failure = 0 /\ stopped # "no" -> "interrupted"
    [] failure = 0 /\ stopped = "no" /\ Started # Index -> "cycle"
    [] OTHER -> "nil"

\* Nothing in flight and nothing dispatchable: the run is over.
Return ==
  /\ DispatchEnds
  /\ InFlight = {}
  /\ pc' = "returned"
  /\ verdict' = VerdictNow
  /\ UNCHANGED <<nodes, limit, sched, phase, outcome, status, succeeded,
                 failure, stopped, cancelled>>

\* Mutant: queues a node as soon as any of its dependencies lands.
FreedByAny(i) == {j \in Index : i \in Preds(nodes, j)}

\* The nodes whose last unmet dependency is i.
Freed(i) == {j \in Index : i \in Preds(nodes, j) /\ unmet[j] = 1}

\* release: the nodes waiting on i wait on one fewer.
Release(i) ==
  /\ unmet' = [j \in Index |->
                 IF i \in Preds(nodes, j) THEN unmet[j] - 1 ELSE unmet[j]]
  /\ ready' = ready \cup Freed(i)
  /\ since' = [j \in Index |->
                 IF j \in Freed(i) THEN Len(succeeded) + 1 ELSE since[j]]

\* Mutant: the class stays busy.
FinishKeepsBusy(i) == UNCHANGED busy

\* finish: a node that is over frees its class, whether it landed or failed.
Finish(i) == busy' = busy \ {nodes[i].class}

\* Mutant: a success after the run was stopped is not counted.
SucceedsUnlessStopped(i) ==
  /\ outcome[i] = "ok"
  /\ succeeded' = IF stopped = "no" THEN Append(succeeded, i) ELSE succeeded
  /\ Release(i)
  /\ UNCHANGED <<failure, stopped>>

Succeeds(i) ==
  /\ outcome[i] = "ok"
  /\ succeeded' = Append(succeeded, i)
  /\ Release(i)
  /\ UNCHANGED <<failure, stopped>>

\* Mutant: a failure is recorded but does not stop the run.
FailsQuietly(i) ==
  /\ outcome[i] = "failed"
  /\ failure' = IF failure = 0 THEN i ELSE failure
  /\ UNCHANGED <<stopped, unmet, ready, since, succeeded>>

\* Only the first failure stops the run and is the one reported.
Fails(i) ==
  /\ outcome[i] = "failed"
  /\ failure' = IF failure = 0 THEN i ELSE failure
  /\ stopped' = IF failure = 0 THEN "failed" ELSE stopped
  /\ UNCHANGED <<unmet, ready, since, succeeded>>

\* The scheduling goroutine takes worker i's completion off the channel.
Receive(i) ==
  /\ pc = "receive"
  /\ phase[i] = "reporting"
  /\ phase' = [phase EXCEPT ![i] = "settled"]
  /\ Finish(i)
  /\ Succeeds(i) \/ Fails(i)
  /\ pc' = "dispatch"
  /\ UNCHANGED <<nodes, limit, outcome, status, cancelled, verdict>>

-----------------------------------------------------------------------------

\* Worker i: the deploy ran, and succeeded or failed.
RunNode(i) ==
  /\ phase[i] = "running"
  /\ phase' = [phase EXCEPT ![i] = "ran"]
  /\ \E o \in {"ok", "failed"} : outcome' = [outcome EXCEPT ![i] = o]
  /\ UNCHANGED <<nodes, limit, sched, status, result, stopped, cancelled, pc>>

StatusFor(o) == IF o = "ok" THEN "DEPLOYED" ELSE "FAILED"

\* Mutant: a worker that finds the context cancelled never reports.
SetNodeStatusOrQuit(i) ==
  /\ phase[i] = "ran"
  /\ ~cancelled
  /\ phase' = [phase EXCEPT ![i] = "reporting"]
  /\ status' = [status EXCEPT ![i] = StatusFor(outcome[i])]
  /\ UNCHANGED <<nodes, limit, sched, outcome, result, stopped, cancelled, pc>>

(***************************************************************************)
(* Worker i records its status, best effort: the call may not land, and    *)
(* after the context is cancelled it never does.                           *)
(***************************************************************************)
SetNodeStatus(i) ==
  /\ phase[i] = "ran"
  /\ phase' = [phase EXCEPT ![i] = "reporting"]
  /\ \/ UNCHANGED status
     \/ /\ ~cancelled
        /\ status' = [status EXCEPT ![i] = StatusFor(outcome[i])]
  /\ UNCHANGED <<nodes, limit, sched, outcome, result, stopped, cancelled, pc>>

Worker(i) == RunNode(i) \/ SetNodeStatus(i)

\* The user interrupts the command while Run is running.
Cancel ==
  /\ pc # "returned"
  /\ ~cancelled
  /\ cancelled' = TRUE
  /\ UNCHANGED <<nodes, limit, sched, phase, outcome, status, result, stopped,
                 pc>>

Loop ==
  \/ \E i \in Index : Dispatch(i) \/ Receive(i)
  \/ NoticeCancel
  \/ Wait
  \/ Return

\* Run is over.
Returned == pc = "returned" /\ UNCHANGED vars

Next ==
  \/ Loop
  \/ \E i \in Index : Worker(i)
  \/ Cancel
  \/ Returned

Spec == Init /\ [][Next]_vars

(***************************************************************************)
(* The scheduling goroutine always runs on, and a deploy ends sooner or    *)
(* later: the status call has a budget of 30 seconds, and the container a  *)
(* node runs in is taken to exit.  Nothing makes the user interrupt.       *)
(***************************************************************************)
Positions == UNION {Indices(payload) : payload \in Payloads}

Fairness ==
  /\ WF_vars(Loop)
  /\ \A i \in Positions : WF_vars(i \in Index /\ Worker(i))

FairSpec == Spec /\ Fairness

-----------------------------------------------------------------------------
(***************************************************************************)
(* Properties                                                              *)
(***************************************************************************)

\* Every variable has its type, the ready list names nodes of the payload and the
\* classes in use are named ones.
TypeOK ==
  /\ nodes \in Payloads
  /\ limit \in Nat \ {0}
  /\ unmet \in [Index -> Int]
  /\ ready \subseteq Index
  /\ since \in [Index -> Nat]
  /\ busy \subseteq Classes
  /\ phase \in [Index -> Phases]
  /\ outcome \in [Index -> Outcomes]
  /\ status \in [Index -> Statuses]
  /\ succeeded \in Seq(Index)
  /\ failure \in Index \cup {0}
  /\ stopped \in {"no", "interrupted", "failed"}
  /\ cancelled \in BOOLEAN
  /\ pc \in {"dispatch", "receive", "returned"}
  /\ verdict \in Verdicts

(***************************************************************************)
(* A node is dispatched only when everything it depends on in the batch    *)
(* has been deployed and reported successful.                              *)
(***************************************************************************)
DependencyOrder == \A i \in Started : Preds(nodes, i) \subseteq Landed

(***************************************************************************)
(* Two instances of one repo class never deploy at once: they would race   *)
(* the unpack of the class's shared tree (schedule.go, type schedule).     *)
(***************************************************************************)
ClassExclusion == \A i, j \in InFlight : ~Conflict(nodes, i, j)

(***************************************************************************)
(* No more nodes are in flight than the parallelism allows, and a          *)
(* parallelism of one runs the batch one node at a time.                   *)
(***************************************************************************)
WithinLimit == Cardinality(InFlight) <= limit

(***************************************************************************)
(* The inductive invariant behind the properties here.                     *)
(***************************************************************************)

\* The in-degree map counts the dependencies that have not landed.
UnmetCounts ==
  \A i \in Index : unmet[i] = Cardinality(Preds(nodes, i) \ Landed)

\* What is ready or started has no dependency left to wait for.
Ripe ==
  /\ \A i \in ready : phase[i] = "waiting" /\ unmet[i] = 0
  /\ \A i \in Started : unmet[i] = 0

\* A class is busy exactly while one of its nodes is in flight.
BusyIsHeld == busy = {nodes[i].class : i \in InFlight} \ {NoClass}

\* A node has an outcome exactly when its deploy has run.
OutcomeKnown ==
  \A i \in Index : outcome[i] = "none" <=> phase[i] \in {"waiting", "running"}

\* The first failed completion stopped the run, an interrupted one included.
FailureStops ==
  /\ failure # 0 <=> stopped = "failed"
  /\ \A i \in Index :
       phase[i] = "settled" /\ outcome[i] = "failed" => failure # 0

SchedInv ==
  /\ TypeOK
  /\ UnmetCounts
  /\ Ripe
  /\ BusyIsHeld
  /\ ClassExclusion
  /\ WithinLimit
  /\ OutcomeKnown
  /\ FailureStops

(* What stands behind SucceededIsExact and VerdictIsTrue, beside that. *)

\* Whatever waits for nothing any more is in the ready list.
ReadyIsAll == \A i \in Index : phase[i] = "waiting" /\ unmet[i] = 0 => i \in ready

\* Succeeded lists what landed, each node once and after all it depends on.
LandingOrder ==
  /\ {succeeded[k] : k \in DOMAIN succeeded} = Landed
  /\ Len(succeeded) = Cardinality(Landed)
  /\ \A k \in DOMAIN succeeded :
       Preds(nodes, succeeded[k]) \subseteq {succeeded[m] : m \in 1 .. k - 1}

\* The statuses and the reported failure say what the deploys did.
Recorded ==
  /\ \A i \in Index : status[i] = "DEPLOYED" => outcome[i] = "ok"
  /\ failure # 0 => phase[failure] = "settled" /\ outcome[failure] = "failed"
  /\ stopped = "interrupted" => cancelled

\* Once Run has returned nothing moves, and nothing it should have started is left.
Over ==
  IF pc = "returned"
  THEN /\ InFlight = {}
       /\ verdict = VerdictNow
       /\ stopped = "no" => ready = {}
  ELSE verdict = "none"

ResultInv == ReadyIsAll /\ LandingOrder /\ Recorded /\ Over

IInv == SchedInv /\ ResultInv

(***************************************************************************)
(* When Run returns, Succeeded names exactly the nodes that deployed, each *)
(* once: one that landed after another failed counts, and nothing is       *)
(* still in flight.  A status of DEPLOYED never says more than Succeeded.  *)
(***************************************************************************)
SucceededIsExact ==
  pc = "returned" =>
    /\ InFlight = {}
    /\ {succeeded[k] : k \in DOMAIN succeeded}
         = {i \in Index : outcome[i] = "ok"}
    /\ Len(succeeded) = Cardinality(Landed)
    /\ \A i \in Index : status[i] = "DEPLOYED" => i \in Landed

\* No set of nodes in which each waits for another of them.
Acyclic ==
  \A S \in (SUBSET Index) \ {{}} : \E i \in S : Preds(nodes, i) \cap S = {}

(***************************************************************************)
(* What Run returns is true: success means every node landed, a cycle is   *)
(* reported when there is one and nothing else went wrong, and the nodes   *)
(* it lists as blocked are those that were never started.                  *)
(***************************************************************************)
Blocked == {i \in Index : unmet[i] > 0}

VerdictIsTrue ==
  /\ verdict = "nil" => Landed = Index /\ Acyclic
  /\ verdict = "cycle" => ~Acyclic /\ Blocked = Index \ Started
  /\ verdict = "failed" => outcome[failure] = "failed"
  /\ verdict = "interrupted" => cancelled /\ failure = 0

(***************************************************************************)
(* After a failure or an interruption no further node is dispatched, and   *)
(* the first failure stays the one reported.                               *)
(***************************************************************************)
FailFast ==
  [][stopped # "no" => /\ Started' = Started
                       /\ failure # 0 => failure' = failure]_vars

(***************************************************************************)
(* Run always returns, whatever the graph, the failures and the            *)
(* interruption: no class stays busy and no worker is left unheard.        *)
(***************************************************************************)
Termination == <>(pc = "returned")
=============================================================================
