------------------------------- MODULE Apply -------------------------------
(***************************************************************************)
(* `env apply` and `env purge` of one environment (internal/environment/   *)
(* apply.go and purge.go, internal/reconcile): what the user declares, what  *)
(* the deployment graph and the snapshot of the last apply record of it,   *)
(* and what is really deployed.                                            *)
(*                                                                         *)
(* A declaration and a working tree are numbers that grow with every edit; *)
(* a digest tells two of them apart and is the number itself.  How a batch *)
(* is scheduled is module Scheduler's: here its nodes end in any order.    *)
(***************************************************************************)
EXTENDS Integers, FiniteSets

CONSTANTS
  Instances,  \* what the environment declares, the substrate included
  Substrate,  \* the instances of phase A
  Trees,      \* those that deploy from a working tree
  Probed,     \* those whose resources `env start` looks for itself
  MaxEdit,    \* bound: the declarations or trees an instance may have
  Faults      \* a subset of AllFaults

\* A node fails, its status is not recorded, the run is interrupted, seeding
\* fails, the subnet group collides, the database-account service does not
\* answer, the snapshot cannot be written, nsctl dies in an apply; the user
\* purges the environment; nsctl dies in a purge.
AllFaults == {"fail", "status", "cancel", "seed", "collision", "service",
              "snapshot", "crash", "purge", "purge crash"}

ASSUME ApplyAssumption ==
  /\ Substrate \subseteq Instances /\ Trees \subseteq Instances
  /\ Probed \subseteq Substrate
  /\ MaxEdit \in Nat \ {0} /\ Faults \subseteq AllFaults

VARIABLES
  decl,       \* decl[e]: the declaration of e, its version included
  tree,       \* tree[e]: the working tree of e, 0 without one
  graph,      \* graph[e]: the status of e's newest deployment in the graph
  snap,       \* snap[e]: the digests recorded for e, or Nothing
  marker,     \* the purge marker stands
  live,       \* live[e]: what e was deployed from, Nothing when it is not there
  pc,         \* where the command is
  phase,      \* the phase an apply is in
  plan,       \* the plan of the last apply
  todo,       \* the nodes of the running batch that have not ended
  succeeded,  \* run.Succeeded
  failed,     \* the apply has met an error
  retried,    \* phase A was tried again
  ended,      \* how the last apply ended
  untracked,  \* those deployed while the snapshot had nothing of them (history)
  wrecked     \* those a purge destroyed and could not say so (history)

disk == <<decl, tree>>
run  == <<phase, todo, succeeded, failed, retried>>
hist == <<untracked, wrecked>>
vars == <<disk, graph, snap, marker, live, pc, plan, run, ended, hist>>

\* What an instance is deployed from, or recorded to be.
Content(d, t) == [decl |-> d, tree |-> t]
Nothing == Content(0, 0)

NoPlan == [want |-> [e \in Instances |-> Nothing], unchanged |-> {}, deploy |-> {},
           purged |-> FALSE, full |-> FALSE]

Init ==
  /\ decl = [e \in Instances |-> 1]
  /\ tree = [e \in Instances |-> IF e \in Trees THEN 1 ELSE 0]
  /\ graph = [e \in Instances |-> "absent"]
  /\ snap = [e \in Instances |-> Nothing]
  /\ marker = FALSE
  /\ live = [e \in Instances |-> Nothing]
  /\ pc = "idle" /\ phase = "substrate"
  /\ plan = NoPlan
  /\ todo = {} /\ succeeded = {}
  /\ failed = FALSE /\ retried = FALSE
  /\ ended = "no"
  /\ untracked = {} /\ wrecked = {}

-----------------------------------------------------------------------------
(* The plan *)

\* Every entry with its version, and the digest of its tree, as of now.
Desired == [e \in Instances |-> Content(decl[e], tree[e])]

\* Marked for redeployment, besides what `env start` found missing: what a
\* purge left the graph to call deployed.
Stale == {e \in Instances : marker /\ snap[e] = Nothing}

\* reconcile.Compute, and MarkTreesChanged after it.
Additions(marked) == {e \in Instances : graph[e] # "DEPLOYED" \/ e \in marked}
Drifted == {e \in Instances : snap[e] # Nothing /\ snap[e].decl # decl[e]}

\* Mutant: the trees are not looked at.
TreeMovedNever == {}

TreeMoved ==
  {e \in Instances : 0 \notin {snap[e].tree, tree[e]} /\ snap[e].tree # tree[e]}

\* Mutant: what the graph calls failed is left as it is.
ComputedNoRetry(marked) ==
  {e \in Instances : graph[e] = "absent"} \cup marked \cup Drifted \cup TreeMoved

Computed(marked) == Additions(marked) \cup Drifted \cup TreeMoved

\* What is deployed when the plan is not computed, and when it is.
PlanFor(marked, full) ==
  LET deploy == IF full THEN Instances ELSE Computed(marked \cup Stale)
  IN  [want |-> Desired, deploy |-> deploy,
       unchanged |-> IF full THEN {} ELSE Instances \ deploy,
       purged |-> marker, full |-> full]

\* The entries of a phase that a plan deploys.
Batch(p, ph) ==
  IF ph = "substrate" THEN p.deploy \cap Substrate ELSE p.deploy \ Substrate

\* The first phase that has something to deploy; an empty one is skipped.
Begin(marked, full) ==
  /\ pc = "idle"
  /\ marked \subseteq {e \in Probed : live[e] = Nothing}
  /\ plan' = PlanFor(marked, full)
  /\ failed' = FALSE /\ retried' = FALSE /\ succeeded' = {} /\ todo' = {}
  /\ phase' = "substrate"
  /\ untracked' = untracked \cup {e \in Instances : live[e] # Nothing /\ snap[e] = Nothing}
  /\ UNCHANGED <<disk, graph, marker, live, wrecked>>

\* Everything is deployed and current; the digests are recorded anyway.
NothingToDo(marked) ==
  /\ Begin(marked, FALSE)
  /\ plan'.deploy = {}
  /\ snap' = plan'.want
  /\ ended' = "success"
  /\ UNCHANGED pc

\* A run was asked to redeploy everything, cannot read the graph, or has a plan.
StartApply(marked, full) ==
  /\ Begin(marked, full)
  /\ plan'.deploy # {}
  /\ pc' = IF Batch(plan', "substrate") = {} THEN "between" ELSE "seed"
  /\ ended' = "no"
  /\ UNCHANGED snap

-----------------------------------------------------------------------------
(* A phase: seed the batch, then run it *)

Registered(R) ==
  graph' = [e \in Instances |-> IF e \in R THEN "DEPLOY_NEXT" ELSE graph[e]]

\* The batch is registered, and Run begins: it forgets what it ran before.
Seed ==
  /\ pc = "seed"
  /\ Registered(Batch(plan, phase))
  /\ pc' = "run"
  /\ todo' = Batch(plan, phase)
  /\ succeeded' = {}
  /\ UNCHANGED <<disk, snap, marker, live, plan, phase, failed, retried, ended, hist>>

\* A call of the seeding fails, after it registered some of the batch.
SeedFails(R) ==
  /\ "seed" \in Faults
  /\ pc = "seed"
  /\ R \subseteq Batch(plan, phase)
  /\ Registered(R)
  /\ failed' = TRUE
  /\ pc' = "record"
  /\ UNCHANGED <<disk, snap, marker, live, plan, phase, todo, succeeded, retried,
                 ended, hist>>

\* The status of an ended node, recorded or lost.
Reports(e, status) ==
  \/ graph' = [graph EXCEPT ![e] = status]
  \/ "status" \in Faults /\ UNCHANGED graph

Lands(e, ok) == succeeded' = IF ok THEN succeeded \cup {e} ELSE succeeded

(***************************************************************************)
(* One node ends.  It deployed the declaration the plan was made from and  *)
(* the tree it found; or it failed, and left what was there or a wreck.    *)
(* After a failure the nodes in flight still end.                          *)
(***************************************************************************)
NodeEnds(e, ok) ==
  /\ pc = "run" /\ e \in todo
  /\ ~ok => "fail" \in Faults
  /\ todo' = todo \ {e}
  /\ IF ok THEN live' = [live EXCEPT ![e] = Content(plan.want[e].decl, tree[e])]
     ELSE live' \in {live, [live EXCEPT ![e] = Nothing]}
  /\ Reports(e, IF ok THEN "DEPLOYED" ELSE "FAILED")
  /\ Lands(e, ok)
  /\ failed' = (failed \/ ~ok)
  /\ untracked' = IF ok THEN untracked \ {e} ELSE untracked
  /\ wrecked' = IF ok THEN wrecked \ {e} ELSE wrecked
  /\ UNCHANGED <<disk, snap, marker, pc, plan, phase, retried, ended>>

\* Run returns nil: every node landed.
RunSucceeds ==
  /\ pc = "run" /\ todo = {} /\ ~failed
  /\ pc' = IF phase = "substrate" THEN "between" ELSE "record"
  /\ UNCHANGED <<disk, graph, snap, marker, live, plan, run, ended, hist>>

\* Run returns an error: a node failed, or the user interrupted.
RunFails ==
  /\ pc = "run"
  /\ failed \/ "cancel" \in Faults
  /\ failed' = TRUE
  /\ pc' = "record"
  /\ UNCHANGED <<disk, graph, snap, marker, live, plan, phase, todo, succeeded,
                 retried, ended, hist>>

\* Phase A failed on the subnet group nsctl once made itself: it lets go of the
\* group and tries the phase again.
RetryPhase ==
  /\ "collision" \in Faults
  /\ pc = "run" /\ phase = "substrate"
  /\ failed /\ ~retried
  /\ failed' = FALSE /\ retried' = TRUE
  /\ pc' = "seed"
  /\ UNCHANGED <<disk, graph, snap, marker, live, plan, phase, todo, succeeded,
                 ended, hist>>

\* Between the phases: the database-account service is brought up to date.
Between(ok) ==
  /\ pc = "between"
  /\ ~ok => "service" \in Faults
  /\ failed' = ~ok
  /\ phase' = IF ok THEN "declared" ELSE phase
  /\ pc' = IF ok /\ Batch(plan, "declared") # {} THEN "seed" ELSE "record"
  /\ UNCHANGED <<disk, graph, snap, marker, live, plan, todo, succeeded, retried,
                 ended, hist>>

-----------------------------------------------------------------------------
(* The end of an apply *)

\* Mutant: the trees are digested when the run is over.
SettledTreesNow ==
  [e \in Instances |-> IF e \in succeeded \cup plan.unchanged
                       THEN Content(plan.want[e].decl, tree[e]) ELSE Nothing]

\* settled: what this run deployed, and what the plan found current.
Settled ==
  [e \in Instances |-> IF e \in succeeded \cup plan.unchanged
                       THEN plan.want[e] ELSE Nothing]

\* WriteSnapshot replaces the snapshot whole, or fails and is warned about.
Record ==
  /\ pc = "record"
  /\ snap' = Settled \/ ("snapshot" \in Faults /\ UNCHANGED snap)
  /\ pc' = "recorded"
  /\ UNCHANGED <<disk, graph, marker, live, plan, run, ended, hist>>

\* The marker of a purge goes when an apply succeeds.
Return ==
  /\ pc = "recorded"
  /\ pc' = "idle"
  /\ ended' = IF failed THEN "error" ELSE "success"
  /\ marker' = (marker /\ (failed \/ ~plan.purged))
  /\ UNCHANGED <<disk, graph, snap, live, plan, run, hist>>

-----------------------------------------------------------------------------
(* env purge, and then env add under the same name *)

\* The containers, volumes and cluster go, but not the records of the graph.
PurgeDestroys ==
  /\ "purge" \in Faults
  /\ pc = "idle"
  /\ live' = [e \in Instances |-> Nothing]
  /\ pc' = "destroyed"
  /\ ended' = "no"
  /\ untracked' = {}
  /\ UNCHANGED <<disk, graph, snap, marker, plan, run, wrecked>>

MarkPurged ==
  /\ pc = "destroyed"
  /\ marker' = TRUE
  /\ pc' = "marked"
  /\ UNCHANGED <<disk, graph, snap, live, plan, run, ended, hist>>

\* The state directory goes, and the snapshot with it.
RemoveState ==
  /\ pc = "marked"
  /\ snap' = [e \in Instances |-> Nothing]
  /\ pc' = "idle"
  /\ UNCHANGED <<disk, graph, marker, live, plan, run, ended, hist>>

-----------------------------------------------------------------------------
(* The user and the machine *)

\* The user edits the declaration of e, or its working tree, at any time.
EditDeclaration(e) ==
  /\ decl[e] < MaxEdit
  /\ decl' = [decl EXCEPT ![e] = @ + 1]
  /\ UNCHANGED <<tree, graph, snap, marker, live, pc, plan, run, ended, hist>>

EditTree(e) ==
  /\ e \in Trees /\ tree[e] < MaxEdit
  /\ tree' = [tree EXCEPT ![e] = @ + 1]
  /\ UNCHANGED <<decl, graph, snap, marker, live, pc, plan, run, ended, hist>>

\* nsctl dies in the middle of a command.
Crash ==
  /\ \/ pc \in {"seed", "run", "between", "record", "recorded"} /\ "crash" \in Faults
     \/ pc \in {"destroyed", "marked"} /\ "purge crash" \in Faults
  /\ pc' = "idle"
  /\ ended' = "no"
  /\ wrecked' = IF pc \in {"destroyed", "marked"} THEN Instances ELSE wrecked
  /\ UNCHANGED <<disk, graph, snap, marker, live, plan, run, untracked>>

ApplyStep ==
  \/ \E marked \in SUBSET Probed :
       \/ NothingToDo(marked)
       \/ \E full \in BOOLEAN : StartApply(marked, full)
  \/ Seed \/ \E R \in SUBSET Instances : SeedFails(R)
  \/ \E e \in Instances, ok \in BOOLEAN : NodeEnds(e, ok)
  \/ RunSucceeds \/ RunFails \/ RetryPhase
  \/ \E ok \in BOOLEAN : Between(ok)
  \/ Record \/ Return

Purge == PurgeDestroys \/ MarkPurged \/ RemoveState

Edit == \E e \in Instances : EditDeclaration(e) \/ EditTree(e)

Next == ApplyStep \/ Purge \/ Edit \/ Crash

Spec == Init /\ [][Next]_vars

-----------------------------------------------------------------------------
(* Properties *)

\* After an apply that succeeded nothing is missing and nothing is left half
\* deployed: what failed, was interrupted or was purged is deployed again,
\* unless nsctl died in the purge before the purge had left its mark.
NothingMissing ==
  ended = "success" => \A e \in Instances \ wrecked : live[e] # Nothing

IsDeployed(e) ==
  /\ live[e].decl = plan.want[e].decl
  /\ live[e].tree >= plan.want[e].tree

\* After an apply that succeeded what is there was deployed from what was
\* declared when the apply began, and from a tree at least as new ("everything
\* declared is already deployed and current", apply.go).
AppliedIsDeployed ==
  ended = "success" =>
    \A e \in Instances : live[e] # Nothing => IsDeployed(e)

\* And so it is wherever the snapshot has a digest to compare with: only an
\* instance deployed while the snapshot had none may be left behind.
TrackedIsDeployed ==
  ended = "success" =>
    \A e \in Instances \ untracked : live[e] # Nothing => IsDeployed(e)

\* No digest is recorded of a declaration or tree newer than what was deployed:
\* an edit made while an apply runs is drift for the next one.  The exception
\* is the same.
NothingRecordedAhead ==
  \A e \in Instances \ untracked :
    live[e] # Nothing =>
      snap[e].decl <= live[e].decl /\ snap[e].tree <= live[e].tree
-----------------------------------------------------------------------------
(* The inductive invariant behind NothingMissing, TrackedIsDeployed and      *)
(* NothingRecordedAhead.                                                     *)

Contents == [decl : Nat, tree : Nat]

TypeOK ==
  /\ decl \in [Instances -> Nat \ {0}] /\ tree \in [Instances -> Nat]
  /\ graph \in [Instances -> {"absent", "DEPLOY_NEXT", "DEPLOYED", "FAILED"}]
  /\ snap \in [Instances -> Contents] /\ live \in [Instances -> Contents]
  /\ plan \in [want : [Instances -> Contents], unchanged : SUBSET Instances,
               deploy : SUBSET Instances, purged : BOOLEAN, full : BOOLEAN]
  /\ pc \in {"idle", "seed", "run", "between", "record", "recorded", "destroyed", "marked"}
  /\ phase \in {"substrate", "declared"} /\ ended \in {"no", "error", "success"}
  /\ todo \subseteq Instances /\ succeeded \subseteq Instances
  /\ untracked \subseteq Instances /\ wrecked \subseteq Instances
  /\ marker \in BOOLEAN /\ failed \in BOOLEAN /\ retried \in BOOLEAN

\* c is nothing, or was e's declaration and tree at some time.
WasContent(e, c) ==
  \/ c = Nothing
  \/ /\ c.decl \in 1 .. decl[e] /\ c.tree \in 0 .. tree[e]
     /\ e \in Trees <=> c.tree # 0

PastContents ==
  \A e \in Instances :
    /\ e \in Trees <=> tree[e] # 0
    /\ WasContent(e, live[e]) /\ WasContent(e, snap[e]) /\ WasContent(e, plan.want[e])

Applying == pc \in {"seed", "run", "between", "record", "recorded"}

\* What an apply works with is newer than what was recorded before it.
PlanIsNewer ==
  Applying =>
    /\ plan.deploy \cup plan.unchanged = Instances
    /\ plan.deploy \cap plan.unchanged = {}
    /\ \A e \in Instances :
         /\ plan.want[e] # Nothing
         /\ snap[e].decl <= plan.want[e].decl /\ snap[e].tree <= plan.want[e].tree

\* Nothing of e is missing, and what is there is what the plan wants; the
\* exceptions are those of the properties.
IsCurrent(e) ==
  /\ e \notin wrecked => live[e] # Nothing
  /\ e \notin untracked /\ live[e] # Nothing => IsDeployed(e)

\* What the plan passes over is there, and so is what an apply has deployed.
Progress ==
  /\ Applying =>
       /\ \A e \in plan.unchanged : IsCurrent(e)
       /\ \A e \in succeeded : IsDeployed(e)
       /\ pc = "between" \/ phase = "declared"
            => \A e \in Batch(plan, "substrate") : IsDeployed(e)
  /\ pc = "run" =>
       /\ todo \subseteq Batch(plan, phase) \ succeeded
       /\ \A e \in todo : graph[e] = "DEPLOY_NEXT"
       /\ ~failed => \A e \in Batch(plan, phase) \ todo : IsDeployed(e)
  /\ pc \in {"record", "recorded"} /\ ~failed => \A e \in plan.deploy : IsDeployed(e)

\* What the graph calls deployed is there, unless the marker of a purge says
\* that the graph is not to be believed.
GraphIsTrue ==
  /\ pc = "marked" => marker
  /\ pc \notin {"destroyed", "marked"} =>
       \A e \in Instances \ wrecked :
         graph[e] = "DEPLOYED" /\ ~(marker /\ snap[e] = Nothing) => live[e] # Nothing

EndedTrue ==
  /\ pc # "idle" => ended = "no"
  /\ ended = "success" => \A e \in Instances : IsCurrent(e)

IInv ==
  /\ TypeOK
  /\ PastContents
  /\ PlanIsNewer
  /\ Progress
  /\ GraphIsTrue
  /\ NothingRecordedAhead
  /\ EndedTrue
=============================================================================
