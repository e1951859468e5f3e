---------------------------- MODULE ApplyProofs ----------------------------
(***************************************************************************)
(* What an apply that succeeded has left behind, for every environment,    *)
(* every edit made meanwhile and every fault of Apply.                     *)
(***************************************************************************)
EXTENDS Apply, TLAPS

-----------------------------------------------------------------------------
(* The plan *)

\* What is there was deployed from what was declared at some time; edits
\* only add to what was.
LEMMA EditsKeepPast ==
  ASSUME TypeOK, NEW e \in Instances, NEW c \in Contents, WasContent(e, c),
         decl' \in [Instances -> Nat], tree' \in [Instances -> Nat],
         decl[e] <= decl'[e], tree[e] <= tree'[e]
  PROVE  WasContent(e, c)'
<1>1. decl[e] \in Nat /\ decl'[e] \in Nat /\ tree[e] \in Nat /\ tree'[e] \in Nat
      /\ c.decl \in Nat /\ c.tree \in Nat
  BY DEF TypeOK, Contents
<1> QED
  BY <1>1 DEF WasContent

\* A content is nothing, or both its numbers are known to be numbers.
LEMMA ContentParts ==
  ASSUME NEW c \in Contents
  PROVE  /\ c.decl \in Nat /\ c.tree \in Nat
         /\ c = Nothing <=> c.decl = 0 /\ c.tree = 0
BY DEF Contents, Nothing, Content

(***************************************************************************)
(* A sound plan: everything wanted is as declared at some time, deployed   *)
(* or passed over, and what is passed over is current.                     *)
(***************************************************************************)
SoundPlan(p) ==
  /\ p \in [want : [Instances -> Contents], unchanged : SUBSET Instances,
            deploy : SUBSET Instances, purged : BOOLEAN, full : BOOLEAN]
  /\ p.deploy \cup p.unchanged = Instances
  /\ p.deploy \cap p.unchanged = {}
  /\ \A e \in Instances :
       /\ p.want[e] # Nothing /\ WasContent(e, p.want[e])
       /\ snap[e].decl <= p.want[e].decl /\ snap[e].tree <= p.want[e].tree
  /\ \A e \in p.unchanged :
       /\ e \notin wrecked => live[e] # Nothing
       /\ live[e] # Nothing /\ snap[e] # Nothing /\ e \notin untracked
            => live[e].decl = p.want[e].decl /\ live[e].tree >= p.want[e].tree

\* Every plan that an apply makes is sound.
LEMMA PlanIsSound ==
  ASSUME IInv, pc = "idle", NEW marked \in SUBSET Instances, NEW full \in BOOLEAN
  PROVE  SoundPlan(PlanFor(marked, full))
<1> DEFINE p == PlanFor(marked, full)
<1> USE DEF IInv
<1>0. /\ decl \in [Instances -> Nat \ {0}] /\ tree \in [Instances -> Nat]
      /\ snap \in [Instances -> Contents] /\ live \in [Instances -> Contents]
      /\ marker \in BOOLEAN
  BY DEF TypeOK
<1>1. /\ p.want = Desired /\ p.purged = marker /\ p.full = full
      /\ p.deploy = IF full THEN Instances ELSE Computed(marked \cup Stale)
      /\ p.unchanged = IF full THEN {} ELSE Instances \ p.deploy
      /\ p = [want |-> p.want, unchanged |-> p.unchanged, deploy |-> p.deploy,
              purged |-> p.purged, full |-> p.full]
  BY DEF PlanFor
<1>2. Computed(marked \cup Stale) \subseteq Instances
  BY DEF Computed, Additions, Drifted, TreeMoved
<1>3. Desired \in [Instances -> Contents]
      /\ \A e \in Instances : Desired[e].decl = decl[e] /\ Desired[e].tree = tree[e]
  BY <1>0 DEF Desired, Content, Contents
<1>4. ASSUME NEW e \in Instances
      PROVE  /\ Desired[e] # Nothing /\ WasContent(e, Desired[e])
             /\ snap[e].decl <= decl[e] /\ snap[e].tree <= tree[e]
  <2>1. Desired[e].decl \in Nat \ {0} /\ Desired[e].tree \in Nat
        /\ Desired[e].decl = decl[e] /\ Desired[e].tree = tree[e]
    BY <1>0, <1>3
  <2>2. WasContent(e, snap[e]) /\ (e \in Trees <=> tree[e] # 0)
    BY DEF PastContents
  <2>3. snap[e].decl <= decl[e] /\ snap[e].tree <= tree[e]
    <3>1. snap[e] \in Contents /\ decl[e] \in Nat /\ tree[e] \in Nat
      BY <1>0
    <3>2. CASE snap[e] = Nothing
      BY <3>1, <3>2, ContentParts
    <3>3. CASE snap[e] # Nothing
      BY <2>2, <3>1, <3>3, ContentParts DEF WasContent
    <3> QED
      BY <3>2, <3>3
  <2>4. Desired[e] # Nothing
    BY <1>3, <2>1, ContentParts
  <2>5. WasContent(e, Desired[e])
    BY <2>1, <2>2 DEF WasContent
  <2> QED
    BY <2>3, <2>4, <2>5
<1>5. ASSUME NEW e \in p.unchanged
      PROVE  /\ e \notin wrecked => live[e] # Nothing
             /\ live[e] # Nothing /\ snap[e] # Nothing /\ e \notin untracked
                  => live[e].decl = decl[e] /\ live[e].tree >= tree[e]
  <2>1. e \in Instances /\ graph[e] = "DEPLOYED" /\ e \notin Stale
        /\ e \notin Drifted /\ e \notin TreeMoved
    BY <1>1, <1>5 DEF Computed, Additions
  <2>2. e \notin wrecked => live[e] # Nothing
    BY <2>1 DEF GraphIsTrue, Stale
  <2>3. ASSUME live[e] # Nothing, snap[e] # Nothing, e \notin untracked
        PROVE  live[e].decl = decl[e] /\ live[e].tree >= tree[e]
    <3>1. snap[e].decl = decl[e] /\ (snap[e].tree = 0 \/ tree[e] = 0 \/ snap[e].tree = tree[e])
      BY <2>1, <2>3 DEF Drifted, TreeMoved
    <3>2. snap[e].decl <= live[e].decl /\ snap[e].tree <= live[e].tree
      BY <2>1, <2>3 DEF NothingRecordedAhead
    <3>3. /\ WasContent(e, live[e]) /\ WasContent(e, snap[e])
          /\ e \in Trees <=> tree[e] # 0
      BY <2>1 DEF PastContents
    <3>4. live[e].decl <= decl[e] /\ (snap[e].tree = 0 <=> tree[e] = 0)
      BY <2>3, <3>3 DEF WasContent
    <3>5. /\ live[e].decl \in Nat /\ live[e].tree \in Nat /\ snap[e].tree \in Nat
          /\ decl[e] \in Nat /\ tree[e] \in Nat
      BY <1>0, <2>1, ContentParts
    <3> QED
      BY <3>1, <3>2, <3>4, <3>5
  <2> QED
    BY <2>2, <2>3
<1>6. p.deploy \cup p.unchanged = Instances /\ p.deploy \cap p.unchanged = {}
      /\ p.deploy \subseteq Instances /\ p.unchanged \subseteq Instances
  BY <1>1, <1>2
<1>7. p \in [want : [Instances -> Contents], unchanged : SUBSET Instances,
             deploy : SUBSET Instances, purged : BOOLEAN, full : BOOLEAN]
  BY <1>0, <1>1, <1>3, <1>6
<1>8. SoundPlan(p)
  <2> HIDE DEF p
  <2> QED
    BY <1>1, <1>3, <1>4, <1>5, <1>6, <1>7 DEF SoundPlan
<1> QED
  BY <1>8
-----------------------------------------------------------------------------
(* The steps of an apply *)

\* What stays as it is keeps what is said of contents.
LEMMA SameContents ==
  ASSUME PastContents, UNCHANGED <<decl, tree, live, snap, plan>>
  PROVE  PastContents'
BY DEF PastContents, WasContent

\* What stays as it is stays current.
LEMMA SameCurrent ==
  ASSUME UNCHANGED <<live, plan, hist>>, NEW e
  PROVE  /\ IsCurrent(e)' <=> IsCurrent(e)
         /\ IsDeployed(e)' <=> IsDeployed(e)
BY DEF IsCurrent, IsDeployed, hist

\* An apply begins with a sound plan, or with nothing to do.
LEMMA BeginIInv ==
  ASSUME IInv, NEW marked \in SUBSET Probed, NEW full \in BOOLEAN,
         NothingToDo(marked) \/ StartApply(marked, full)
  PROVE  IInv'
<1>1. marked \in SUBSET Instances
  BY ApplyAssumption
<1>2. PICK f \in BOOLEAN : Begin(marked, f)
  BY DEF NothingToDo, StartApply
<1>3. /\ pc = "idle" /\ plan' = PlanFor(marked, f)
      /\ failed' = FALSE /\ succeeded' = {} /\ todo' = {} /\ phase' = "substrate"
      /\ retried' = FALSE
      /\ untracked' = untracked \cup {e \in Instances : live[e] # Nothing /\ snap[e] = Nothing}
      /\ UNCHANGED <<decl, tree, graph, marker, live, wrecked>>
  BY <1>2 DEF Begin, disk
<1>4. /\ plan' \in [want : [Instances -> Contents], unchanged : SUBSET Instances,
                    deploy : SUBSET Instances, purged : BOOLEAN, full : BOOLEAN]
      /\ plan'.deploy \cup plan'.unchanged = Instances
      /\ plan'.deploy \cap plan'.unchanged = {}
      /\ \A e \in Instances :
           /\ plan'.want[e] # Nothing /\ WasContent(e, plan'.want[e])
           /\ snap[e].decl <= plan'.want[e].decl /\ snap[e].tree <= plan'.want[e].tree
      /\ \A e \in plan'.unchanged :
           /\ e \notin wrecked => live[e] # Nothing
           /\ live[e] # Nothing /\ snap[e] # Nothing /\ e \notin untracked
                => live[e].decl = plan'.want[e].decl /\ live[e].tree >= plan'.want[e].tree
  <2>1. SoundPlan(PlanFor(marked, f))
    BY <1>1, <1>3, PlanIsSound
  <2> QED
    BY <1>3, <2>1 DEF SoundPlan
<1>5. \A e \in plan'.unchanged : IsCurrent(e)'
  <2> SUFFICES ASSUME NEW e \in plan'.unchanged PROVE IsCurrent(e)'
    OBVIOUS
  <2>1. e \in Instances
    BY <1>4
  <2> QED
    BY <1>3, <1>4, <2>1 DEF IsCurrent, IsDeployed
<1>6. CASE NothingToDo(marked)
  <2>1. plan'.deploy = {} /\ snap' = plan'.want /\ ended' = "success" /\ pc' = "idle"
    BY <1>3, <1>6 DEF NothingToDo
  <2>2. TypeOK'
    BY <1>3, <1>4, <2>1 DEF IInv, TypeOK
  <2>3. PastContents'
    BY <1>3, <1>4, <2>1 DEF IInv, PastContents, WasContent
  <2>4. PlanIsNewer' /\ Progress'
    BY <2>1 DEF PlanIsNewer, Progress, Applying
  <2>5. \A e \in Instances : IsCurrent(e)'
    BY <1>4, <1>5, <2>1
  <2>6. GraphIsTrue'
    BY <1>3, <2>1, <2>5 DEF GraphIsTrue, IsCurrent
  <2>7. NothingRecordedAhead'
    <3> SUFFICES ASSUME NEW e \in Instances, e \notin untracked', live'[e] # Nothing
                 PROVE  snap'[e].decl <= live'[e].decl /\ snap'[e].tree <= live'[e].tree
      BY DEF NothingRecordedAhead
    <3>1. live'[e].decl = snap'[e].decl /\ live'[e].tree >= snap'[e].tree
      BY <2>1, <2>5 DEF IsCurrent, IsDeployed
    <3>2. snap'[e] \in Contents /\ live'[e] \in Contents
      BY <2>2 DEF TypeOK
    <3> QED
      BY <3>1, <3>2, ContentParts
  <2>8. EndedTrue'
    BY <2>1, <2>5 DEF EndedTrue
  <2> QED
    BY <2>2, <2>3, <2>4, <2>6, <2>7, <2>8 DEF IInv
<1>7. CASE StartApply(marked, full)
  <2>1. snap' = snap /\ ended' = "no" /\ pc' \in {"between", "seed"}
        /\ (pc' = "between" => Batch(plan', "substrate") = {})
    BY <1>7 DEF StartApply
  <2>2. TypeOK'
    BY <1>3, <1>4, <2>1 DEF IInv, TypeOK
  <2>3. PastContents'
    BY <1>3, <1>4, <2>1 DEF IInv, PastContents, WasContent
  <2>4. PlanIsNewer'
    BY <1>4, <2>1 DEF PlanIsNewer
  <2>5. Progress'
    BY <1>3, <1>5, <2>1 DEF Progress, Batch
  <2>6. GraphIsTrue'
    BY <1>3, <2>1 DEF IInv, GraphIsTrue
  <2>7. NothingRecordedAhead'
    BY <1>3, <2>1 DEF IInv, NothingRecordedAhead
  <2>8. EndedTrue'
    BY <2>1 DEF EndedTrue
  <2> QED
    BY <2>2, <2>3, <2>4, <2>5, <2>6, <2>7, <2>8 DEF IInv
<1> QED
  BY <1>6, <1>7

\* A batch that is registered is what the run has still to do.
LEMMA SeedIInv ==
  ASSUME IInv, Seed \/ \E R \in SUBSET Instances : SeedFails(R)
  PROVE  IInv'
<1>1. /\ pc = "seed" /\ pc' \in {"run", "record"} /\ Applying /\ Applying'
      /\ UNCHANGED <<decl, tree, snap, marker, live, plan, phase, retried, ended,
                     untracked, wrecked>>
      /\ \E R \in SUBSET Batch(plan, phase) :
           /\ Registered(R)
           /\ pc' = "run" => R = Batch(plan, phase)
      /\ pc' = "run" => todo' = Batch(plan, phase) /\ succeeded' = {} /\ failed' = failed
      /\ pc' = "record" => todo' = todo /\ succeeded' = succeeded /\ failed' = TRUE
  BY DEF Seed, SeedFails, Applying, disk, hist
<1>2. Batch(plan, phase) \subseteq Instances
  BY DEF IInv, TypeOK, Batch
<1>3. TypeOK'
  BY <1>1, <1>2 DEF IInv, TypeOK, Registered
<1>4. PastContents'
  BY <1>1, SameContents DEF IInv
<1>5. PlanIsNewer'
  BY <1>1 DEF IInv, PlanIsNewer
<1>6. Progress'
  <2>1. \A e : (IsCurrent(e)' <=> IsCurrent(e)) /\ (IsDeployed(e)' <=> IsDeployed(e))
    BY <1>1, SameCurrent DEF hist
  <2>2. Batch(plan, phase)' = Batch(plan, phase)
        /\ Batch(plan, "substrate")' = Batch(plan, "substrate")
    BY <1>1 DEF Batch
  <2>3. pc' = "run" => \A e \in Batch(plan, phase) : graph'[e] = "DEPLOY_NEXT"
    BY <1>1, <1>2 DEF Registered
  <2> QED
    BY <1>1, <2>1, <2>2, <2>3 DEF IInv, Progress
<1>7. GraphIsTrue'
  <2>1. \A e \in Instances : graph'[e] = "DEPLOYED" => graph[e] = "DEPLOYED"
    BY <1>1 DEF Registered
  <2> QED
    BY <1>1, <2>1 DEF IInv, GraphIsTrue
<1>8. NothingRecordedAhead'
  BY <1>1 DEF IInv, NothingRecordedAhead
<1>9. EndedTrue'
  BY <1>1 DEF IInv, EndedTrue
<1> QED
  BY <1>3, <1>4, <1>5, <1>6, <1>7, <1>8, <1>9 DEF IInv

\* A node that ends is deployed as the plan wants it, or fails the apply.
LEMMA NodeEndsIInv ==
  ASSUME IInv, NEW e \in Instances, NEW ok \in BOOLEAN, NodeEnds(e, ok)
  PROVE  IInv'
<1>1. /\ pc = "run" /\ pc' = "run" /\ e \in todo /\ todo' = todo \ {e}
      /\ Applying /\ Applying'
      /\ ok \in BOOLEAN
      /\ failed' = (failed \/ ~ok)
      /\ UNCHANGED <<decl, tree, snap, marker, plan, phase, retried, ended>>
      /\ succeeded' = IF ok THEN succeeded \cup {e} ELSE succeeded
      /\ untracked' = IF ok THEN untracked \ {e} ELSE untracked
      /\ wrecked' = IF ok THEN wrecked \ {e} ELSE wrecked
  BY DEF NodeEnds, Lands, Applying, disk
<1>2. /\ e \in Batch(plan, phase) /\ e \notin succeeded /\ graph[e] = "DEPLOY_NEXT"
      /\ e \in plan.deploy /\ e \notin plan.unchanged
  BY <1>1 DEF IInv, Progress, PlanIsNewer, Batch
<1>3. /\ graph' \in [Instances -> {"absent", "DEPLOY_NEXT", "DEPLOYED", "FAILED"}]
      /\ \A d \in Instances \ {e} : graph'[d] = graph[d]
      /\ ~ok => graph'[e] # "DEPLOYED"
  BY <1>2 DEF NodeEnds, Reports, IInv, TypeOK
<1>4. /\ live' \in [Instances -> Contents]
      /\ \A d \in Instances \ {e} : live'[d] = live[d]
      /\ ok => live'[e] = Content(plan.want[e].decl, tree[e])
      /\ ~ok => live'[e] \in {live[e], Nothing}
  <2>1. /\ live \in [Instances -> Contents]
        /\ Nothing \in Contents /\ Content(plan.want[e].decl, tree[e]) \in Contents
    BY DEF IInv, TypeOK, Contents, Content, Nothing
  <2> QED
    BY <2>1 DEF NodeEnds
<1>5. /\ plan.want[e] \in Contents /\ plan.want[e] # Nothing
      /\ WasContent(e, plan.want[e]) /\ (e \in Trees <=> tree[e] # 0)
      /\ tree[e] \in Nat /\ decl[e] \in Nat \ {0}
  BY <1>1 DEF IInv, TypeOK, PlanIsNewer, PastContents
<1>6. ASSUME ok
      PROVE  /\ live'[e].decl = plan.want[e].decl /\ live'[e].tree = tree[e]
             /\ live'[e].tree >= plan.want[e].tree
             /\ live'[e] # Nothing /\ WasContent(e, live'[e])
  <2>1. live'[e].decl = plan.want[e].decl /\ live'[e].tree = tree[e]
    BY <1>4, <1>6 DEF Content
  <2>2. /\ plan.want[e].decl \in 1 .. decl[e] /\ plan.want[e].tree \in 0 .. tree[e]
    BY <1>5 DEF WasContent
  <2> QED
    BY <1>4, <1>5, <2>1, <2>2, ContentParts DEF WasContent
<1>7. TypeOK'
  BY <1>1, <1>3, <1>4 DEF IInv, TypeOK
<1>8. PastContents'
  <2>1. WasContent(e, live'[e])
    BY <1>4, <1>5, <1>6 DEF IInv, PastContents, WasContent
  <2> QED
    BY <1>1, <1>4, <2>1 DEF IInv, PastContents, WasContent
<1>9. PlanIsNewer'
  BY <1>1 DEF IInv, PlanIsNewer
<1>10. \A d \in Instances \ {e} :
         /\ IsDeployed(d)' <=> IsDeployed(d)
         /\ IsCurrent(d)' <=> IsCurrent(d)
  BY <1>1, <1>4 DEF IsCurrent, IsDeployed
<1>11. ok => IsDeployed(e)'
  BY <1>1, <1>6 DEF IsDeployed
<1>12. Progress'
  <2>1. Batch(plan, phase)' = Batch(plan, phase)
        /\ Batch(plan, "substrate")' = Batch(plan, "substrate")
    BY <1>1 DEF Batch
  <2>2. \A d \in plan.unchanged : IsCurrent(d)'
    BY <1>1, <1>2, <1>10 DEF IInv, Progress, TypeOK
  <2>3. \A d \in succeeded' : IsDeployed(d)'
    BY <1>1, <1>2, <1>10, <1>11 DEF IInv, Progress, TypeOK
  <2>4. phase = "declared" => \A d \in Batch(plan, "substrate") : IsDeployed(d)'
    <3>1. phase = "declared" => e \notin Batch(plan, "substrate")
      BY <1>2 DEF Batch
    <3>2. Batch(plan, "substrate") \subseteq Instances
      BY DEF IInv, TypeOK, Batch
    <3> QED
      BY <1>1, <1>10, <3>1, <3>2 DEF IInv, Progress
  <2>5. todo' \subseteq Batch(plan, phase) \ succeeded'
    BY <1>1 DEF IInv, Progress
  <2>6. \A d \in todo' : graph'[d] = "DEPLOY_NEXT"
    BY <1>1, <1>3 DEF IInv, Progress, TypeOK
  <2>7. ~failed' => \A d \in Batch(plan, phase) \ todo' : IsDeployed(d)'
    <3>1. Batch(plan, phase) \subseteq Instances
      BY DEF IInv, TypeOK, Batch
    <3> QED
      BY <1>1, <1>10, <1>11, <3>1 DEF IInv, Progress
  <2> QED
    BY <1>1, <2>1, <2>2, <2>3, <2>4, <2>5, <2>6, <2>7 DEF Progress
<1>13. GraphIsTrue'
  <2> SUFFICES ASSUME NEW d \in Instances \ wrecked', graph'[d] = "DEPLOYED",
                      ~(marker' /\ snap'[d] = Nothing)
               PROVE  live'[d] # Nothing
    BY <1>1 DEF GraphIsTrue
  <2>1. CASE d = e
    BY <1>3, <1>6, <2>1
  <2>2. CASE d # e
    BY <1>1, <1>3, <1>4, <2>2 DEF IInv, GraphIsTrue
  <2> QED
    BY <2>1, <2>2
<1>14. NothingRecordedAhead'
  <2> SUFFICES ASSUME NEW d \in Instances, d \notin untracked', live'[d] # Nothing
               PROVE  snap'[d].decl <= live'[d].decl /\ snap'[d].tree <= live'[d].tree
    BY DEF NothingRecordedAhead
  <2>1. CASE d = e /\ ok
    <3>1. snap[e].decl <= plan.want[e].decl /\ snap[e].tree <= plan.want[e].tree
      BY <1>1 DEF IInv, PlanIsNewer
    <3>2. snap[e] \in Contents /\ live'[e] \in Contents
      BY <1>4 DEF IInv, TypeOK
    <3> QED
      BY <1>1, <1>5, <1>6, <2>1, <3>1, <3>2, ContentParts
  <2>2. CASE ~(d = e /\ ok)
    BY <1>1, <1>4, <2>2 DEF IInv, NothingRecordedAhead
  <2> QED
    BY <2>1, <2>2
<1>15. EndedTrue'
  BY <1>1 DEF IInv, EndedTrue
<1> QED
  BY <1>7, <1>8, <1>9, <1>12, <1>13, <1>14, <1>15 DEF IInv

\* A phase ends: all of it is deployed, or it is tried again, or the apply fails.
LEMMA PhaseIInv ==
  ASSUME IInv,
         RunSucceeds \/ RunFails \/ RetryPhase \/ \E ok \in BOOLEAN : Between(ok)
  PROVE  IInv'
<1>1. /\ UNCHANGED <<decl, tree, graph, snap, marker, live, plan, todo, succeeded, ended,
                     untracked, wrecked>>
      /\ pc \in {"run", "between"} /\ pc' \in {"between", "seed", "record"}
      /\ Applying /\ Applying'
  BY DEF RunSucceeds, RunFails, RetryPhase, Between, Applying, disk, hist, run
<1>2. \A e : (IsCurrent(e)' <=> IsCurrent(e)) /\ (IsDeployed(e)' <=> IsDeployed(e))
  BY <1>1, SameCurrent DEF hist
<1>3. /\ Batch(plan, "substrate")' = Batch(plan, "substrate")
      /\ plan.deploy = Batch(plan, "substrate") \cup Batch(plan, "declared")
  BY <1>1 DEF Batch
<1>4. TypeOK'
  <2>1. phase' \in {"substrate", "declared"} /\ failed' \in BOOLEAN /\ retried' \in BOOLEAN
    BY DEF IInv, TypeOK, RunSucceeds, RunFails, RetryPhase, Between, run
  <2> QED
    BY <1>1, <2>1 DEF IInv, TypeOK
<1>5. PastContents'
  BY <1>1, SameContents DEF IInv
<1>6. PlanIsNewer'
  BY <1>1 DEF IInv, PlanIsNewer
<1>7. /\ pc' = "between" \/ phase' = "declared"
           => \A e \in Batch(plan, "substrate") : IsDeployed(e)
      /\ pc' = "record" /\ ~failed' => \A e \in plan.deploy : IsDeployed(e)
  <2>1. CASE RunSucceeds
    BY <2>1, <1>3, Zenon DEF RunSucceeds, IInv, Progress, TypeOK, run, Applying
  <2>2. CASE RunFails \/ RetryPhase
    BY <1>1, <2>2 DEF RunFails, RetryPhase, IInv, Progress
  <2>3. CASE \E ok \in BOOLEAN : Between(ok)
    <3>1. pc = "between" /\ \A e \in Batch(plan, "substrate") : IsDeployed(e)
      BY <1>1, <2>3 DEF Between, IInv, Progress
    <3>2. pc' = "record" /\ ~failed' => Batch(plan, "declared") = {}
      BY <2>3 DEF Between
    <3> QED
      BY <1>3, <3>1, <3>2
  <2> QED
    BY <2>1, <2>2, <2>3
<1>8. Progress'
  BY <1>1, <1>2, <1>3, <1>7 DEF IInv, Progress
<1>9. GraphIsTrue' /\ NothingRecordedAhead' /\ EndedTrue'
  BY <1>1 DEF IInv, GraphIsTrue, NothingRecordedAhead, EndedTrue
<1> QED
  BY <1>4, <1>5, <1>6, <1>8, <1>9 DEF IInv

\* What an apply records was deployed by it, or was current when it began.
LEMMA RecordIInv ==
  ASSUME IInv, Record
  PROVE  IInv'
<1>1. /\ pc = "record" /\ pc' = "recorded" /\ Applying /\ Applying'
      /\ UNCHANGED <<decl, tree, graph, marker, live, plan, phase, todo, succeeded, failed,
                     retried, ended, untracked, wrecked>>
      /\ snap' = Settled \/ snap' = snap
  BY DEF Record, Applying, disk, hist, run
<1>2. \A e : (IsCurrent(e)' <=> IsCurrent(e)) /\ (IsDeployed(e)' <=> IsDeployed(e))
  BY <1>1, SameCurrent DEF hist
<1>3. /\ Nothing \in Contents /\ plan.want \in [Instances -> Contents]
      /\ Settled \in [Instances -> Contents]
      /\ \A e \in Instances :
           Settled[e] = IF e \in succeeded \cup plan.unchanged THEN plan.want[e] ELSE Nothing
  BY DEF IInv, TypeOK, Settled, Contents, Nothing, Content
<1>4. TypeOK'
  BY <1>1, <1>3 DEF IInv, TypeOK
<1>5. PastContents'
  BY <1>1, <1>3 DEF IInv, PastContents, WasContent
<1>6. PlanIsNewer'
  <2>1. ASSUME NEW e \in Instances
        PROVE  snap'[e].decl <= plan.want[e].decl /\ snap'[e].tree <= plan.want[e].tree
    <3>1. plan.want[e] \in Contents
      BY <1>3
    <3>2. snap'[e] \in {snap[e], plan.want[e], Nothing}
      BY <1>1, <1>3
    <3>3. snap[e].decl <= plan.want[e].decl /\ snap[e].tree <= plan.want[e].tree
      BY <1>1 DEF IInv, PlanIsNewer
    <3> QED
      BY <1>3, <3>1, <3>2, <3>3, ContentParts
  <2> QED
    BY <1>1, <2>1 DEF IInv, PlanIsNewer
<1>7. Progress'
  <2>1. Batch(plan, "substrate")' = Batch(plan, "substrate")
    BY <1>1 DEF Batch
  <2> QED
    BY <1>1, <1>2, <2>1 DEF IInv, Progress
<1>8. \A e \in succeeded : live[e] # Nothing
  <2> SUFFICES ASSUME NEW e \in succeeded PROVE live[e] # Nothing
    OBVIOUS
  <2>1. e \in Instances /\ IsDeployed(e)
    BY <1>1 DEF IInv, TypeOK, Progress
  <2>2. plan.want[e] # Nothing /\ WasContent(e, plan.want[e])
    BY <1>1, <2>1 DEF IInv, PlanIsNewer, PastContents
  <2>3. live[e] \in Contents /\ decl[e] \in Nat
    BY <2>1 DEF IInv, TypeOK
  <2> QED
    BY <2>1, <2>2, <2>3, ContentParts DEF WasContent, IsDeployed
<1>9. GraphIsTrue'
  <2> SUFFICES ASSUME NEW e \in Instances \ wrecked, graph[e] = "DEPLOYED",
                      ~(marker /\ snap'[e] = Nothing)
               PROVE  live[e] # Nothing
    BY <1>1 DEF GraphIsTrue
  <2>1. CASE ~marker \/ snap' = snap
    BY <1>1, <2>1 DEF IInv, GraphIsTrue
  <2>2. CASE marker /\ snap' = Settled
    <3>1. e \in succeeded \cup plan.unchanged
      BY <1>3, <2>2
    <3> QED
      BY <1>1, <1>8, <3>1 DEF IInv, Progress, IsCurrent
  <2> QED
    BY <1>1, <2>1, <2>2
<1>10. NothingRecordedAhead'
  <2> SUFFICES ASSUME NEW e \in Instances, e \notin untracked, live[e] # Nothing,
                      snap' = Settled
               PROVE  snap'[e].decl <= live[e].decl /\ snap'[e].tree <= live[e].tree
    BY <1>1 DEF IInv, NothingRecordedAhead
  <2>1. live[e] \in Contents /\ plan.want[e] \in Contents
    BY <1>3 DEF IInv, TypeOK
  <2>2. CASE e \in succeeded \cup plan.unchanged
    <3>1. IsDeployed(e)
      BY <1>1, <2>2 DEF IInv, Progress, IsCurrent
    <3> QED
      BY <1>3, <2>1, <2>2, <3>1, ContentParts DEF IsDeployed
  <2>3. CASE e \notin succeeded \cup plan.unchanged
    BY <1>3, <2>1, <2>3, ContentParts
  <2> QED
    BY <2>2, <2>3
<1>11. EndedTrue'
  BY <1>1 DEF IInv, EndedTrue
<1> QED
  BY <1>4, <1>5, <1>6, <1>7, <1>9, <1>10, <1>11 DEF IInv

\* An apply that returns without an error has everything deployed.
LEMMA ReturnIInv ==
  ASSUME IInv, Return
  PROVE  IInv'
<1>1. /\ pc = "recorded" /\ pc' = "idle" /\ Applying
      /\ ended' = IF failed THEN "error" ELSE "success"
      /\ marker' = (marker /\ (failed \/ ~plan.purged))
      /\ UNCHANGED <<decl, tree, graph, snap, live, plan, phase, todo, succeeded, failed,
                     retried, untracked, wrecked>>
  BY DEF Return, Applying, disk, hist, run
<1>2. \A e : (IsCurrent(e)' <=> IsCurrent(e)) /\ (IsDeployed(e)' <=> IsDeployed(e))
  BY <1>1, SameCurrent DEF hist
<1>3. ASSUME ~failed, NEW e \in Instances
      PROVE  IsCurrent(e)
  <2>1. CASE e \in plan.unchanged
    BY <1>1, <2>1 DEF IInv, Progress
  <2>2. CASE e \in plan.deploy
    <3>1. IsDeployed(e)
      BY <1>1, <1>3, <2>2 DEF IInv, Progress
    <3>2. plan.want[e] # Nothing /\ WasContent(e, plan.want[e])
      BY <1>1 DEF IInv, PlanIsNewer, PastContents
    <3>3. live[e] \in Contents /\ decl[e] \in Nat
      BY DEF IInv, TypeOK
    <3>4. live[e] # Nothing
      BY <3>1, <3>2, <3>3, ContentParts DEF WasContent, IsDeployed
    <3> QED
      BY <3>1, <3>4 DEF IsCurrent
  <2> QED
    BY <1>1, <2>1, <2>2 DEF IInv, PlanIsNewer
<1>4. TypeOK'
  BY <1>1 DEF IInv, TypeOK
<1>5. PastContents'
  BY <1>1, SameContents DEF IInv
<1>6. PlanIsNewer' /\ Progress'
  BY <1>1 DEF PlanIsNewer, Progress, Applying
<1>7. GraphIsTrue'
  <2>1. CASE failed
    BY <1>1, <2>1 DEF IInv, GraphIsTrue, TypeOK
  <2>2. CASE ~failed
    BY <1>1, <1>3, <2>2 DEF GraphIsTrue, IsCurrent
  <2> QED
    BY <2>1, <2>2
<1>8. NothingRecordedAhead'
  BY <1>1 DEF IInv, NothingRecordedAhead
<1>9. EndedTrue'
  BY <1>1, <1>2, <1>3 DEF EndedTrue
<1> QED
  BY <1>4, <1>5, <1>6, <1>7, <1>8, <1>9 DEF IInv
-----------------------------------------------------------------------------
(* Purges, edits and crashes *)

\* A purge leaves nothing there, marks that it did, and then forgets what was
\* recorded: until then the graph is not believed.
LEMMA PurgeIInv ==
  ASSUME IInv, Purge
  PROVE  IInv'
<1>0. Nothing \in Contents /\ Nothing.decl = 0 /\ Nothing.tree = 0
  BY DEF Nothing, Content, Contents
<1>1. CASE PurgeDestroys
  <2>1. /\ pc' = "destroyed" /\ ended' = "no" /\ live' = [e \in Instances |-> Nothing]
        /\ untracked' = {}
        /\ UNCHANGED <<decl, tree, graph, snap, marker, plan, phase, todo, succeeded,
                       failed, retried, wrecked>>
    BY <1>1 DEF PurgeDestroys, disk, run
  <2>2. TypeOK'
    BY <1>0, <2>1 DEF IInv, TypeOK
  <2>3. PastContents'
    BY <2>1 DEF IInv, PastContents, WasContent
  <2> QED
    BY <2>1, <2>2, <2>3
    DEF IInv, PlanIsNewer, Progress, GraphIsTrue, NothingRecordedAhead, EndedTrue, Applying
<1>2. CASE MarkPurged
  <2>1. /\ pc = "destroyed" /\ pc' = "marked" /\ marker' = TRUE
        /\ UNCHANGED <<decl, tree, graph, snap, live, plan, phase, todo, succeeded,
                       failed, retried, ended, untracked, wrecked>>
    BY <1>2 DEF MarkPurged, disk, run, hist
  <2>2. TypeOK'
    BY <2>1 DEF IInv, TypeOK
  <2>3. PastContents'
    BY <2>1, SameContents DEF IInv
  <2> QED
    BY <2>1, <2>2, <2>3
    DEF IInv, PlanIsNewer, Progress, GraphIsTrue, NothingRecordedAhead, EndedTrue, Applying
<1>3. CASE RemoveState
  <2>1. /\ pc = "marked" /\ pc' = "idle" /\ snap' = [e \in Instances |-> Nothing]
        /\ UNCHANGED <<decl, tree, graph, marker, live, plan, phase, todo, succeeded,
                       failed, retried, ended, untracked, wrecked>>
    BY <1>3 DEF RemoveState, disk, run, hist
  <2>2. TypeOK'
    BY <1>0, <2>1 DEF IInv, TypeOK
  <2>3. PastContents'
    BY <2>1 DEF IInv, PastContents, WasContent
  <2>4. NothingRecordedAhead'
    <3> SUFFICES ASSUME NEW e \in Instances
                 PROVE  snap'[e].decl <= live[e].decl /\ snap'[e].tree <= live[e].tree
      BY <2>1 DEF NothingRecordedAhead
    <3>1. live[e] \in Contents /\ snap'[e] = Nothing
      BY <2>1 DEF IInv, TypeOK
    <3> QED
      BY <1>0, <3>1, ContentParts
  <2>5. marker
    BY <2>1 DEF IInv, GraphIsTrue
  <2> QED
    BY <2>1, <2>2, <2>3, <2>4, <2>5
    DEF IInv, PlanIsNewer, Progress, GraphIsTrue, EndedTrue, Applying
<1> QED
  BY <1>1, <1>2, <1>3 DEF Purge

\* An edit makes what is deployed and planned older, and nothing else.
LEMMA EditIInv ==
  ASSUME IInv, Edit
  PROVE  IInv'
<1>1. /\ UNCHANGED <<graph, snap, marker, live, pc, plan, phase, todo, succeeded, failed,
                     retried, ended, untracked, wrecked>>
      /\ decl' \in [Instances -> Nat \ {0}] /\ tree' \in [Instances -> Nat]
      /\ \A e \in Instances : /\ decl[e] <= decl'[e] /\ tree[e] <= tree'[e]
                              /\ e \in Trees <=> tree'[e] # 0
  <2>1. PICK e \in Instances : EditDeclaration(e) \/ EditTree(e)
    BY DEF Edit
  <2>2. /\ decl \in [Instances -> Nat \ {0}] /\ tree \in [Instances -> Nat]
        /\ \A d \in Instances : d \in Trees <=> tree[d] # 0
    BY DEF IInv, TypeOK, PastContents
  <2>3. CASE EditDeclaration(e)
    BY <2>2, <2>3 DEF EditDeclaration, run, hist
  <2>4. CASE EditTree(e)
    BY <2>2, <2>4 DEF EditTree, run, hist
  <2> QED
    BY <2>1, <2>3, <2>4
<1>2. TypeOK'
  BY <1>1 DEF IInv, TypeOK
<1>3. PastContents'
  <2> SUFFICES ASSUME NEW e \in Instances
               PROVE  /\ (e \in Trees <=> tree[e] # 0)'
                      /\ WasContent(e, live[e])' /\ WasContent(e, snap[e])'
                      /\ WasContent(e, plan.want[e])'
    BY DEF PastContents
  <2>1. /\ decl' \in [Instances -> Nat] /\ tree' \in [Instances -> Nat]
        /\ decl[e] <= decl'[e] /\ tree[e] <= tree'[e] /\ TypeOK
    BY <1>1 DEF IInv
  <2>2. /\ live[e] \in Contents /\ snap[e] \in Contents /\ plan.want[e] \in Contents
        /\ WasContent(e, live[e]) /\ WasContent(e, snap[e]) /\ WasContent(e, plan.want[e])
    BY DEF IInv, TypeOK, PastContents
  <2>3. \A c \in Contents : WasContent(e, c) => WasContent(e, c)'
    BY <2>1, EditsKeepPast
  <2> QED
    BY <1>1, <2>2, <2>3 DEF WasContent
<1>4. \A e : (IsCurrent(e)' <=> IsCurrent(e)) /\ (IsDeployed(e)' <=> IsDeployed(e))
  BY <1>1, SameCurrent DEF hist
<1>5. Batch(plan, phase)' = Batch(plan, phase)
      /\ Batch(plan, "substrate")' = Batch(plan, "substrate")
  BY <1>1 DEF Batch
<1>6. Progress'
  BY <1>1, <1>4, <1>5 DEF IInv, Progress, Applying
<1>7. PlanIsNewer' /\ GraphIsTrue' /\ NothingRecordedAhead'
  BY <1>1 DEF IInv, PlanIsNewer, GraphIsTrue, NothingRecordedAhead, Applying
<1>8. EndedTrue'
  BY <1>1, <1>4 DEF IInv, EndedTrue
<1> QED
  BY <1>2, <1>3, <1>6, <1>7, <1>8 DEF IInv

\* nsctl dies: an apply leaves what it had done, a purge may not have marked it.
LEMMA CrashIInv ==
  ASSUME IInv, Crash
  PROVE  IInv'
<1>1. /\ pc' = "idle" /\ ended' = "no"
      /\ wrecked' = IF pc \in {"destroyed", "marked"} THEN Instances ELSE wrecked
      /\ UNCHANGED <<decl, tree, graph, snap, marker, live, plan, phase, todo, succeeded,
                     failed, retried, untracked>>
  BY DEF Crash, disk, run
<1>2. TypeOK'
  BY <1>1 DEF IInv, TypeOK
<1>3. PastContents'
  BY <1>1, SameContents DEF IInv
<1> QED
  BY <1>1, <1>2, <1>3
  DEF IInv, PlanIsNewer, Progress, GraphIsTrue, NothingRecordedAhead, EndedTrue, Applying

\* A step that changes nothing.
LEMMA StutterIInv ==
  ASSUME IInv, UNCHANGED vars
  PROVE  IInv'
<1>1. UNCHANGED <<decl, tree, graph, snap, marker, live, pc, plan, phase, todo, succeeded,
                  failed, retried, ended, untracked, wrecked>>
  BY DEF vars, disk, run, hist
<1>2. PastContents'
  BY <1>1, SameContents DEF IInv
<1>3. \A e : (IsCurrent(e)' <=> IsCurrent(e)) /\ (IsDeployed(e)' <=> IsDeployed(e))
  BY <1>1, SameCurrent DEF hist
<1>4. Batch(plan, phase)' = Batch(plan, phase)
      /\ Batch(plan, "substrate")' = Batch(plan, "substrate")
  BY <1>1 DEF Batch
<1>5. TypeOK'
  BY <1>1 DEF IInv, TypeOK
<1>6. Progress'
  BY <1>1, <1>3, <1>4 DEF IInv, Progress, Applying
<1>7. PlanIsNewer' /\ GraphIsTrue' /\ NothingRecordedAhead'
  BY <1>1 DEF IInv, PlanIsNewer, GraphIsTrue, NothingRecordedAhead, Applying
<1>8. EndedTrue'
  BY <1>1, <1>3 DEF IInv, EndedTrue
<1> QED
  BY <1>2, <1>5, <1>6, <1>7, <1>8 DEF IInv

-----------------------------------------------------------------------------
(* The theorems *)

\* A new environment satisfies the invariant.
LEMMA InitIInv == Init => IInv
<1> SUFFICES ASSUME Init PROVE IInv
  OBVIOUS
<1>0. Nothing \in Contents /\ Nothing.decl = 0 /\ Nothing.tree = 0
  BY DEF Nothing, Content, Contents
<1>1. TypeOK
  <2>1. NoPlan \in [want : [Instances -> Contents], unchanged : SUBSET Instances,
                    deploy : SUBSET Instances, purged : BOOLEAN, full : BOOLEAN]
    BY <1>0 DEF NoPlan
  <2>2. decl \in [Instances -> Nat \ {0}] /\ tree \in [Instances -> Nat]
    <3>1. decl = [e \in Instances |-> 1] /\ tree = [e \in Instances |-> IF e \in Trees THEN 1 ELSE 0]
      BY DEF Init
    <3>2. \A e \in Instances : (IF e \in Trees THEN 1 ELSE 0) \in Nat
      OBVIOUS
    <3> QED
      BY <3>1, <3>2
  <2>3. /\ graph \in [Instances -> {"absent", "DEPLOY_NEXT", "DEPLOYED", "FAILED"}]
        /\ snap \in [Instances -> Contents] /\ live \in [Instances -> Contents]
    BY <1>0 DEF Init
  <2> QED
    BY <2>1, <2>2, <2>3 DEF Init, TypeOK
<1>2. PastContents
  <2>1. \A e \in Instances : e \in Trees <=> tree[e] # 0
    <3>1. tree = [e \in Instances |-> IF e \in Trees THEN 1 ELSE 0]
      BY DEF Init
    <3> QED
      BY <3>1
  <2>2. \A e \in Instances : live[e] = Nothing /\ snap[e] = Nothing /\ plan.want[e] = Nothing
    BY DEF Init, NoPlan
  <2> QED
    BY <2>1, <2>2 DEF PastContents, WasContent
<1> QED
  BY <1>1, <1>2
  DEF Init, IInv, PlanIsNewer, Progress, GraphIsTrue, NothingRecordedAhead, EndedTrue, Applying

\* Every step of an apply, a purge, an edit or a crash keeps it.
LEMMA NextIInv == IInv /\ [Next]_vars => IInv'
<1> SUFFICES ASSUME IInv, [Next]_vars PROVE IInv'
  OBVIOUS
<1>1. CASE ApplyStep
  <2>1. CASE \E marked \in SUBSET Probed :
               NothingToDo(marked) \/ \E full \in BOOLEAN : StartApply(marked, full)
    BY <2>1, BeginIInv
  <2>2. CASE Seed \/ \E R \in SUBSET Instances : SeedFails(R)
    BY <2>2, SeedIInv
  <2>3. CASE \E e \in Instances, ok \in BOOLEAN : NodeEnds(e, ok)
    BY <2>3, NodeEndsIInv
  <2>4. CASE RunSucceeds \/ RunFails \/ RetryPhase \/ \E ok \in BOOLEAN : Between(ok)
    BY <2>4, PhaseIInv
  <2>5. CASE Record
    BY <2>5, RecordIInv
  <2>6. CASE Return
    BY <2>6, ReturnIInv
  <2> QED
    BY <1>1, <2>1, <2>2, <2>3, <2>4, <2>5, <2>6 DEF ApplyStep
<1> QED
  BY <1>1, PurgeIInv, EditIInv, CrashIInv, StutterIInv DEF Next

\* What the applies keep true of the declaration, the graph, the snapshot and
\* what is deployed, in every state (apply.go, purge.go and reconcile).
THEOREM Inductive == Spec => []IInv
<1> QED
  BY InitIInv, NextIInv, PTL DEF Spec

\* After an apply that succeeded nothing is missing but what a purge destroyed
\* that nsctl died in before it had left its mark (apply.go, reconcile.Compute).
THEOREM NothingMissingHolds == Spec => []NothingMissing
<1>1. IInv => NothingMissing
  BY DEF IInv, EndedTrue, IsCurrent, NothingMissing
<1> QED
  BY <1>1, Inductive, PTL

\* After an apply that succeeded what the snapshot had a digest of is deployed
\* from what was declared, and a tree at least as new (apply.go, settled).
THEOREM TrackedIsDeployedHolds == Spec => []TrackedIsDeployed
<1>1. IInv => TrackedIsDeployed
  BY DEF IInv, EndedTrue, IsCurrent, TrackedIsDeployed
<1> QED
  BY <1>1, Inductive, PTL

\* No digest runs ahead of what is deployed: an edit made during an apply is
\* still drift afterwards (apply.go, digestTrees before the run).
THEOREM NothingRecordedAheadHolds == Spec => []NothingRecordedAhead
<1>1. IInv => NothingRecordedAhead
  BY DEF IInv
<1> QED
  BY <1>1, Inductive, PTL
=============================================================================
