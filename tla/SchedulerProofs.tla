-------------------------- MODULE SchedulerProofs --------------------------
(***************************************************************************)
(* Scheduler's safety for every batch, parallelism and set of classes.     *)
(***************************************************************************)
EXTENDS SchedulerRefines, FiniteSetTheorems, WellFoundedInduction, TLAPS

-----------------------------------------------------------------------------
(* The graph *)

\* What a node waits for is a finite set of positions of its batch.
LEMMA PredsFinite ==
  ASSUME NEW payload \in Payloads, NEW i \in Indices(payload)
  PROVE  /\ Preds(payload, i) \subseteq Indices(payload)
         /\ IsFiniteSet(Preds(payload, i))
         /\ i \notin Preds(payload, i)
<1>1. Len(payload) \in Int
  BY PayloadsAssumption
<1>2. IsFiniteSet(Indices(payload))
  BY <1>1, FS_Interval DEF Indices
<1>3. Preds(payload, i) \subseteq Indices(payload)
  BY DEF Preds
<1>4. i \notin Preds(payload, i)
  BY DEF Preds
<1> QED
  BY <1>2, <1>3, <1>4, FS_Subset

\* However it is asked for, the parallelism is a positive number.
LEMMA ParallelismPositive ==
  ASSUME NEW requested \in Requested, NEW n \in Nat
  PROVE  Parallelism(requested, n) \in Nat \ {0}
BY RequestedAssumption DEF Parallelism, DefaultParallelism

\* Every node of a batch is a well-formed node.
LEMMA NodeShape ==
  ASSUME NEW payload \in Payloads, NEW i \in Indices(payload)
  PROVE  payload[i].class \in Classes \cup {NoClass}
<1>1. payload[i] \in DeploymentNode
  BY PayloadsAssumption DEF Indices
<1> QED
  BY <1>1 DEF DeploymentNode

-----------------------------------------------------------------------------
(* Type correctness *)

\* A run begins with every variable of its type.
LEMMA InitTypeOK == Init => TypeOK
<1> SUFFICES ASSUME Init PROVE TypeOK
  OBVIOUS
<1>1. nodes \in Payloads /\ Len(nodes) \in Nat
  BY PayloadsAssumption DEF Init
<1>2. limit \in Nat \ {0}
  BY <1>1, ParallelismPositive DEF Init
<1>3. unmet \in [Index -> Int]
  <2>1. \A i \in Index : Cardinality(Preds(nodes, i)) \in Nat
    BY <1>1, PredsFinite, FS_CardinalityType DEF Index
  <2> QED
    BY <2>1 DEF Init, NewSchedule, UnmetOf, Index
<1>4. succeeded \in Seq(Index)
  BY DEF Init
<1> QED
  BY <1>1, <1>2, <1>3, <1>4
     DEF Init, NewSchedule, TypeOK, Index, Phases, Outcomes, Statuses, Verdicts

\* Every step keeps the types.
LEMMA NextTypeOK == TypeOK /\ [Next]_vars => TypeOK'
<1> SUFFICES ASSUME TypeOK, [Next]_vars PROVE TypeOK'
  OBVIOUS
<1> USE DEF TypeOK, Index, Phases, Outcomes, Statuses, Verdicts
<1>1. ASSUME NEW i \in Index, Dispatch(i) PROVE TypeOK'
  <2>1. Occupies(i) \subseteq Classes
    BY NodeShape DEF Occupies
  <2> QED
    BY <1>1, <2>1 DEF Dispatch, result
<1>2. ASSUME NEW i \in Index, Receive(i) PROVE TypeOK'
  <2>1. unmet' \in [Index -> Int] /\ since' \in [Index -> Nat]
        /\ ready' \subseteq Index /\ succeeded' \in Seq(Index)
        /\ failure' \in Index \cup {0} /\ stopped' \in {"no", "interrupted", "failed"}
    <3>1. CASE Succeeds(i)
      BY <1>2, <3>1 DEF Receive, Succeeds, Release, Freed
    <3>2. CASE Fails(i)
      BY <1>2, <3>2 DEF Receive, Fails
    <3> QED
      BY <1>2, <3>1, <3>2 DEF Receive
  <2> QED
    BY <1>2, <2>1 DEF Receive, Finish
<1>3. ASSUME NEW i \in Index, RunNode(i) PROVE TypeOK'
  BY <1>3 DEF RunNode, sched, result
<1>4. ASSUME NEW i \in Index, SetNodeStatus(i) PROVE TypeOK'
  BY <1>4 DEF SetNodeStatus, StatusFor, sched, result
<1>5. CASE NoticeCancel
  BY <1>5 DEF NoticeCancel, sched, result
<1>6. CASE Wait
  BY <1>6 DEF Wait, sched, result
<1>7. CASE Return
  BY <1>7 DEF Return, VerdictNow, sched
<1>8. CASE Cancel
  BY <1>8 DEF Cancel, sched, result
<1>9. CASE UNCHANGED vars
  BY <1>9 DEF vars, sched, result
<1> QED
  BY <1>1, <1>2, <1>3, <1>4, <1>5, <1>6, <1>7, <1>8, <1>9
     DEF Next, Loop, Worker, Returned

(***************************************************************************)
(* Every variable of the scheduler keeps its type.                         *)
(***************************************************************************)
THEOREM TypeCorrect == Spec => []TypeOK
<1>1. Init => TypeOK
  BY InitTypeOK
<1>2. TypeOK /\ [Next]_vars => TypeOK'
  BY NextTypeOK
<1> QED
  BY <1>1, <1>2, PTL DEF Spec

-----------------------------------------------------------------------------
(* Finite sets of nodes *)

\* The nodes in flight, and the ones a node still waits for, are finite.
LEMMA FiniteHere ==
  ASSUME TypeOK
  PROVE  /\ IsFiniteSet(Index)
         /\ IsFiniteSet(InFlight)
         /\ \A i \in Index : IsFiniteSet(Preds(nodes, i) \ Landed)
<1>1. IsFiniteSet(Index)
  <2>1. Len(nodes) \in Int
    BY PayloadsAssumption DEF TypeOK
  <2> QED
    BY <2>1, FS_Interval DEF Index, Indices
<1>2. InFlight \in SUBSET Index
  BY DEF InFlight
<1>3. IsFiniteSet(InFlight)
  BY <1>1, <1>2, FS_Subset
<1>4. ASSUME NEW i \in Index PROVE IsFiniteSet(Preds(nodes, i) \ Landed)
  <2>1. IsFiniteSet(Preds(nodes, i))
    BY PredsFinite DEF TypeOK, Index
  <2>2. Preds(nodes, i) \ Landed \in SUBSET Preds(nodes, i)
    OBVIOUS
  <2> QED
    BY <2>1, <2>2, FS_Subset
<1> QED
  BY <1>1, <1>3, <1>4

(***************************************************************************)
(* A node whose in-degree count has reached zero waits for nobody.         *)
(***************************************************************************)
LEMMA ZeroUnmet ==
  ASSUME TypeOK, UnmetCounts, NEW i \in Index, unmet[i] = 0
  PROVE  Preds(nodes, i) \subseteq Landed
<1>1. Cardinality(Preds(nodes, i) \ Landed) = 0
  BY DEF UnmetCounts
<1>2. Preds(nodes, i) \ Landed = {}
  BY <1>1, FiniteHere, FS_EmptySet
<1> QED
  BY <1>2

-----------------------------------------------------------------------------
(* The inductive invariant *)

\* Outcomes and the failure that stopped the run, by themselves.
LEMMA NextVerdicts ==
  TypeOK /\ Ripe /\ OutcomeKnown /\ FailureStops /\ [Next]_vars
    => OutcomeKnown' /\ FailureStops'
<1> SUFFICES ASSUME TypeOK, Ripe, OutcomeKnown, FailureStops, [Next]_vars
             PROVE  OutcomeKnown' /\ FailureStops'
  OBVIOUS
<1> USE DEF TypeOK, OutcomeKnown, FailureStops, Index, Phases, Outcomes
<1>1. ASSUME NEW i \in Index, Dispatch(i) PROVE OutcomeKnown' /\ FailureStops'
  <2>1. phase[i] = "waiting"
    BY <1>1 DEF Dispatch, First, Takable, Ripe
  <2> QED
    BY <1>1, <2>1 DEF Dispatch, result
<1>2. ASSUME NEW i \in Index, Receive(i) PROVE OutcomeKnown' /\ FailureStops'
  <2>1. CASE Succeeds(i)
    <3>1. OutcomeKnown'
      BY <1>2 DEF Receive
    <3>2. UNCHANGED <<nodes, outcome, failure, stopped>>
      BY <1>2, <2>1 DEF Receive, Succeeds
    <3>3. \A j \in Index : j # i => phase'[j] = phase[j]
      BY <1>2 DEF Receive
    <3>4. outcome[i] = "ok"
      BY <2>1 DEF Succeeds
    <3> QED
      BY <3>1, <3>2, <3>3, <3>4
  <2>2. CASE Fails(i)
    <3>1. OutcomeKnown'
      BY <1>2 DEF Receive
    <3>2. failure' # 0 /\ stopped' = "failed"
      BY <2>2, PayloadsAssumption DEF Fails, Indices
    <3> QED
      BY <3>1, <3>2
  <2> QED
    BY <1>2, <2>1, <2>2 DEF Receive
<1>3. ASSUME NEW i \in Index, RunNode(i) PROVE OutcomeKnown' /\ FailureStops'
  BY <1>3 DEF RunNode, result
<1>4. ASSUME NEW i \in Index, SetNodeStatus(i)
      PROVE  OutcomeKnown' /\ FailureStops'
  BY <1>4 DEF SetNodeStatus, result
<1>5. CASE NoticeCancel
  BY <1>5 DEF NoticeCancel, MayDispatch, result
<1>6. CASE Wait \/ Return \/ Cancel \/ UNCHANGED vars
  BY <1>6 DEF Wait, Return, Cancel, vars, result
<1> QED
  BY <1>1, <1>2, <1>3, <1>4, <1>5, <1>6 DEF Next, Loop, Worker, Returned

\* At the start unmet counts each node's dependencies, and nothing is in flight.
LEMMA InitSchedInv == Init => SchedInv
<1> SUFFICES ASSUME Init PROVE SchedInv
  OBVIOUS
<1>1. TypeOK
  BY InitTypeOK
<1>2. Landed = {} /\ InFlight = {} /\ Started = {}
  BY DEF Init, Landed, InFlight, Started, Index
<1>3. UnmetCounts
  <2>1. \A i \in Index : Preds(nodes, i) \ Landed = Preds(nodes, i)
    BY <1>2
  <2> QED
    BY <2>1 DEF UnmetCounts, Init, NewSchedule, UnmetOf, Index
<1>4. Ripe
  BY <1>2 DEF Ripe, Init, NewSchedule, Index
<1>5. BusyIsHeld
  BY <1>2 DEF BusyIsHeld, Init, NewSchedule
<1>6. ClassExclusion
  BY <1>2 DEF ClassExclusion
<1>7. WithinLimit
  BY <1>1, <1>2, FS_EmptySet DEF WithinLimit, TypeOK
<1>8. OutcomeKnown /\ FailureStops
  BY DEF Init, OutcomeKnown, FailureStops, Index
<1> QED
  BY <1>1, <1>3, <1>4, <1>5, <1>6, <1>7, <1>8 DEF SchedInv

\* A step that leaves schedule, payload and the shape of the run alone.
LEMMA FrameSchedInv ==
  ASSUME SchedInv, TypeOK', OutcomeKnown', FailureStops', 
         UNCHANGED <<nodes, limit, sched>>,
         InFlight' = InFlight, Landed' = Landed, Started' = Started,
         \A i \in ready : phase'[i] = phase[i]
  PROVE  SchedInv'
<1>1. Index' = Index
  BY DEF Index
<1>2. UnmetCounts'
  BY <1>1 DEF SchedInv, UnmetCounts, sched
<1>3. Ripe'
  BY <1>1 DEF SchedInv, Ripe, sched
<1>4. BusyIsHeld' /\ ClassExclusion' /\ WithinLimit'
  BY DEF SchedInv, BusyIsHeld, ClassExclusion, WithinLimit, sched
<1> QED
  BY <1>2, <1>3, <1>4 DEF SchedInv

\* A dispatch takes a node that waits for nobody and whose class is free.
LEMMA DispatchSchedInv ==
  ASSUME SchedInv, TypeOK', OutcomeKnown', FailureStops', NEW i \in Index, Dispatch(i)
  PROVE  SchedInv'
<1> USE DEF SchedInv
<1>1. /\ i \in ready /\ phase[i] = "waiting" /\ unmet[i] = 0
      /\ nodes[i].class \notin busy
  BY DEF Dispatch, First, Takable, Ripe
<1>2. Index' = Index /\ nodes' = nodes /\ limit' = limit /\ unmet' = unmet
  BY DEF Dispatch, Index
<1>3. InFlight' = InFlight \cup {i} /\ i \notin InFlight
  BY <1>1, <1>2 DEF Dispatch, InFlight, TypeOK
<1>4. Landed' = Landed
  BY <1>1, <1>2 DEF Dispatch, Landed, TypeOK
<1>5. Started' = Started \cup {i}
  BY <1>1, <1>2 DEF Dispatch, Started, TypeOK
<1>6. UnmetCounts'
  BY <1>2, <1>4 DEF UnmetCounts
<1>7. Ripe'
  BY <1>1, <1>2, <1>5 DEF Ripe, Dispatch, TypeOK
<1>8. BusyIsHeld'
  BY <1>2, <1>3 DEF BusyIsHeld, Dispatch, Occupies
<1>9. ClassExclusion'
  <2>1. ASSUME NEW j \in InFlight PROVE ~Conflict(nodes, i, j) /\ ~Conflict(nodes, j, i)
    BY <1>1 DEF Conflict, BusyIsHeld
  <2> QED
    BY <1>2, <1>3, <2>1 DEF ClassExclusion, Conflict
<1>10. WithinLimit'
  <2>1. Cardinality(InFlight') = Cardinality(InFlight) + 1
    BY <1>3, FiniteHere, FS_AddElement
  <2>2. Cardinality(InFlight) \in Nat
    BY FiniteHere, FS_CardinalityType
  <2>3. Cardinality(InFlight) < limit
    BY DEF Dispatch, MayDispatch
  <2> QED
    BY <1>2, <2>1, <2>2, <2>3 DEF WithinLimit, TypeOK
<1> QED
  BY <1>6, <1>7, <1>8, <1>9, <1>10

\* A completion frees its class and takes one off what each dependant waits for.
LEMMA ReceiveSchedInv ==
  ASSUME SchedInv, TypeOK', OutcomeKnown', FailureStops', NEW i \in Index, Receive(i)
  PROVE  SchedInv'
<1> USE DEF SchedInv
<1>1. Index' = Index /\ nodes' = nodes /\ limit' = limit /\ outcome' = outcome
  BY DEF Receive, Index
<1>2. i \in InFlight /\ i \in Started /\ i \notin Landed
  BY DEF Receive, InFlight, Started, Landed
<1>3. InFlight' = InFlight \ {i}
  BY <1>1, <1>2 DEF Receive, InFlight, TypeOK
<1>4. Started' = Started
  BY <1>1, <1>2 DEF Receive, Started, TypeOK
<1>5. Landed' = IF outcome[i] = "ok" THEN Landed \cup {i} ELSE Landed
  BY <1>1, <1>2 DEF Receive, Landed, TypeOK
<1>6. i \notin ready
  BY <1>2 DEF Ripe, Started
<1>7. UnmetCounts' /\ Ripe'
  <2>1. CASE Fails(i)
    <3>1. unmet' = unmet /\ ready' = ready /\ Landed' = Landed
      BY <2>1, <1>5 DEF Fails
    <3>2. Ripe'
      BY <1>1, <1>4, <1>6, <3>1 DEF Ripe, Receive, TypeOK
    <3>3. UnmetCounts'
      BY <1>1, <3>1 DEF UnmetCounts
    <3> QED
      BY <3>2, <3>3
  <2>2. CASE Succeeds(i)
    <3>1. Landed' = Landed \cup {i}
      BY <2>2, <1>5 DEF Succeeds
    <3>2. ASSUME NEW j \in Index
          PROVE  unmet'[j] = Cardinality(Preds(nodes, j) \ Landed')
      <4> DEFINE W == Preds(nodes, j) \ Landed
      <4>1. Preds(nodes, j) \ Landed' = W \ {i}
        BY <3>1
      <4>2. IsFiniteSet(W) /\ unmet[j] = Cardinality(W)
        BY FiniteHere DEF UnmetCounts
      <4>3. Cardinality(W \ {i}) = IF i \in W THEN unmet[j] - 1 ELSE unmet[j]
        BY <4>2, FS_RemoveElement
      <4>4. i \in W <=> i \in Preds(nodes, j)
        BY <1>2
      <4>5. unmet'[j] = IF i \in Preds(nodes, j) THEN unmet[j] - 1 ELSE unmet[j]
        BY <2>2 DEF Succeeds, Release
      <4> QED
        BY <4>1, <4>3, <4>4, <4>5
    <3>3. UnmetCounts'
      BY <1>1, <3>2 DEF UnmetCounts
    <3>4. ASSUME NEW j \in Index, i \in Preds(nodes, j)
          PROVE  unmet[j] # 0 /\ j \notin Started /\ j \notin ready
      BY <3>4, <1>2, ZeroUnmet DEF Ripe
    <3>5. ASSUME NEW j \in ready'
          PROVE  phase'[j] = "waiting" /\ unmet'[j] = 0
      <4>1. CASE j \in ready
        <5>1. phase[j] = "waiting" /\ unmet[j] = 0 /\ j \in Index
          BY <4>1 DEF Ripe, TypeOK
        <5>2. unmet'[j] = unmet[j]
          BY <2>2, <3>4, <4>1, <5>1 DEF Succeeds, Release
        <5> QED
          BY <1>6, <4>1, <5>1, <5>2 DEF Receive, TypeOK
      <4>2. CASE j \in Freed(i)
        <5>1. j \in Index /\ i \in Preds(nodes, j) /\ unmet[j] = 1
          BY <4>2 DEF Freed
        <5>2. unmet'[j] = 0
          BY <2>2, <5>1 DEF Succeeds, Release
        <5>3. phase[j] = "waiting" /\ j # i
          BY <1>2, <3>4, <5>1 DEF Started
        <5> QED
          BY <5>1, <5>2, <5>3 DEF Receive, TypeOK
      <4> QED
        BY <2>2, <3>5, <4>1, <4>2 DEF Succeeds, Release
    <3>6. ASSUME NEW j \in Started'
          PROVE  unmet'[j] = 0
      <4>1. j \in Started /\ j \in Index
        BY <1>4, <3>6 DEF Started
      <4> QED
        BY <2>2, <3>4, <4>1 DEF Succeeds, Release, Ripe
    <3> QED
      BY <3>3, <3>5, <3>6 DEF Ripe
  <2> QED
    BY <2>1, <2>2 DEF Receive
<1>8. BusyIsHeld'
  <2>1. \A j \in InFlight \ {i} :
          nodes[j].class = nodes[i].class => nodes[i].class = NoClass
    BY <1>2 DEF ClassExclusion, Conflict
  <2>2. busy' = busy \ {nodes[i].class}
    BY DEF Receive, Finish
  <2> QED
    BY <1>1, <1>2, <1>3, <2>1, <2>2 DEF BusyIsHeld
<1>9. ClassExclusion'
  BY <1>1, <1>3 DEF ClassExclusion
<1>10. WithinLimit'
  <2>1. IsFiniteSet(InFlight)
    BY FiniteHere
  <2>2. Cardinality(InFlight) \in Nat
    BY <2>1, FS_CardinalityType
  <2>3. Cardinality(InFlight') = Cardinality(InFlight) - 1
    BY <1>2, <1>3, <2>1, FS_RemoveElement
  <2> QED
    BY <1>1, <2>2, <2>3 DEF WithinLimit, TypeOK
<1> QED
  BY <1>7, <1>8, <1>9, <1>10

\* Every step keeps the strengthened invariant.
LEMMA NextSchedInv == SchedInv /\ [Next]_vars => SchedInv'
<1> SUFFICES ASSUME SchedInv, [Next]_vars PROVE SchedInv'
  OBVIOUS
<1>1. TypeOK /\ TypeOK' /\ OutcomeKnown' /\ FailureStops'
  BY NextTypeOK, NextVerdicts DEF SchedInv
<1>2. ASSUME NEW i \in Index, Dispatch(i) PROVE SchedInv'
  BY <1>1, <1>2, DispatchSchedInv
<1>3. ASSUME NEW i \in Index, Receive(i) PROVE SchedInv'
  BY <1>1, <1>3, ReceiveSchedInv
<1>4. ASSUME NEW i \in Index, Worker(i) PROVE SchedInv'
  <2>1. phase[i] \in {"running", "ran"} /\ phase' \in [Index -> Phases]
        /\ phase' = [phase EXCEPT ![i] = phase'[i]]
        /\ phase'[i] \in {"ran", "reporting"}
        /\ UNCHANGED <<nodes, limit, sched>>
    BY <1>1, <1>4 DEF Worker, RunNode, SetNodeStatus, TypeOK, Phases, Index
  <2>2. InFlight' = InFlight /\ Started' = Started
    BY <1>1, <2>1 DEF InFlight, Started, TypeOK, Index
  <2>3. Landed' = Landed
    <3>1. \A j \in Index : j # i => outcome'[j] = outcome[j]
      BY <1>1, <1>4 DEF Worker, RunNode, SetNodeStatus, TypeOK
    <3> QED
      BY <1>1, <2>1, <3>1 DEF Landed, TypeOK, Index
  <2>4. \A j \in ready : phase'[j] = phase[j]
    BY <1>1, <2>1 DEF SchedInv, Ripe, TypeOK
  <2> QED
    BY <1>1, <2>1, <2>2, <2>3, <2>4, FrameSchedInv
<1>5. CASE NoticeCancel \/ Wait \/ Return \/ Cancel \/ UNCHANGED vars
  <2>1. UNCHANGED <<nodes, limit, sched, phase, outcome>>
    BY <1>5 DEF NoticeCancel, Wait, Return, Cancel, vars
  <2>2. InFlight' = InFlight /\ Started' = Started /\ Landed' = Landed
    BY <2>1 DEF InFlight, Started, Landed, Index
  <2> QED
    BY <1>1, <2>1, <2>2, FrameSchedInv
<1> QED
  BY <1>2, <1>3, <1>4, <1>5 DEF Next, Loop, Returned

\* The strengthened invariant holds of every run: unmet counts what has not landed,
\* a class is busy exactly while a node of it is in flight, and the ready list
\* holds nothing that waits.
LEMMA SchedInvHolds == Spec => []SchedInv
<1>1. Init => SchedInv
  BY InitSchedInv
<1>2. SchedInv /\ [Next]_vars => SchedInv'
  BY NextSchedInv
<1> QED
  BY <1>1, <1>2, PTL DEF Spec

-----------------------------------------------------------------------------
(* What Run reports *)

\* A set of numbers that is not empty has a least one.
LEMMA LeastNumber ==
  ASSUME NEW T \in SUBSET Nat, T # {}
  PROVE  \E m \in T : \A n \in T : m <= n
<1> DEFINE R == StrictSubsetOrdering(Nat)
           U == {0 .. n : n \in T}
<1>1. IsWellFoundedOn(R, FiniteSubsetsOf(Nat))
  BY FS_StrictSubsetOrderingWellFounded
<1>2. U \subseteq FiniteSubsetsOf(Nat) /\ U # {}
  <2>1. ASSUME NEW n \in T PROVE 0 .. n \in FiniteSubsetsOf(Nat)
    <3>1. IsFiniteSet(0 .. n) /\ 0 .. n \subseteq Nat
      BY FS_Interval
    <3> QED
      BY <3>1 DEF FiniteSubsetsOf
  <2> QED
    BY <2>1
<1>3. PICK x \in U : \A y \in U : <<y, x>> \notin R
  <2> HIDE DEF U, R
  <2> QED
    BY <1>1, <1>2, WFMin, Zenon
<1>4. PICK m \in T : x = 0 .. m
  BY <1>3
<1>5. ASSUME NEW n \in T, n < m
      PROVE  <<0 .. n, 0 .. m>> \in R
  <2>1. 0 .. n \subseteq 0 .. m /\ m \in 0 .. m /\ m \notin 0 .. n
    BY <1>5
  <2> QED
    BY <2>1 DEF StrictSubsetOrdering
<1>6. \A n \in T : ~(n < m)
  <2> HIDE DEF R
  <2> QED
    BY <1>3, <1>4, <1>5
<1> QED
  BY <1>6

\* Before anything is dispatched nothing has landed.
LEMMA InitResultInv == Init => ResultInv
<1> SUFFICES ASSUME Init PROVE ResultInv
  OBVIOUS
<1>1. TypeOK
  BY InitTypeOK
<1>2. ReadyIsAll
  BY DEF Init, NewSchedule, ReadyIsAll, Index
<1>3. LandingOrder
  <2>1. Landed = {} /\ succeeded = <<>>
    BY DEF Init, Landed, Index
  <2> QED
    BY <2>1, FS_EmptySet DEF LandingOrder
<1>4. Recorded
  BY DEF Init, Recorded, Index
<1>5. Over
  BY DEF Init, Over
<1> QED
  BY <1>2, <1>3, <1>4, <1>5 DEF ResultInv

\* A step that leaves alone what the run has counted.
LEMMA FrameLanding ==
  ASSUME SchedInv, LandingOrder, UNCHANGED <<nodes, succeeded>>, Landed' = Landed
  PROVE  LandingOrder'
BY DEF LandingOrder

\* What a worker does leaves in Landed what is there.
LEMMA WorkerLanded ==
  ASSUME TypeOK, OutcomeKnown, NEW i \in Index, Worker(i)
  PROVE  /\ Landed' = Landed /\ Index' = Index
         /\ UNCHANGED <<nodes, limit, sched, result, stopped, cancelled, pc>>
         /\ phase[i] \in {"running", "ran"} /\ phase'[i] # "waiting" /\ phase'[i] # "settled"
         /\ \A j \in Index : j # i => phase'[j] = phase[j] /\ outcome'[j] = outcome[j]
         /\ outcome[i] = "ok" => outcome'[i] = "ok"
<1> USE DEF TypeOK, Phases, Outcomes
<1>1. CASE RunNode(i)
  BY <1>1 DEF RunNode, Landed, Index, OutcomeKnown
<1>2. CASE SetNodeStatus(i)
  BY <1>2 DEF SetNodeStatus, Landed, Index
<1> QED
  BY <1>1, <1>2 DEF Worker

\* A dispatch starts what waited; nothing lands by it.
LEMMA DispatchResult ==
  ASSUME SchedInv, ResultInv, NEW i \in Index, Dispatch(i)
  PROVE  ResultInv'
<1> USE DEF SchedInv, TypeOK
<1>1. phase[i] = "waiting" /\ i \in ready
  BY DEF Dispatch, First, Takable, Ripe
<1>2. Index' = Index /\ nodes' = nodes
  BY DEF Dispatch, Index
<1>3. Landed' = Landed
  BY <1>1, <1>2 DEF Dispatch, Landed
<1>4. ReadyIsAll'
  BY <1>1, <1>2 DEF Dispatch, ReadyIsAll, ResultInv
<1>5. LandingOrder'
  BY <1>3, FrameLanding DEF Dispatch, result, ResultInv
<1>6. Recorded'
  BY <1>1, <1>2 DEF Dispatch, result, Recorded, ResultInv
<1>7. Over'
  BY DEF Dispatch, result, Over, ResultInv
<1> QED
  BY <1>4, <1>5, <1>6, <1>7 DEF ResultInv

\* A completion that landed goes last in the order, after all it depends on.
LEMMA ReceiveOrder ==
  ASSUME SchedInv, LandingOrder, NEW i \in Index, Receive(i)
  PROVE  LandingOrder'
<1> USE DEF SchedInv, TypeOK
<1>1. Index' = Index /\ nodes' = nodes /\ outcome' = outcome
      /\ phase' = [phase EXCEPT ![i] = "settled"] /\ phase[i] = "reporting"
  BY DEF Receive, Index
<1>2. CASE Fails(i)
  <2>1. Landed' = Landed /\ succeeded' = succeeded
    BY <1>1, <1>2 DEF Fails, Landed
  <2> QED
    BY <1>1, <2>1, FrameLanding
<1>3. CASE Succeeds(i)
  <2>1. Landed' = Landed \cup {i} /\ i \notin Landed
    BY <1>1, <1>3 DEF Succeeds, Landed
  <2>2. /\ Len(succeeded) \in Nat /\ DOMAIN succeeded = 1 .. Len(succeeded)
        /\ Len(succeeded') = Len(succeeded) + 1
        /\ DOMAIN succeeded' = 1 .. Len(succeeded) + 1
        /\ \A k \in 1 .. Len(succeeded) : succeeded'[k] = succeeded[k]
        /\ succeeded'[Len(succeeded) + 1] = i
    BY <1>3 DEF Succeeds
  <2>3. {succeeded'[k] : k \in DOMAIN succeeded'} = Landed'
    <3>1. {succeeded[k] : k \in 1 .. Len(succeeded)} = Landed
      BY <2>2 DEF LandingOrder
    <3>2. {succeeded'[k] : k \in 1 .. Len(succeeded)} = Landed
      BY <2>2, <3>1
    <3>3. 1 .. Len(succeeded) + 1 = 1 .. Len(succeeded) \cup {Len(succeeded) + 1}
      BY <2>2
    <3> QED
      BY <2>1, <2>2, <3>2, <3>3
  <2>4. Len(succeeded') = Cardinality(Landed')
    <3>1. IsFiniteSet(Landed)
      BY FiniteHere, FS_Subset DEF Landed
    <3>2. Len(succeeded) = Cardinality(Landed)
      BY DEF LandingOrder
    <3>3. Cardinality(Landed \cup {i}) = Cardinality(Landed) + 1
      BY <2>1, <3>1, FS_AddElement
    <3> QED
      BY <2>1, <2>2, <3>2, <3>3
  <2>5. Preds(nodes, i) \subseteq Landed
    <3>1. unmet[i] = 0
      BY <1>1 DEF Ripe, Started
    <3> QED
      BY <3>1, ZeroUnmet
  <2>6. ASSUME NEW k \in DOMAIN succeeded'
        PROVE  Preds(nodes, succeeded'[k]) \subseteq {succeeded'[m] : m \in 1 .. k - 1}
    <3>1. CASE k \in 1 .. Len(succeeded)
      <4>1. Preds(nodes, succeeded[k]) \subseteq {succeeded[m] : m \in 1 .. k - 1}
        BY <2>2, <3>1 DEF LandingOrder
      <4>2. \A m \in 1 .. k - 1 : succeeded'[m] = succeeded[m]
        BY <2>2, <3>1
      <4> QED
        BY <2>2, <3>1, <4>1, <4>2
    <3>2. CASE k = Len(succeeded) + 1
      <4>1. {succeeded[m] : m \in 1 .. k - 1} = Landed
        <5>1. k - 1 = Len(succeeded)
          BY <2>2, <3>2
        <5> QED
          BY <2>2, <5>1 DEF LandingOrder
      <4>2. \A m \in 1 .. k - 1 : succeeded'[m] = succeeded[m]
        BY <2>2, <3>2
      <4> QED
        BY <2>2, <2>5, <3>2, <4>1, <4>2
    <3> QED
      BY <2>2, <3>1, <3>2
  <2> QED
    BY <1>1, <2>3, <2>4, <2>6 DEF LandingOrder
<1> QED
  BY <1>2, <1>3 DEF Receive

\* A completion readies what waited for nothing else.
LEMMA ReceiveResult ==
  ASSUME SchedInv, ResultInv, NEW i \in Index, Receive(i)
  PROVE  ResultInv'
<1> USE DEF SchedInv, TypeOK, ResultInv
<1>1. Index' = Index /\ nodes' = nodes /\ outcome' = outcome
      /\ phase' = [phase EXCEPT ![i] = "settled"] /\ phase[i] = "reporting"
  BY DEF Receive, Index
<1>2. ReadyIsAll'
  <2>1. CASE Fails(i)
    BY <1>1, <2>1 DEF Fails, ReadyIsAll
  <2>2. CASE Succeeds(i)
    <3> SUFFICES ASSUME NEW j \in Index, phase'[j] = "waiting", unmet'[j] = 0
                 PROVE  j \in ready'
      BY <1>1 DEF ReadyIsAll
    <3>1. phase[j] = "waiting"
      BY <1>1
    <3>2. unmet'[j] = IF i \in Preds(nodes, j) THEN unmet[j] - 1 ELSE unmet[j]
      BY <2>2 DEF Succeeds, Release
    <3>3. unmet[j] \in Int /\ ready' = ready \cup Freed(i)
      BY <2>2 DEF Succeeds, Release
    <3>4. CASE i \in Preds(nodes, j)
      BY <3>2, <3>3, <3>4 DEF Freed
    <3>5. CASE i \notin Preds(nodes, j)
      BY <3>1, <3>2, <3>3, <3>5 DEF ReadyIsAll
    <3> QED
      BY <3>4, <3>5
  <2> QED
    BY <2>1, <2>2 DEF Receive
<1>3. LandingOrder'
  BY ReceiveOrder
<1>4. Recorded'
  <2>1. CASE Fails(i)
    <3>1. failure' = i \/ (failure' = failure /\ failure # 0)
      BY <2>1 DEF Fails
    <3>2. stopped' = "failed" \/ stopped' = stopped
      BY <2>1 DEF Fails
    <3> QED
      BY <1>1, <2>1, <3>1, <3>2 DEF Fails, Receive, Recorded
  <2>2. CASE Succeeds(i)
    BY <1>1, <2>2 DEF Succeeds, Receive, Recorded
  <2> QED
    BY <2>1, <2>2 DEF Receive
<1>5. Over'
  BY DEF Receive, Over
<1> QED
  BY <1>2, <1>3, <1>4, <1>5

\* A deploy that ran, or reported, changes no more than its own record.
LEMMA WorkerResult ==
  ASSUME SchedInv, ResultInv, NEW i \in Index, Worker(i)
  PROVE  ResultInv'
<1> USE DEF SchedInv, TypeOK, ResultInv
<1>1. /\ Landed' = Landed /\ Index' = Index
      /\ UNCHANGED <<nodes, limit, sched, result, stopped, cancelled, pc>>
      /\ phase[i] \in {"running", "ran"} /\ phase'[i] # "waiting" /\ phase'[i] # "settled"
      /\ \A j \in Index : j # i => phase'[j] = phase[j] /\ outcome'[j] = outcome[j]
      /\ outcome[i] = "ok" => outcome'[i] = "ok"
  BY WorkerLanded
<1>2. ReadyIsAll'
  BY <1>1 DEF ReadyIsAll, sched
<1>3. LandingOrder'
  BY <1>1, FrameLanding DEF result
<1>4. Recorded'
  <2>1. \A j \in Index : status'[j] = "DEPLOYED" => outcome'[j] = "ok"
    <3>1. CASE RunNode(i)
      BY <1>1, <3>1 DEF RunNode, Recorded
    <3>2. CASE SetNodeStatus(i)
      BY <1>1, <3>2 DEF SetNodeStatus, StatusFor, Recorded
    <3> QED
      BY <3>1, <3>2 DEF Worker
  <2>2. failure # 0 => failure # i /\ failure \in Index
    BY <1>1 DEF Recorded
  <2> QED
    BY <1>1, <2>1, <2>2 DEF Recorded, result
<1>5. Over'
  <2>1. i \in InFlight
    BY <1>1 DEF InFlight
  <2> QED
    BY <1>1, <2>1 DEF Over, result
<1> QED
  BY <1>2, <1>3, <1>4, <1>5

\* Run returns when nothing is in flight and nothing dispatchable is left.
LEMMA ReturnResult ==
  ASSUME SchedInv, ResultInv, Return
  PROVE  ResultInv'
<1> USE DEF SchedInv, TypeOK, ResultInv
<1>1. UNCHANGED <<nodes, limit, sched, phase, outcome, status, succeeded, failure,
                  stopped, cancelled>>
      /\ pc' = "returned" /\ verdict' = VerdictNow /\ InFlight = {}
  BY DEF Return
<1>2. Index' = Index /\ Landed' = Landed /\ InFlight' = InFlight /\ Started' = Started
  BY <1>1 DEF Index, Landed, InFlight, Started
<1>3. ReadyIsAll' /\ Recorded'
  BY <1>1, <1>2 DEF ReadyIsAll, Recorded, sched
<1>4. LandingOrder'
  BY <1>1, <1>2, FrameLanding
<1>5. stopped = "no" => ready = {}
  <2> SUFFICES ASSUME stopped = "no" PROVE ready = {}
    OBVIOUS
  <2>1. Cardinality(InFlight) < limit
    BY <1>1, FS_EmptySet
  <2>2. Takable = {}
    BY <2>1 DEF Return, DispatchEnds, MayDispatch
  <2>3. busy = {}
    BY <1>1 DEF BusyIsHeld
  <2> QED
    BY <2>2, <2>3 DEF Takable
<1>6. VerdictNow' = VerdictNow
  BY <1>1, <1>2 DEF VerdictNow
<1> QED
  BY <1>1, <1>2, <1>3, <1>4, <1>5, <1>6 DEF Over, sched

\* Every step keeps what is known of the result.
LEMMA NextResultInv == SchedInv /\ ResultInv /\ [Next]_vars => ResultInv'
<1> SUFFICES ASSUME SchedInv, ResultInv, [Next]_vars PROVE ResultInv'
  OBVIOUS
<1>1. ASSUME NEW i \in Index, Dispatch(i) \/ Receive(i) \/ Worker(i) PROVE ResultInv'
  BY <1>1, DispatchResult, ReceiveResult, WorkerResult
<1>2. CASE NoticeCancel \/ Wait \/ Cancel \/ UNCHANGED vars
  <2>1. /\ UNCHANGED <<nodes, limit, sched, phase, outcome, status, succeeded, failure,
                       verdict>>
        /\ pc = "returned" => pc' = pc /\ stopped' = stopped
        /\ pc # "returned" => pc' # "returned"
        /\ stopped' = "interrupted" => stopped = "interrupted" \/ cancelled
        /\ cancelled => cancelled'
    BY <1>2 DEF NoticeCancel, Wait, Cancel, DispatchEnds, vars, result
  <2>2. Index' = Index /\ Landed' = Landed /\ InFlight' = InFlight /\ Started' = Started
    BY <2>1 DEF Index, Landed, InFlight, Started
  <2>3. ReadyIsAll'
    BY <2>1, <2>2 DEF ResultInv, ReadyIsAll, sched
  <2>4. LandingOrder'
    BY <2>1, <2>2, FrameLanding DEF ResultInv
  <2>5. Recorded'
    BY <2>1, <2>2 DEF ResultInv, Recorded
  <2>6. Over'
    BY <2>1, <2>2 DEF ResultInv, Over, VerdictNow, sched
  <2> QED
    BY <2>3, <2>4, <2>5, <2>6 DEF ResultInv
<1>3. CASE Return
  BY <1>3, ReturnResult
<1> QED
  BY <1>1, <1>2, <1>3 DEF Next, Loop, Returned

(***************************************************************************)
(* The inductive invariant holds of every run, whatever the batch.         *)
(***************************************************************************)
THEOREM Inductive == Spec => []IInv
<1>1. Init => IInv
  BY InitSchedInv, InitResultInv DEF IInv
<1>2. IInv /\ [Next]_vars => IInv'
  BY NextSchedInv, NextResultInv DEF IInv
<1> QED
  BY <1>1, <1>2, PTL DEF Spec

\* When Run has returned, every node settled or was never started.
LEMMA AllSettled ==
  ASSUME IInv, pc = "returned", NEW i \in Index
  PROVE  phase[i] \in {"waiting", "settled"}
BY DEF IInv, SchedInv, TypeOK, Phases, ResultInv, Over, InFlight

(***************************************************************************)
(* When Run returns, Succeeded names exactly the nodes that deployed, each *)
(* once, and no status says more.                                          *)
(***************************************************************************)
THEOREM SucceededIsExactHolds == Spec => []SucceededIsExact
<1>1. ASSUME IInv, pc = "returned"
      PROVE  \A i \in Index : outcome[i] = "ok" <=> i \in Landed
  BY <1>1, AllSettled DEF IInv, SchedInv, OutcomeKnown, Landed
<1>2. IInv => SucceededIsExact
  BY <1>1 DEF IInv, SucceededIsExact, ResultInv, LandingOrder, Recorded, Over, Landed
<1> QED
  BY <1>2, Inductive, PTL

\* Nodes that all landed, each after what it depends on, have no cycle among them.
LEMMA LandedIsAcyclic ==
  ASSUME IInv, Landed = Index
  PROVE  Acyclic
<1> USE DEF IInv, ResultInv, LandingOrder
<1> SUFFICES ASSUME NEW S \in SUBSET Index, S # {}
             PROVE  \E i \in S : Preds(nodes, i) \cap S = {}
  BY DEF Acyclic
<1> DEFINE places == {k \in DOMAIN succeeded : succeeded[k] \in S}
<1>1. DOMAIN succeeded \subseteq Nat
  BY DEF SchedInv, TypeOK
<1>2. places \in SUBSET Nat /\ places # {}
  BY <1>1
<1>3. PICK k \in places : \A m \in places : k <= m
  <2> HIDE DEF places
  <2> QED
    BY <1>2, LeastNumber
<1>4. DOMAIN succeeded = 1 .. Len(succeeded) /\ Len(succeeded) \in Nat
  BY DEF SchedInv, TypeOK
<1>5. \A m \in 1 .. k - 1 : succeeded[m] \notin S
  BY <1>3, <1>4
<1> QED
  BY <1>3, <1>5

(***************************************************************************)
(* What Run returns is true: of success, of a cycle and of what it blocks, *)
(* of a failure and of an interruption.                                    *)
(***************************************************************************)
THEOREM VerdictIsTrueHolds == Spec => []VerdictIsTrue
<1>1. ASSUME IInv, verdict # "none"
      PROVE  pc = "returned" /\ verdict = VerdictNow
  BY <1>1 DEF IInv, ResultInv, Over
<1>2. ASSUME IInv, pc = "returned", failure = 0
      PROVE  Started \subseteq Landed
  <2>1. \A i \in Started : i \in Index /\ phase[i] = "settled"
    BY <1>2, AllSettled DEF Started
  <2> QED
    BY <1>2, <2>1 DEF IInv, SchedInv, FailureStops, OutcomeKnown, TypeOK, Outcomes, Landed
<1>3. ASSUME IInv, verdict = "nil"
      PROVE  Landed = Index /\ Acyclic
  <2>1. pc = "returned" /\ failure = 0 /\ Started = Index
    BY <1>1, <1>3 DEF VerdictNow, IInv, SchedInv, FailureStops
  <2>2. Landed = Index
    BY <1>2, <1>3, <2>1 DEF Landed
  <2> QED
    BY <1>3, <2>2, LandedIsAcyclic
<1>4. ASSUME IInv, verdict = "cycle"
      PROVE  ~Acyclic /\ Blocked = Index \ Started
  <2>1. pc = "returned" /\ failure = 0 /\ stopped = "no" /\ Started # Index
    BY <1>1, <1>4 DEF VerdictNow
  <2>2. ready = {} /\ Started \subseteq Landed
    BY <1>2, <1>4, <2>1 DEF IInv, ResultInv, Over
  <2>3. \A i \in Index \ Started : unmet[i] # 0
    BY <1>4, <2>2 DEF IInv, ResultInv, ReadyIsAll, Started
  <2>4. ASSUME NEW i \in Index
        PROVE  /\ unmet[i] = Cardinality(Preds(nodes, i) \ Landed) /\ unmet[i] \in Nat
               /\ unmet[i] # 0 => Preds(nodes, i) \ Landed # {}
    BY <1>4, FiniteHere, FS_CardinalityType, FS_EmptySet DEF IInv, SchedInv, UnmetCounts
  <2>5. Blocked = Index \ Started
    <3>1. \A i \in Started : unmet[i] = 0
      BY <1>4 DEF IInv, SchedInv, Ripe
    <3>2. ASSUME NEW i \in Index PROVE unmet[i] > 0 <=> i \notin Started
      <4>1. unmet[i] \in Nat
        BY <2>4
      <4> QED
        BY <2>3, <3>1, <4>1
    <3> QED
      BY <3>2 DEF Blocked
  <2>6. \A i \in Index \ Started : Preds(nodes, i) \cap (Index \ Started) # {}
    <3>1. \A i \in Index : Preds(nodes, i) \subseteq Index
      BY DEF Preds, Index
    <3> QED
      BY <2>2, <2>3, <2>4, <3>1
  <2>7. Index \ Started \in (SUBSET Index) \ {{}}
    BY <2>1 DEF Started
  <2> QED
    BY <2>5, <2>6, <2>7 DEF Acyclic
<1>5. ASSUME IInv, verdict = "failed"
      PROVE  outcome[failure] = "failed"
  <2>1. failure # 0
    BY <1>1, <1>5 DEF VerdictNow
  <2> QED
    BY <1>5, <2>1 DEF IInv, ResultInv, Recorded
<1>6. ASSUME IInv, verdict = "interrupted"
      PROVE  cancelled /\ failure = 0
  <2>1. failure = 0 /\ stopped # "no"
    BY <1>1, <1>6 DEF VerdictNow
  <2> QED
    BY <1>6, <2>1 DEF IInv, SchedInv, TypeOK, FailureStops, ResultInv, Recorded
<1>7. IInv => VerdictIsTrue
  BY <1>3, <1>4, <1>5, <1>6 DEF VerdictIsTrue
<1> QED
  BY <1>7, Inductive, PTL

-----------------------------------------------------------------------------
(***************************************************************************)
(* A node is dispatched only after everything it waits for has landed.     *)
(***************************************************************************)
THEOREM DependencyOrderHolds == Spec => []DependencyOrder
<1>1. SchedInv => DependencyOrder
  BY ZeroUnmet DEF SchedInv, Ripe, DependencyOrder, Started
<1> QED
  BY <1>1, SchedInvHolds, PTL

(***************************************************************************)
(* Two nodes of one repo class are never in flight together.               *)
(***************************************************************************)
THEOREM ClassExclusionHolds == Spec => []ClassExclusion
<1>1. SchedInv => ClassExclusion
  BY DEF SchedInv
<1> QED
  BY <1>1, SchedInvHolds, PTL

(***************************************************************************)
(* The nodes in flight never outnumber the parallelism.                    *)
(***************************************************************************)
THEOREM WithinLimitHolds == Spec => []WithinLimit
<1>1. SchedInv => WithinLimit
  BY DEF SchedInv
<1> QED
  BY <1>1, SchedInvHolds, PTL
(***************************************************************************)
(* After a failure or an interruption nothing more is dispatched, and the  *)
(* failure reported stays the first one.                                   *)
(***************************************************************************)
THEOREM FailFastHolds == Spec => FailFast
<1>1. ASSUME SchedInv, [Next]_vars, stopped # "no"
      PROVE  Started' = Started /\ (failure # 0 => failure' = failure)
  <2> USE DEF SchedInv, TypeOK, Index, Started
  <2>1. ASSUME NEW i \in Index, Receive(i)
        PROVE  Started' = Started /\ (failure # 0 => failure' = failure)
    BY <2>1 DEF Receive, Succeeds, Fails
  <2>2. ASSUME NEW i \in Index, Worker(i)
        PROVE  Started' = Started /\ failure' = failure
    <3>1. CASE RunNode(i)
      BY <3>1 DEF RunNode, result
    <3>2. CASE SetNodeStatus(i)
      BY <3>2 DEF SetNodeStatus, result
    <3> QED
      BY <2>2, <3>1, <3>2 DEF Worker
  <2>3. CASE Wait \/ Return \/ Cancel \/ UNCHANGED vars
    BY <2>3 DEF Wait, Return, Cancel, vars, result
  <2> QED
    BY <1>1, <2>1, <2>2, <2>3
       DEF Next, Loop, Dispatch, NoticeCancel, MayDispatch, Returned
<1>2. SchedInv /\ [Next]_vars
        => [stopped # "no" => /\ Started' = Started
                              /\ failure # 0 => failure' = failure]_vars
  BY <1>1
<1> QED
  BY <1>2, SchedInvHolds, PTL DEF Spec, FailFast

-----------------------------------------------------------------------------
(* Refinement *)

\* The graph of the batch specification is the scheduler's.
LEMMA SameGraph ==
  /\ Batch!Indices(nodes) = Index
  /\ \A i : Batch!Preds(nodes, i) = Preds(nodes, i)
  /\ \A i, j : Batch!Conflict(nodes, i, j) <=> Conflict(nodes, i, j)
BY DEF Batch!Indices, Batch!Preds, Batch!Named, Batch!Conflict,
       Indices, Preds, Named, Conflict, Index

\* The batch specification counts sets as the scheduler does.
LEMMA SameCardinality == \A S : Batch!Cardinality(S) = Cardinality(S)
BY Zenon DEF Batch!Cardinality, Cardinality

\* The abstract states of the nodes are the phases of the scheduler.
LEMMA AbstractStates ==
  ASSUME SchedInv
  PROVE  /\ Batch!In("deploying") = InFlight
         /\ Batch!In("landed") = Landed
         /\ Batch!In("failed") = {i \in Index : /\ phase[i] = "settled"
                                                /\ outcome[i] = "failed"}
         /\ \A i \in Index : batchState[i] = "pending" <=> phase[i] = "waiting"
<1> USE DEF batchState
<1>1. /\ phase \in [Index -> Phases]
      /\ outcome \in [Index -> Outcomes]
      /\ \A i \in Index : phase[i] = "settled" => outcome[i] # "none"
  BY DEF SchedInv, TypeOK, OutcomeKnown
<1>2. \A s : Batch!In(s) = {i \in Index : batchState[i] = s}
  BY SameGraph DEF Batch!In
<1>3. \A i \in Index : batchState[i] = "deploying"
                        <=> phase[i] \in {"running", "ran", "reporting"}
  BY <1>1 DEF Phases, Outcomes
<1>4. \A i \in Index : batchState[i] = "landed"
                        <=> phase[i] = "settled" /\ outcome[i] = "ok"
  BY <1>1 DEF Phases, Outcomes
<1>5. \A i \in Index : batchState[i] = "failed"
                        <=> phase[i] = "settled" /\ outcome[i] = "failed"
  BY <1>1 DEF Phases, Outcomes
<1>6. \A i \in Index : batchState[i] = "pending" <=> phase[i] = "waiting"
  BY <1>1 DEF Phases, Outcomes
<1> QED
  BY <1>2, <1>3, <1>4, <1>5, <1>6 DEF InFlight, Landed

\* A run begins as a batch none of whose nodes has started.
LEMMA AbstractInit == Init => Batch!BatchInit
<1> SUFFICES ASSUME Init PROVE Batch!BatchInit
  OBVIOUS
<1>1. TypeOK
  BY InitTypeOK
<1>2. batchState = [i \in Index |-> "pending"]
  BY DEF Init, batchState
<1> QED
  BY <1>1, <1>2, SameGraph DEF TypeOK, Index, Batch!BatchInit

\* Every step of a run is a start or an end of the batch specification, or a stutter.
LEMMA AbstractStep == SchedInv /\ [Next]_vars => [Batch!BatchNext]_(Batch!batchVars)
<1> SUFFICES ASSUME SchedInv, [Next]_vars
             PROVE  Batch!BatchNext \/ UNCHANGED Batch!batchVars
  OBVIOUS
<1> USE DEF Batch!BatchNext, Batch!batchVars
<1>0. SchedInv' /\ TypeOK /\ TypeOK'
  BY NextSchedInv DEF SchedInv
<1>1. ASSUME NEW i \in Index, Dispatch(i) PROVE Batch!Start(i)
  <2>1. phase[i] = "waiting" /\ unmet[i] = 0 /\ i \in ready
        /\ nodes[i].class \notin busy
    BY <1>1 DEF SchedInv, Dispatch, First, Takable, Ripe
  <2>2. batchState[i] = "pending" /\ Preds(nodes, i) \subseteq Batch!In("landed")
    BY <2>1, AbstractStates, ZeroUnmet DEF SchedInv
  <2>3. Batch!In("failed") = {}
    BY <1>1, AbstractStates DEF SchedInv, FailureStops, Dispatch, MayDispatch
  <2>4. \A j \in Batch!In("deploying") : ~Conflict(nodes, i, j)
    BY <2>1, AbstractStates DEF SchedInv, BusyIsHeld, Conflict
  <2>5. Cardinality(Batch!In("deploying")) < limit
    BY <1>1, AbstractStates DEF Dispatch, MayDispatch
  <2>6. batchState' = [batchState EXCEPT ![i] = "deploying"]
        /\ UNCHANGED <<nodes, limit>>
    BY <1>0, <1>1 DEF Dispatch, batchState, Index, TypeOK
  <2> QED
    BY <2>2, <2>3, <2>4, <2>5, <2>6, SameGraph, SameCardinality DEF Batch!Start
<1>2. ASSUME NEW i \in Index, Receive(i) PROVE Batch!End(i)
  <2>1. batchState[i] = "deploying" /\ outcome[i] \in {"ok", "failed"}
    BY <1>2 DEF SchedInv, OutcomeKnown, TypeOK, Outcomes, Receive, batchState
  <2>2. batchState' = [batchState EXCEPT ![i] =
                         IF outcome[i] = "ok" THEN "landed" ELSE "failed"]
        /\ UNCHANGED <<nodes, limit>>
    BY <1>0, <1>2, <2>1 DEF Receive, batchState, Index, TypeOK
  <2> QED
    BY <2>1, <2>2 DEF Batch!End
<1>3. ASSUME NEW i \in Index, Worker(i) PROVE UNCHANGED Batch!batchVars
  <2>1. batchState' = batchState
    BY <1>0, <1>3 DEF Worker, RunNode, SetNodeStatus, batchState, Index, TypeOK
  <2> QED
    BY <1>3, <2>1 DEF Worker, RunNode, SetNodeStatus
<1>4. CASE NoticeCancel \/ Wait \/ Return \/ Cancel \/ UNCHANGED vars
  BY <1>4 DEF NoticeCancel, Wait, Return, Cancel, vars, batchState, Index
<1> QED
  BY <1>1, <1>2, <1>3, <1>4, SameGraph DEF Next, Loop, Returned

(***************************************************************************)
(* The safety part of DeployBatch is implemented, step by step: whatever   *)
(* the scheduler does, the batch specification allows.                     *)
(***************************************************************************)
THEOREM SafelyImplementsBatch ==
  Spec => Batch!BatchInit /\ [][Batch!BatchNext]_(Batch!batchVars)
<1>1. Init => Batch!BatchInit
  BY AbstractInit
<1>2. SchedInv /\ [Next]_vars => [Batch!BatchNext]_(Batch!batchVars)
  BY AbstractStep
<1> QED
  BY <1>1, <1>2, SchedInvHolds, PTL DEF Spec
=============================================================================
