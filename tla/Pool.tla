-------------------------------- MODULE Pool --------------------------------
(***************************************************************************)
(* Sessions that take an environment from the pool and queue for one       *)
(* (internal/lease/pool.go, and the queue of lease.go).  A run is one      *)
(* AcquireFromPool with wait: it asks the container engine what is up,     *)
(* then looks at leases and queue under the lock, and sleeps in between.   *)
(* Of a lease only what the pool looks at is kept; module Lease has the    *)
(* rest.                                                                   *)
(***************************************************************************)
EXTENDS Integers, FiniteSets, FiniteSetsExt

CONSTANTS
  NumRuns,     \* how many runs ask
  NumEnvs,     \* how many environments the pool may have
  Wants,       \* Wants[r]: the candidates of run r
  Configured,  \* the environments registered at first
  Budgets,     \* the running budgets there may be, 0 for none
  Faults       \* a subset of AllFaults

\* A run's processes may die, a run may give up waiting, a session may keep its
\* environment running when it ends, and a stop may take longer than waiterStale.
AllFaults == {"die", "cancel", "keep", "slow-stop"}

Runs == 1 .. NumRuns   \* a run's number stands for its random waiter ID
Envs == 1 .. NumEnvs

ASSUME PoolAssumption ==
  /\ NumRuns \in Nat /\ NumEnvs \in Nat /\ Budgets \subseteq Nat
  /\ Wants \in [Runs -> SUBSET Envs]
  /\ Configured \subseteq Envs /\ Faults \subseteq AllFaults

VARIABLES
  lease,       \* lease[e]: [kind, by] of e's lease
  registered,  \* the registered environments
  running,     \* the environments whose containers are up
  waiter,      \* waiter[r]: [seq, fresh] of r's queue file, seq 0 without one
  seq,         \* seq[r]: the place in the queue r remembers, 0 before it has one
  up,          \* up[r]: what was running when r last asked
  pc,          \* where run r is
  stops,       \* stops[r]: the environments r has yet to stop
  alive,       \* the runs whose processes live
  arrivals,    \* <<q, r>>: q joined the queue no later than r, both in place since (history)
  maxRunning   \* the running budget the registry configures

vars == <<lease, registered, running, waiter, seq, up, pc, stops, alive, arrivals, maxRunning>>

Lease(kind, by) == [kind |-> kind, by |-> by]
Free == Lease("free", 0)
NoFile == [seq |-> 0, fresh |-> FALSE]

Init ==
  /\ lease = [e \in Envs |-> Free]
  /\ registered = Configured
  /\ running = {}
  /\ waiter = [r \in Runs |-> NoFile]
  /\ seq = [r \in Runs |-> 0]
  /\ up = [r \in Runs |-> {}]
  /\ pc = [r \in Runs |-> "asks"]
  /\ stops = [r \in Runs |-> {}]
  /\ alive = Runs
  /\ arrivals = {}
  /\ maxRunning \in Budgets

-----------------------------------------------------------------------------
(* The queue and the leases as one look finds them *)

\* Mutant: dead waiters keep their place.
InQueueDead == {q \in Runs : waiter[q].seq > 0}

\* queue: the waiters that are kept; the files of all others are removed.
InQueue == {q \in Runs : waiter[q].seq > 0 /\ waiter[q].fresh /\ q \in alive}

\* Queue order: by sequence, then by file name.
Before(q, r) ==
  \/ waiter[q].seq < waiter[r].seq
  \/ waiter[q].seq = waiter[r].seq /\ q < r

\* Those ahead of r; everyone, for a run that has no file in the queue.
Ahead(r) == {q \in InQueue : r \in InQueue => Before(q, r)}

\* Mutant: a newcomer does not stand behind those who wait.
BlockedForWaiters(r) ==
  IF seq[r] = 0 THEN {} ELSE UNION {Wants[q] : q \in Ahead(r)}

\* The environments r leaves to those ahead of it.
Blocked(r) == UNION {Wants[q] : q \in Ahead(r)}

\* What r looks at: its candidates and, under a budget, the whole pool.
Counted(r) == registered \cap (IF maxRunning = 0 THEN Wants[r] ELSE Envs)

Gone(e) == lease[e].kind # "free" /\ lease[e].by \notin alive

\* The sessions that r finds dead: it becomes the one to stop their environments.
Reaped(r) == {e \in Counted(r) : Gone(e) /\ lease[e].kind = "session"}

\* The leases once r has read them.
Found(r) ==
  [e \in Envs |-> IF e \in Reaped(r) THEN Lease("stop", r)
                  ELSE IF e \in Counted(r) /\ Gone(e) THEN Free
                  ELSE lease[e]]

\* Mutant: only what the container engine reported counts.
UsingBudgetUp(r) == up[r] \cap Counted(r)

\* The environments that use the budget: up, or held by a session.
UsingBudget(r) ==
  {e \in Counted(r) : e \in up[r] \/ Found(r)[e].kind = "session"}

\* admit: e may be started within the budget.
Admitted(r, e) ==
  maxRunning = 0 \/ e \in UsingBudget(r) \/ Cardinality(UsingBudget(r)) < maxRunning

\* The environments pick may grant, and those it may register first.
Grantable(r) ==
  {e \in Wants[r] \cap registered :
     Found(r)[e] = Free /\ e \notin Blocked(r) /\ Admitted(r, e)}
Creatable(r) ==
  {e \in Wants[r] \ registered : e \notin Blocked(r) /\ Admitted(r, e)}

-----------------------------------------------------------------------------
(* A run *)

\* p.Running(), before the lock is taken.
AskRunning(r) ==
  /\ r \in alive /\ pc[r] \in {"asks", "sleeps"}
  /\ up' = [up EXCEPT ![r] = IF maxRunning = 0 THEN {} ELSE running]
  /\ pc' = [pc EXCEPT ![r] = "looks"]
  /\ UNCHANGED <<lease, registered, running, waiter, seq, stops, alive, arrivals, maxRunning>>

\* The lock is held: prune the queue, reap the leases.
Reads(r) ==
  /\ r \in alive /\ pc[r] = "looks"
  /\ stops' = [stops EXCEPT ![r] = Reaped(r)]
  /\ UNCHANGED <<running, up, alive, maxRunning>>

Pruned == [q \in Runs |-> IF q \in InQueue THEN waiter[q] ELSE NoFile]

\* A run that is pruned comes back where it was, perhaps beside another.
Kept == arrivals \cap (InQueue \X InQueue)

\* pick grants e, registering it first if it has to.
LookGets(r, e) ==
  /\ Reads(r)
  /\ IF Grantable(r) # {} THEN e \in Grantable(r)
     ELSE Creatable(r) # {} /\ e = Min(Creatable(r))
  /\ lease' = [Found(r) EXCEPT ![e] = Lease("session", r)]
  /\ registered' = registered \cup {e}
  /\ waiter' = Pruned
  /\ pc' = [pc EXCEPT ![r] = "got"]
  /\ arrivals' = Kept
  /\ UNCHANGED seq

LastPlace == Max({waiter[q].seq : q \in InQueue} \cup {0})

\* Mutant: a run takes a new place at each look.
PlaceEachLook(r) == LastPlace + 1

\* One past the last waiter's place, once and for all.
Place(r) == IF seq[r] = 0 THEN LastPlace + 1 ELSE seq[r]

\* r stands behind all who are in their place.
Joins(r) == Kept \cup {<<q, r>> : q \in {q \in Runs : <<q, q>> \in Kept}} \cup {<<r, r>>}

\* Nothing for r: it joins the queue, or shows that it still waits.
LookWaits(r) ==
  /\ Reads(r)
  /\ Grantable(r) = {} /\ Creatable(r) = {}
  /\ lease' = Found(r)
  /\ seq' = [seq EXCEPT ![r] = Place(r)]
  /\ waiter' = [Pruned EXCEPT ![r] = [seq |-> Place(r), fresh |-> TRUE]]
  /\ arrivals' = IF seq[r] = 0 THEN Joins(r) ELSE Kept
  /\ pc' = [pc EXCEPT ![r] = "sleeps"]
  /\ UNCHANGED registered

\* Stop e and give it back: runStops, or the end of the session's own release.
Stop(r, e) ==
  /\ r \in alive /\ e \in stops[r]
  /\ running' = running \ {e}
  /\ lease' = [lease EXCEPT ![e] = IF @ = Lease("stop", r) THEN Free ELSE @]
  /\ stops' = [stops EXCEPT ![r] = @ \ {e}]
  /\ UNCHANGED <<registered, waiter, seq, up, pc, alive, arrivals, maxRunning>>

\* The stops of a look come before anything else the run does.
Stopped(r) == stops[r] = {}

\* The deferred "leave queue", once the run has what it waited for.
Leave(r) ==
  /\ r \in alive /\ pc[r] = "got" /\ Stopped(r)
  /\ waiter' = [waiter EXCEPT ![r] = NoFile]
  /\ pc' = [pc EXCEPT ![r] = "holds"]
  /\ UNCHANGED <<lease, registered, running, seq, up, stops, alive, arrivals, maxRunning>>

\* The wait is cancelled between two looks.
Cancel(r) ==
  /\ "cancel" \in Faults
  /\ r \in alive /\ pc[r] = "sleeps" /\ Stopped(r)
  /\ waiter' = [waiter EXCEPT ![r] = NoFile]
  /\ pc' = [pc EXCEPT ![r] = "done"]
  /\ UNCHANGED <<lease, registered, running, seq, up, stops, alive, arrivals, maxRunning>>

\* bringUp: the environment's containers start.
BringUp(r, e) ==
  /\ r \in alive /\ pc[r] = "holds" /\ lease[e] = Lease("session", r)
  /\ e \notin running
  /\ running' = running \cup {e}
  /\ UNCHANGED <<lease, registered, waiter, seq, up, pc, stops, alive, arrivals, maxRunning>>

\* release --session, with or without --keep-running.
EndSession(r, e, keep) ==
  /\ r \in alive /\ pc[r] = "holds" /\ lease[e] = Lease("session", r)
  /\ keep => "keep" \in Faults
  /\ lease' = [lease EXCEPT ![e] = IF keep THEN Free ELSE Lease("stop", r)]
  /\ stops' = [stops EXCEPT ![r] = IF keep THEN {} ELSE {e}]
  /\ pc' = [pc EXCEPT ![r] = "done"]
  /\ UNCHANGED <<registered, running, waiter, seq, up, alive, arrivals, maxRunning>>

Die(r) ==
  /\ "die" \in Faults /\ r \in alive
  /\ alive' = alive \ {r}
  /\ stops' = [stops EXCEPT ![r] = {}]
  /\ UNCHANGED <<lease, registered, running, waiter, seq, up, pc, arrivals, maxRunning>>

\* r is stopping an environment for longer than waiterStale.
SlowStop(r) ==
  /\ "slow-stop" \in Faults
  /\ r \in alive /\ ~Stopped(r) /\ waiter[r].fresh
  /\ waiter' = [waiter EXCEPT ![r].fresh = FALSE]
  /\ UNCHANGED <<lease, registered, running, seq, up, pc, stops, alive, arrivals, maxRunning>>

Acquiring(r) ==
  \/ Stopped(r) /\ AskRunning(r)
  \/ \E e \in Envs : LookGets(r, e)
  \/ LookWaits(r)
  \/ Leave(r)

Using(r) == \E e \in Envs : BringUp(r, e) \/ \E keep \in BOOLEAN : EndSession(r, e, keep)

Stopping(r) == \E e \in Envs : Stop(r, e)

Next ==
  \E r \in Runs :
    Acquiring(r) \/ Using(r) \/ Stopping(r) \/ Cancel(r) \/ Die(r) \/ SlowStop(r)

Spec == Init /\ [][Next]_vars

\* Every run keeps looking, stops what it has to, and ends its session.
FairSpec ==
  /\ Spec
  /\ \A r \in Runs :
       /\ WF_vars(Acquiring(r)) /\ WF_vars(Stopping(r))
       /\ WF_vars(\E e \in Envs, keep \in BOOLEAN : EndSession(r, e, keep))

-----------------------------------------------------------------------------
(* Properties *)

\* Everything has its type, and a place in the queue lies below the bound.
TypeOK ==
  /\ lease \in [Envs -> [kind : {"free", "session", "stop"}, by : Runs \cup {0}]]
  /\ registered \subseteq Envs /\ running \subseteq Envs
  /\ waiter \in [Runs -> [seq : 0 .. NumRuns, fresh : BOOLEAN]]
  /\ seq \in [Runs -> 0 .. NumRuns]
  /\ up \in [Runs -> SUBSET Envs] /\ stops \in [Runs -> SUBSET Envs]
  /\ pc \in [Runs -> {"asks", "looks", "sleeps", "got", "holds", "done"}]
  /\ alive \subseteq Runs
  /\ arrivals \subseteq Runs \X Runs /\ maxRunning \in Budgets

\* r waits in the queue and has not been served.
Waiting(r) == r \in alive /\ seq[r] # 0 /\ pc[r] \in {"looks", "sleeps"}

\* q joined the queue before r, which may not have joined at all, and neither
\* was ever pruned.
JoinedBefore(q, r) ==
  /\ <<q, q>> \in arrivals
  /\ seq[r] = 0 \/ <<q, r>> \in arrivals

Granted(r, e) == lease'[e] = Lease("session", r) /\ lease[e] # lease'[e]

\* Runs are served in the order they came: no run is given an environment that
\* another, which waits since before it joined, could have used.  A run whose
\* own stops outlast waiterStale loses its turn.
ServedInTurn ==
  [][\A r \in Runs, e \in Envs : Granted(r, e) =>
       \A q \in Runs \ {r} :
         Waiting(q) /\ waiter'[q] # NoFile /\ JoinedBefore(q, r)
           => e \notin Wants[q]]_vars

\* The environments that run, or are about to for a session.
InUse == {e \in registered : e \in running \/ lease[e].kind = "session"}

\* A grant keeps within the budget, or takes an environment in use already, if
\* what the run heard about the running environments still holds.
BudgetAsAsked ==
  [][\A r \in Runs, e \in Envs :
       Granted(r, e) /\ maxRunning > 0 /\ running = up[r]
         => Cardinality(InUse') <= maxRunning \/ InUse' \subseteq InUse]_vars

\* The running budget is full of environments that nobody holds or stops, none
\* of which r may use.
FilledByIdle(r) ==
  /\ maxRunning > 0
  /\ Cardinality(running) >= maxRunning
  /\ \A e \in running : lease[e].kind = "free" /\ e \notin Wants[r]

\* A run that waits, and neither dies nor gives up, gets its environment; or
\* else environments that were left running fill the budget for ever, which the
\* pool never evicts (pool.go).
Served == \A r \in Runs : <>[]Waiting(r) => <>[]FilledByIdle(r)

-----------------------------------------------------------------------------
(* The inductive invariant *)

Joined == {r \in Runs : seq[r] # 0}

\* A file carries the place its run remembers, and there are no more places than
\* runs that joined.
PlacesFit ==
  \A r \in Runs :
    /\ waiter[r].seq \in {0, seq[r]}
    /\ seq[r] <= Cardinality(Joined)

\* Who joined later has the greater number, as long as both keep their place.
InOrder ==
  \A q, r \in Runs :
    <<q, r>> \in arrivals => seq[q] > 0 /\ (q # r => seq[q] < seq[r])

IInv == TypeOK /\ PlacesFit /\ InOrder
=============================================================================
