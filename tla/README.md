# A verification of nsctl

`nsctl` (`src/src/go/nsctl`) runs a development platform on one machine: a shared
control plane of containers, and environments that are deployed onto it by a
batch of deployment nodes. Several processes work on the same environments at the
same time - shells, agent sessions, queued runs - with no daemon between them:
what they share is files under the state directory, `flock`, the container engine
and the deployment graph that a service keeps. The TLA+ modules here model the
parts of that whose correctness depends on order, on failure or on who else is
running, TLC checks them on small instances, and TLAPS proves the safety
properties of eight of them for every instance; the control plane and the start
of an environment over it are model-checked only.

Paths below are relative to `src/src/go/nsctl/`.

## 1. The system's parts

| part | state | operations | what is hard | what must hold |
|---|---|---|---|---|
| Deployment scheduler (`internal/runner/schedule.go`) | unmet counts, the ready list, busy repo classes, nodes in flight, first error | `Run`: dispatch, a worker's completion, interruption | completions in any order, a failure with workers in flight, unbuffered completion channel | dependencies first, one node per class, the limit, nothing started after a failure, `Succeeded` exact, `Run` returns |
| Node runner (`runner.go`) | the deployment's status in the graph | `RunNode`, `SetNodeStatus` | status is posted once, best effort | a node that failed is not reported as landed |
| Lease store (`internal/lease/lease.go`) | one file per environment (holder, token, watched PID, TTL), a stop queue in each process's memory | acquire, renew, release, check, list, steal, reaping, `runStops` | two locked sections with a container stop between; processes that die, fall silent, return late | one holder, an environment is stopped between a session and its next user, nothing wedges |
| Pool and queue (`internal/lease/pool.go`) | waiter files with places and heartbeats, the registry, what runs | `AcquireFromPool` with `wait` | a poll loop per process, an answer of the engine used later under the lock | order of arrival, the running budget, everyone served |
| Lease commands (`cmd/env_lease.go`) | what a command is in the middle of | `acquire --session`, `leaseGuard`, release | check once, work for minutes | one session lease per session, no deploy over another |
| Apply and reconcile (`internal/environment/apply.go`, `trees.go`, `internal/reconcile`, `internal/msdeploy`) | the snapshot of digests, the graph's statuses, the declarations, the working trees | plan, two phases, seeding, record | failures between phases, edits meanwhile, dying before the record | what is declared is what is deployed after a success |
| Purge (`purge.go`, `purged.go`) | the purge marker | destroy, mark, remove the state directory | dying in between | the next apply brings everything back |
| PostgreSQL upgrade (`internal/pgupgrade`, `internal/pgcheck`, `cmd/db.go`) | three volumes, a stage manifest | plan, gate, ten steps, a record after each | any step fails or dies, any number of resumes, a user in between | the data is never lost, the report is true |
| Environment registry (`internal/registry`) | one JSON file of environments, slots and accounts, and the accounts that are retired | `Load`, `Update`; registering, the first environment, removing, retiring | read-modify-write by many processes, some of which die in it | no lost edit, no slot or account given twice |
| Host locks, atomic files (`internal/hostlock`, `atomicfile`) | lock files | lock, share, probe, replace | locks across processes | one holder; whole files |
| Wake sweep (`internal/envactivity`, `internal/floci/wake.go`) | activity marks, a snapshot of what was up, what the sweep has still to look at | open a window, stamp, sweep, stop | starts whose windows overlap, a process that is cut off in its window | a start stops nothing another brought up, and starts nothing else |
| Environment start/stop (`internal/environment`) | the environment's containers and routes, the nodes forced into the plan | `Start` in three passes, `Stop` | what an earlier command left half done; what the deploy makes is there only after it | "Ready." is true |
| Control plane (`internal/controlplane`, `internal/compose`) | the platform's containers, recorded ports, whether it is bootstrapped, the substrate lock | `Start`, `Bootstrap`, `Stop` | cut off between any two calls; containers, ports, directories and images that change | "Control plane ready." is true; ports stay |
| Floci, k3s (`internal/floci`, `internal/k3s`) | what Floci has built, the cluster's record and container | ensure running, alias, reconcile, verify | record and container disagree | every start brings them together again |
| Router (`internal/router`) | route fragments on disk, those the proxy has loaded | write, splice, remove, reload | a proxy that mounts another directory than the one written | what is deployed is routed |
| Sign-in (`internal/authd`, `deviceauth`, `tokenstore`, `credentials`) | device codes, tokens | grant, poll, refresh | polling against expiry | an approved device gets its token once |
| Artifacts and versions (`internal/artifact`, `oci`, `librarian`, `lock`, `versionspec`) | caches, a lock file | resolve, download, unpack | partial downloads | what is locked is what is used |
| Inspection and data model (`internal/detect`, `inspect`, `model`, `derive`, `perspective`, `modelstore`) | none that lasts | parse, derive, query | size | functional correctness |
| Manifests, configuration, other commands | files, flags | read, write, print | none | - |
| Python CLI (`src/src/python`) | - | - | deprecated predecessor | - |

How they meet: `env apply` asks the lease guard, computes a plan (reconcile) from
the registry's declarations, the graph and the snapshot, seeds the plan's batch
(`internal/bom`) and gives it to the scheduler, once for the substrate and once
for the rest, and records the snapshot. A session gets its environment from the
pool, which takes a lease under the leases lock and registers an environment if
none is free; whoever reads a lease of a dead session becomes the one that has to
stop its environment. The pool asks the container engine what runs before it
takes the lock. The upgrade works on volumes of the control plane and asks
whether a container holds them. `env start` starts the control plane first, under
the substrate lock, and then the environment without it; both open a window in
which Floci may wake other environments and end it with a sweep.

## 2. The modules

| module | models | shape |
|---|---|---|
| `DeployGraph` | payloads and the edges `schedule.go` keeps of them | operators |
| `Scheduler` | `Run` with its workers | state machine over `DeployGraph` |
| `DeployBatch` | what `Run` promises: nodes land in some order that respects dependencies, classes and the limit | abstract specification |
| `SchedulerRefines` | the refinement mapping from `Scheduler` to `DeployBatch` | `INSTANCE ... WITH` |
| `SchedulerProofs` | theorems about `Scheduler` | TLAPS |
| `Lease` | the lease store, its processes, their deaths | state machine |
| `EnvUse` | what leases promise of one environment's use | abstract specification |
| `LeaseRefines`, `LeaseProofs` | refinement of `EnvUse`, theorems about `Lease` | `INSTANCE`, TLAPS |
| `LeaseCommands` | commands that use the store in two sections | extends `Lease` |
| `LeaseCommandsProofs` | theorems about `LeaseCommands`, on top of those about `Lease` | TLAPS |
| `Pool`, `PoolProofs` | the pool's queue and running budget | state machine, TLAPS |
| `Apply`, `ApplyProofs` | apply and purge of one environment | state machine, TLAPS |
| `PgUpgrade`, `PgUpgradeProofs` | `nsctl db upgrade` of one data volume | state machine, TLAPS |
| `RegistryData` | the registry as a value, and the edits made to it | operators |
| `Registry` | `Update` under the registry lock, on copies | state machine |
| `RegistryEdits` | what `Update` promises: one edit of the file at a time | abstract specification |
| `EnvCommands` | add, delete, purge, start, stop side by side, their windows and sweeps | extends `Registry` |
| `EnvCommandsProofs` | theorems about `Registry`, and on top of them about `EnvCommands` | TLAPS |
| `ControlPlane` | control-plane start, bootstrap and stop; containers, ports, routes | actions and state |
| `EnvStart` | environment start and stop over the control plane | extends `ControlPlane` |
| `EnvStartProofs` | theorems about `EnvStart`, and with it about `ControlPlane` | TLAPS |
| `MCScheduler`, `MCLease`, `MCLeaseCommands`, `MCPool`, `MCApply`, `MCPgUpgrade`, `MCEnvCommands`, `MCPlatform` | constants of the runs | |

A definition preceded by a comment that begins with "Mutant:" is the operator
after it as a plausible bug would have it. No specification uses it; it is there
so that each property can be shown to notice something.

### Scheduler

A payload is a sequence of nodes with a repo class and the positions each depends
on; 0 stands for an edge out of the batch. The state is that of `Run`: `unmet`,
the `ready` list, as its members and when each joined, in the code's order (the order in which nodes became ready,
which is not payload order, though the comment of `take` says so), `busy`
classes, nodes in flight and completed, `stopped`, the first failure. A worker
is a node that has an outcome and then a status call; it reports on the channel
even when the context is cancelled. Interruption is the context of the command.

### Lease

A file is `[kind, owner, gen, ...]`; the token is a generation number per
environment, as random tokens never repeat. `Current` is the code's `current`:
reading a lease under the lock reaps a dead one and queues the stop of a
session's environment behind a placeholder; the stops run when the lock is
released, and a second locked section gives the environment back if the
placeholder is still the one written. Every operation is one locked section and
so one action. Time is the action `Lapse` (a TTL that passes) and the fault
`longstop` (a stop that outlasts `stopTTL`). All processes are on one host and
have a PID that is watched. Faults: `exit`, `lapse`, `crash`, `steal`,
`longstop`.

### LeaseCommands

`doing` is what a command has found out in its first section. `Habits` names
what users may be relied on for; each of them is needed, which the comments of
the hazards in `PROJECT.json` and section 6 say.

### Pool

A run asks the engine what is up, looks under the lock at leases, queue and
budget, and sleeps. Freshness of a waiter's heartbeat is a flag that a slow stop
or a death clears. Which of several usable environments has the better score is a
free choice. Of a lease only what the pool looks at is kept. `arrivals` is a
history: of any two runs, which joined the queue first, as long as neither has
been pruned since.

### Apply

A declaration and a tree are numbers that grow with each edit, and a digest is
that number, so digests are equal exactly when contents are. `live` is what is
really there, `graph` what the deployment service says, `snap` what the last
apply recorded. A batch's nodes end in any order (the scheduler's own order is
`Scheduler`'s subject); seeding that fails has registered any part of it. One
command works on an environment at a time, as the lease guard has it. The purge
is three steps, with deaths in between. Left out: failures to write or remove the
marker or the state directory, which the code only warns about, and edits that
go back to an earlier content.

### PgUpgrade

A directory is the major that wrote it and the set of objects in it; `Base` is
what `initdb` makes. Each step is an action, and the record of its stage is
another, `Record`, so a command may die between them. A stage is recorded in the
manifest inside the dump volume. A plan is the set of places in `AllSteps` still to
do, which go in their order. A server that is started on an emptied directory
initialises it, one that is started on another major's or a broken one does not
come up. `rm -rf` that stops partway leaves a directory that no detector sees,
as `PG_VERSION` goes among the first. Thirteen kinds of fault, listed at
`AllFaults`; `faults.met` remembers which have happened, so that a property can
name those under which the code does not keep it. Volumes are migrated one after
the other and share nothing: one is modelled. Contents are sets of objects, not
rows.

### Registry

`file` is the registry on disk, `copy[p]` what process `p` loaded under the lock.
`Update` is three steps - `LockRegistry` takes the lock and loads, an action named
`Save...` makes one edit to the copy and saves it, `Abandon` is an edit that is
refused or a process that dies - so that a lock that did not exclude would show.
`RegistryEdits` has the same edits as single steps on the file. Of an entry the
account and the port slot are kept; hashing a name to a slot is the constant
`Preferred`. Waiting for the lock ends after 30 seconds in the code; in the model
the command may be cut off instead.

### EnvCommands

What an environment deploys is one container `<<name, account>>`, since labels
carry the account and never the name. `view[p]` is the registry as `p` read it,
and is used to the end, as in the code. A start is two windows, the control
plane's under the substrate lock and the environment's own; each loads, notes
what is up (`before`), lets Floci wake anything (`Wake`), and sweeps: an
environment is judged (`Judge`) and its containers then stopped (`StopWoken`), in
two steps, as in the loop of `StopWoken`. `touched[p]` is what the activity stamps
show `p`: the environments stamped since its window opened. `env start` on a host
without a registry looks, takes the lock and looks again before it registers the
first environment, as two first starts may meet. Histories: `started`
(what a start brought up), `asked` (what somebody wants up) and `missed` (what no
sweep is going to find).

### ControlPlane and EnvStart

A container is a record: `absent`, `exited` or `running`; the configuration it was
created from; where it is on the network - `bare`, `aliased`, `off` (it left to
join again with an alias), `moved` (it joined again and its server still listens
on the old address); and whether what it mounts was deleted (`cut`). A command is
a stage `at`, in the order of `controlplane.Start` and `environment.Start`, and
`half`, what it is in the middle of within a stage. Each stage is one call or
several that only read; every call that changes a container twice (`Ensure`,
`UpService`, `Alias`, `Reconcile` with `Clear`) is as many steps. A start that
fails where the code returns an error goes to `failed`; where the code warns, the
fault `fails` lets it go on (`StartWarns`, `EnvWarns`). `plan.pass` is which of
the three passes an environment's start is in: before the deploy, again for a
cluster the deploy made, and the refresh after it.

What goes wrong is counted by `MaxEvents`. Two histories keep the properties from
promising what no code could: `troubled`, the commands during which something
outside them went wrong, and `scars`, what an earlier command or deletion left
that no start looks at (section 6). Everything else that earlier commands left
behind, cut off at any point, a start has to repair. The environment's mode is
full if its manifest declares a cluster, else core.

## 3. What is checked

Twelve runs; nine must hold, three show a place where the code does not do what
it says of itself. Sizes are distinct states.

| run | instance | what it shows |
|---|---|---|
| `Schedules` (240 000) | every graph on three nodes, cycles included, under four ways of sharing classes; a diamond, two chains and a wide batch of four; the edges the code drops; `parallelism` 0, 1, 2 | the inductive invariant, the limit in it; dependencies first, classes apart; `Succeeded` and the verdict are exact, also with completions after a failure; `Run` returns; `Run` implements `DeployBatch` |
| `LeaseFaults` (130 000) | 2 agents, 3 `nsctl` processes, 1 environment, 5 generations, every fault | a token names one lease (`IInv`); no live lease is lost but by its own release or to a steal; the environment always comes back |
| `LeaseUse` (130 000) | 2 agents, 2 processes, 2 environments, 4 generations, exits and lapses | placeholders cover every stop; `Lease` implements `EnvUse`: nobody gets an ended session's environment before its stop, and each stop happens |
| `LeaseStealStops` (violation) | 2 agents, 1 process, exits and steals | a steal takes the placeholder of a queued stop, which then stops the environment of its new holder |
| `CommandsKept` (240 000) | 2 agents, 2 processes, 2 environments, all three habits | the two-section commands keep one lease per session and no deploy over another |
| `PoolQueue` (250 000) | 2 runs of the pool and one that names its environment; 2 environments of which one is registered at first; no budget and a budget of 1; deaths, cancelled waits, slow stops, environments kept running | served in the order of arrival, by-name waiters included; a grant keeps the budget if the engine's answer still holds; everyone is served unless idle environments fill the budget for ever |
| `Applies` (3.5 M) | a substrate instance that is probed and one above it with a tree, two edits each, every fault | after a success nothing is missing; where the snapshot has a digest nothing older than the plan's declaration is deployed; no snapshot is ahead |
| `ApplyLosesDrift` (violation) | one substrate instance, one above | the snapshot after two phases forgets phase A; the next edit to it is recorded and never deployed |
| `Upgrade` (870 000) | two objects the user may have, three faults of any of thirteen kinds, one change by the user | the directory is emptied only on a whole dump of it; the data is always somewhere; the report is true; which failures another run gets over |
| `UpgradeRedumps` (violation) | one death between a step and its record | the next run dumps the emptied directory over the good dump |
| `Commands` (610 000) | 2 processes, 3 commands, 3 names of which two are registered and two hash to one slot, processes cut off | no registration is lost (`ImplementsEdits`); no start's sweep takes down what another start brought up; after all commands what is up was asked for; no account goes to another environment with containers on it |
| `Platform` (1.35 M) | 2 processes, 2 commands, 2 events of seven kinds, 3 ports; an environment with graph, cluster and Trino and one with a database alone; a host with nothing on it, brought up, or stopped | a start that says ready, with nothing going wrong during it, is right, whatever was left before; one that fails had a cause; a recorded port stays |

**Bounds.** Three nodes are the least on which two dependencies land in either
order and two waiting nodes share a class; four nodes add the diamond. Two agents
and two processes are the least that overlap; the third process in `LeaseFaults`
reaps what a process that died while reaping left behind, and five generations
are a session, its placeholder, a second use, its placeholder and a third use.
`MaxGen` caps acquisitions in the guards of `Lease` and nothing else. Three runs
at the pool are a holder and two that wait behind it, by name and not. Two edits
let one happen before and one during an apply. `MaxFaults` 3 in `Upgrade` lets a
resume of a resume fail; `MaxUses` 1 lets the user write between any two runs.
Three commands in `Commands` are a first one that leaves something and two that
overlap; four accounts and three slots are more than three commands on two
environments can use up, so that only order decides who gets which. `MaxCommands`
2 and `MaxEvents` 2 in `Platform` are a start after one that was cut off, or beside
one, with something changed in between, and two changes before one start; with
three commands (8.3 million states) the same properties hold. Three ports let the
recorded one be taken, and the next. The runs turn deadlock checking off: the pool,
a batch, an apply with no edits left, a user who is content and a host with no
commands left really stop. `Schedules` alone keeps it, as a `Run` that returned is
the only state that may stop and says so.

**Symmetry** of agents and processes is used in runs without a liveness property
only; the temporal properties of `Commands` and `Platform` are about single steps
and single states, and do not tell processes apart.

**What the properties except.** Each is named in the formula, found by letting
TLC show that it is needed, and part of what the runs show.

- `StopCovered` and `StoppedBeforeHandedOut` say which faults (`steal`,
  `longstop`, `crash`) they are promised without; `PgUpgrade`'s properties name in
  `Never({...})` the faults after which the code does not keep them: for example
  `Migrates` excepts a wipe that stops partway (no server starts on what is left,
  and no later run gets past it) and a restore that failed unseen (every later run
  verifies again, and fails again).
- `Apply`: `wrecked` is what a purge destroyed before dying without its mark;
  `untracked` is an instance deployed while the snapshot had no digest for it.
- `Commands` gives an environment one command at a time, which its lease is for.
  With the fault `overlap` (two commands on one environment, as for a user who
  takes no lease) `WokenGoesDown`, `CleanAccounts` and `StrandedOnlyByDelete` fail,
  and with a fourth command `StartedStaysUp` does; types and `ImplementsEdits`
  hold. `Undone` names the two races a sweep loses:
  an environment judged and not yet stopped when another start begins on it, and
  an account freed and given away inside the window. `missed` is what was woken in
  a window whose sweep never came, or stopped inside a window that had noted it.
- `Platform`: `troubled` and `scars`, above. The fault `unasked` (the engine does
  not say which published ports are ours) is left out of the run: with it
  `PortsStay` fails (section 6).

## 4. Fairness

- `Scheduler`: weak fairness of the dispatch loop, of every worker and of its
  completion: goroutines run. A container that never ends is outside the model.
- `Lease`: weak fairness of a stop that a living process runs (it is bounded by
  the engine's timeout) and strong fairness of some process reading all leases: a
  queued run polls every `Poll`, a session heartbeats, every command lists.
  `NeverWedged` assumes `SomebodyLooks`, that some process always runs or another
  starts, and is about nothing if the user never runs `nsctl` again.
- `Pool`: weak fairness of a run's poll loop, of its stops, and of a session's
  end. A dead run does nothing.
- `PgUpgrade`: the user runs the command again after a failure and stops the
  platform for it now and then (weak fairness of the stop; strong fairness of the
  command, as a platform may come up in between). Nothing else is fair; faults
  are bounded by `MaxFaults`.
- `Apply`, `Registry`, `EnvCommands`, `EnvStart`: none. A user may stop giving
  commands, and a command may be cut off anywhere; what is claimed of them is
  safety.

## 5. What is proved

TLAPS checks every theorem for all values of the constants under the `ASSUME`s of
the modules, which type the constants and nothing more: payloads are sequences of
nodes whose edges may point anywhere, `Requested` parallelisms any integers;
agents, processes and faults any sets that fit their types.

**Scheduler** (`SchedulerProofs`). `TypeCorrect`, then the inductive invariant
`SchedInv`: `UnmetCounts` (`unmet[i]` is the number of distinct predecessors that have
not landed), `Ripe` (what is ready or started has the count zero), `BusyIsHeld` (a class is busy exactly while one of its nodes is in
flight), `OutcomeKnown`, `FailureStops`, with `ClassExclusion` and `WithinLimit`.
Dependency order is not inductive: that a node which starts has all its
predecessors landed follows only from its being in the ready list with count zero
and from the count being right, which a completion changes for all successors at
once. `ReceiveSchedInv` is that step. From `SchedInv` follow `DependencyOrderHolds`,
`ClassExclusionHolds`, `WithinLimitHolds`, `FailFastHolds` and, with the step
lemma `AbstractStep`, `SafelyImplementsBatch`: every behaviour of `Run` is one of
`DeployBatch`'s safety part. `IInv` adds `ResultInv`, about what `Run` returns:
`ReadyIsAll` (nothing that could start is forgotten), `LandingOrder` (`Succeeded`
lists what landed, each node once and after all it depends on), `Recorded` and
`Over`. From it follow `SucceededIsExactHolds` and `VerdictIsTrueHolds`. That success
means a batch without a cycle is read off the order of `Succeeded`: of any set of
nodes the one that landed first waits for none of the others (`LandedIsAcyclic`).
That a cycle is reported only if there is one is `ReadyIsAll`.

**Lease** (`LeaseProofs`). Every operation is first shown to be a `Section`, one
pass under the lock over some environments (`LookIsSection`, `GrantIsSection`,
`ReleaseIsSection`), so that the invariant is proved for one shape. `IInv` says
that files fit, that tokens of agents and of stops are each of one lease
(`TokensAreOnes`, `StopTokensAreOnes`) and that a process owes stops exactly
between its two sections. That a token which differs from the file's is out of
date for ever, the code's whole defence against a late process, is the content
of these. `RightfulLossHolds` follows from `IInv`; `StopCoveredHolds` needs
`HeldWhileStopped` with it, and `StoppedBeforeHandedOutHolds` and
`ImplementsUseHolds` also `StopsPending` (an environment that is due has its stop
in some living process's queue), under the assumption `Undisturbed`: no steal, no
stop past `stopTTL`, no death of a stopping process. `ImplementsUseHolds` is
refinement of `EnvUse` without its liveness.

**Lease commands** (`LeaseCommandsProofs`). `CommandsUseLeases` shows that the
commands are users of the store, so that `Lease`'s theorems hold under them, and
`CommandsInvariant` what they remember between two sections. Each property
is proved from the habit it depends on and no other: `OneSessionPerAgentHolds`
from `one-acquire`, `NoDeployOverAnotherHolds` from `takes-idle`,
`NoStopUnderChangeHolds` from `takes-idle` and `waits` and the absence of steals and
of stops past `stopTTL`. Section 6 says what happens without them. The step that
carries the first is that nothing other than the session's own acquire gives it a
lease between its look and its taking one (`SessionsApart`); the second and
third follow from a lease, live and the agent's own, that covers a change from the
guard to its end (`ChangesCovered`), with `StopCovered` of the store.

**Registry** (`EnvCommandsProofs`, first part), for any processes, names, slots, accounts and any
first registry whose allocations are distinct. `RegistryInv` joins what `Update`
rests on - whoever holds the lock is its only holder and its copy is the file - to
`DistinctAllocations`. Neither is inductive alone: that two environments never
share a slot or an account follows from the allocation being made on the copy, and
so needs the copy to be the file; `Invariant` proves both together, one step per
action. From it follow `AllocationsDistinct` and, as every save is then an edit of
the file itself, `NoEditLost`: `Registry` implements `RegistryEdits`, which is the
property `ImplementsEdits` of run `Commands`.

**Environment commands** (`EnvCommandsProofs`), for any processes, names and number
of commands. Whatever commands overlap, each is a user of `Registry`
(`CommandsKeepRegistry`): `Typed` says that a command has read the account it works on,
and so none loses an edit (`CommandsLoseNoEdit`) and `TypeOKHolds`. The rest is proved
under `OneAtATime`, which is `"overlap" \notin Faults`: of the commands that need a
lease no two work on one environment. That is what leases promise, and section 6
says what fails without it. `IInv` follows a window from
its opening to its last stop. `OwnEnvironment` keeps what a command has read of
its own environment true to the end; `Addressed` says whose a container can be, which
gives `CleanAccountsHolds` and `StrandedOnlyByDeleteHolds`. `WokenGoesDownHolds` is
`WokenWillStop`: whatever is up is excused or some window is still going to stop it.
It needs to know of every window what was up or worked on when it opened
(`WindowsExcuse`), and that an environment registered since was stamped in it
(`WindowsKnow`). `StartedStaysUpHolds` is the converse, `StartedIsKept`: no window
has on its list, or can put there, what another start brought up.

**Pool** (`PoolProofs`), for any runs, wishes, budgets and faults. `PlacesFit`: a
file in the queue carries the place its run took once and for all, and no place is
past the number of runs that joined; a run takes one past the greatest, so the
numbers never run out. `InOrder`: of two that have kept their places the later has
the greater number. Neither a pruned run that comes back with its old place
nor a tie between it and another breaks this, as `arrivals` forgets whoever is
pruned. With `GrantIsLook` (only a look grants, and only to the run that looks)
`ServedInTurnHolds` follows, and `BudgetAsAskedHolds` by counting the environments
that are in use before and after.

**Apply** (`ApplyProofs`), for any instances, trees, edits, purges and faults.
`PlanIsNewer` orders what is recorded before what is planned before what is
declared; `Progress` says what of a batch has landed, phase by phase; `GraphIsTrue`,
that what the graph calls deployed is there unless the purge marker says not to
believe it. `NothingMissingHolds`, `TrackedIsDeployedHolds` and
`NothingRecordedAheadHolds` follow. `Progress` alone is not inductive: an apply that
passes over an instance trusts the graph and the snapshot, so what an apply leaves
behind when it is cut off anywhere has to be part of the invariant.

**PostgreSQL upgrade** (`PgUpgradeProofs`), for any objects, any number of faults, of
runs and of changes by the user. `InOrder` says that a plan is left in whole tails
and that nothing past the dump's check is left without the dump on record;
`Copied`, `StagesAhead`, `RecordsTrue` and `Forward` say what the backup, the
recorded stage and the manifest's inventory mean for where the data is, each under
the faults it survives; `WipeReady`, that between a run's dump and its wipe
the directory gains nothing. From these `WipeOnlyProvenHolds`,
`ForwardUnlessCutOffHolds` and `ReportIsTrueHolds`. `RecoverableHolds` says two
things. What the first run found stays in one of three volumes whatever fails, but for a
torn copy (`Copied`). What the user has written since does through two faults that are
not a restore cut short or a stage unrecorded: `Clean` says
that before the first fault nothing is ever only in the dump, and `TwoFaultsKeep`
counts from there - one fault leaves a run that has emptied the directory and is
about to restore it from a whole dump (`Restoring`), a second one leaves a directory
no later run dumps over that dump (`Dangling`), and only a third loses the dump.

**Control plane and environment start** (`EnvStartProofs`), for any processes, ports,
declarations, commands and things that go wrong. The last section of `EnvStart` states
the inductive invariant, in two parts. `PlatformInv` holds whatever goes wrong
(`PlatformHolds`): who has the substrate and the environment (`StagesFit`), which pass a
stage is of (`PassFits`), what is off the network and in whose hands (`NetsFit`), what
the proxy serves and whose port it has (`ProxyFits`), what a bootstrapped home has
(`HomeFits`), whose the cluster's record is (`ClusterFits`), and stage by stage what a
start that nothing went wrong for has made sure of (`StartFits`). The first six are
about every history, cut off anywhere, and that is why they are needed: a start
does not do again what it finds done, so what it finds must be worth what it takes it
for. `LocksHold` and `ReadyIsTrue` (`TypeOK`, `ReadyServes`) follow. `ServiceInv` says
the same of an environment's start: that what the control plane's start made sure of
stays so while any other command runs (`ServedFits`), that the routes are served
(`RoutesFit`), what the first pass and the deploy leave for the second (`EnvFits`), and
what the second makes sure of (`RefreshFits`). It rests on `"unasked" \notin Faults`: where
the engine does not say whose a published port is, a second start moves the port under
the first (section 6). With it, `EnvReadyIsTrue` (`EnvReadyServes`), and of single steps
`FailuresHaveCauses` (`FailsForCause`) and `PortIsKept` (`PortsStay`). Each action is first
turned into what it changes, in words that say nothing of records and functions (`Up`,
`Net`, `Walks`, `Touches`), then shown to keep each part (`GiveKeeps` to
`AliasGraphKeeps`), which `NextFits` puts together.

These proofs are in eight modules. All their inductive invariants were found by
letting TLC check them on the instances of section 3 first; `Schedules` and
`LeaseFaults` still list theirs among their properties. TLC finds each part of
`EnvStart`'s to hold on the instance of `Platform`, and those of `PlatformInv` with
`unasked` too; they are not among that run's properties, which follow from them.

**Model-checked only.** All liveness (`Termination`, `NeverWedged`,
`Served`, `Migrates`, the fair halves of the refinements): TLAPS does not reason
about fairness or `ENABLED`. Every other property of a run that must hold is stated by a
theorem; of `ImplementsBatch` and `ImplementsFairUse` the steps are. The three runs that
show a violation are counterexamples, and need no proof.

## 6. Where the code and its words part

Three are runs (section 3). Others came up while modelling, each reachable in a
module by widening the constants of the run named, and are excepted by name in
the properties or the constants:

- two overlapping `acquire --session` of one session both take an environment
  (`CommandsKept` without the habit `one-acquire`; `cmd/env_lease.go:153`);
- a command let through on an environment nobody held goes on changing it after
  it is leased (`CommandsKept` without `takes-idle`; `cmd/env_lease.go:869`);
- a waiter whose look stops an environment for longer than `waiterStale` is
  pruned and overtaken (excepted in `ServedInTurn`, which speaks of waiters not pruned;
  `lease.go:637`);
- a purge that dies between the containers and the snapshot leaves an environment
  that apply calls current (`NothingMissing` without `wrecked`; `purge.go:258`);
- a resume from `wiped` sets the stage back to `dumped` (`execute.go:181`), so two
  failed restores bring the next run to dump a directory that is not the user's;
- a torn copy is kept as the backup (`execute.go:123`), an unreadable manifest
  counts as none (`state.go:66`), a verified manifest outlives its migration
  (`pgupgrade.go:245`), the inventory is not read again with the dump
  (`pgupgrade.go:173`), a killed command leaves its helper up (`execute.go:51`);
- a sweep judges an environment and stops its containers afterwards: a start that
  begins on it in between has its containers stopped (`internal/floci/wake.go:96`;
  `StartedStaysUp` without `Undone`);
- `env delete` looks for running containers and unregisters later; what runs
  afterwards has no name, and after an overlap its account may be given away
  (`cmd/env.go:881`; run `Commands` with `overlap`);
- two purges of one environment side by side: the first unregisters it and frees its
  account, an environment registered and started in between gets that account, and
  the second, which looks for containers by the account it read, destroys what was
  started (`purge.go`; `StartedStaysUp` with `overlap` and four commands);
- a start that is interrupted sweeps with a cancelled context, that is, not at all
  (`internal/environment/environment.go:141`; `WokenGoesDown` without `missed`);
- `control-plane stop` says "It refuses while any environment is still running"
  (`cmd/controlplane.go:147`). It asks `status.Running`, which wants every row of
  an environment running (`internal/status/status.go:90`), and core and full modes
  always have a row for the graph, absent where none was declared, "a normal state
  rather than a fault" (`status.go:451`): an environment without a graph is never
  counted, nor is one that is half up. The model has this guard as it is
  (`ReportedRunning`);
- where the engine cannot say which published ports are ours the code takes all of
  them for foreign and moves and records every port (`controlplane.go:461`; run
  `Platform` with `unasked`);
- scars, that is, what no start repairs while it says ready: a start cut off
  between deleting the record of a stale cluster and removing its container leaves
  a container that is neither replaced nor forced into the plan
  (`internal/floci/k3s.go:596`); one cut off between a container's leaving the
  network and its joining again leaves it off (`internal/container/docker.go:440`),
  and between that and the restart of a graph leaves it bound to its old address
  (`internal/floci/rds.go:148`); a home deleted under a running proxy or router
  leaves them on the deleted directory, for only Floci is asked what it mounts
  (`internal/controlplane/datadir.go:35`); Floci's data deleted and the registry
  kept leaves it bootstrapped with nothing built; `env stop` whose stop of the
  router fails removes the router's directory under it;
- `VerifyK3sAlive` runs before the deploy, and a cluster that dies during it is
  reported ready (a `Kill` in a start; `environment.go:514`);
- the comment at `controlplane.go:399` on a non-empty `floci/data` speaks of a test
  that `legacyMarker` (`internal/registry/registry.go:422`) no longer makes.

## 7. What is not modelled, and the plan

Parts without a module are in the table of section 1 and, with reasons, under
`components` in `PROJECT.json`: sign-in, artifacts and versions, inspection,
manifests and the Python CLI. They are sequential parsers, text, downloads, or
calls retried until they answer. Left out of the modules: printing, logging, output
multiplexing, the container a node runs, scores of the pool, several volumes of an
upgrade, rows inside an object, hosts other than one, and signals that skip deferred
calls other than as a death (`SIGHUP` among them). Of the platform: `--no-deploy`,
`--force-full-redeploy`, substrate `none`, reset and full purge, extensions and the
GUI, sign-in and DNS containers, the kubeconfig and what is set up inside a cluster
but for Trino's port and the Ingress hostnames, the ownership check, a cluster whose
address changes, and the engine's own restart policies. Floci's waking of environments
is in `EnvCommands` and not in `Platform`: their states multiply, and no property
needs both.

In order:

1. Proofs: that `Pool`'s leases are `Lease`'s.
2. `Apply` composed with `Scheduler` for its two phases, and with edits that go
   back to an earlier content.
3. Reset and full purge beside running starts, which take no substrate lock.
4. Version selection (`internal/versionspec`) as operators against a reference
   definition; the device grant against its store.
