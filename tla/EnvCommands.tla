---------------------------- MODULE EnvCommands ----------------------------
(***************************************************************************)
(* nsctl env add, delete, purge, start and stop, and control-plane start,  *)
(* run side by side on one host (cmd/env.go, internal/environment,         *)
(* internal/controlplane, internal/floci/wake.go, internal/envactivity).   *)
(* Whatever starts asks Floci, and Floci wakes every environment it knows; *)
(* a start therefore notes what was up when its window opened and sweeps   *)
(* what came up since.  What an environment deploys is one container.      *)
(***************************************************************************)
EXTENDS Registry

CONSTANTS
  Initially,    \* the registries a host may have at first
  MaxCommands,  \* bound: how many commands are given
  Faults        \* a subset of AllFaults

\* A process is interrupted or dies; two commands work on one environment.
AllFaults == {"quit", "overlap"}

ASSUME CommandsAssumption ==
  /\ Initially \subseteq Registries
  /\ \A r \in Initially :
       /\ \A s, t \in Registered(r) : s # t => r.slot[s] # r.slot[t] /\ r.acct[s] # r.acct[t]
       /\ \A s \in Slugs : r.acct[s] \notin r.retired
  /\ MaxCommands \in Nat
  /\ Faults \subseteq AllFaults

\* An environment's container carries its name and the account it was made for.
Container(s, a) == <<s, a>>
Containers == Slugs \X Accounts
NoSlug == "none"
ASSUME NoSlugAssumption == NoSlug \notin Slugs

VARIABLES
  phase,      \* phase[p]: where p's command is
  env,        \* env[p]: the environment it is about, NoSlug for the control plane's
  view,       \* view[p]: the accounts in the registry p loaded
  before,     \* before[p]: the containers up when p's window opened
  touched,    \* touched[p]: the environments stamped since then
  list,       \* list[p]: what p's sweep has still to look at, as <<name, container>>
  doomed,     \* doomed[p]: the name whose containers it is stopping
  substrate,  \* who holds the substrate lock
  made,       \* the containers Floci has persisted
  up,         \* those that run
  started,    \* those a start brought up and no race excuses, not stopped since (history)
  asked,      \* the environments somebody asked to be up (history)
  missed,     \* those no sweep is going to find woken (history)
  left        \* how many commands may still be given

commandVars == <<phase, env, view, before, touched, list, doomed>>
hostVars == <<substrate, made, up, started, asked, missed, left>>
vars == <<registryVars, commandVars, hostVars>>

InWindow == {"cp", "cp-sweep", "env", "env-up", "env-sweep"}

\* The shared lock of internal/envactivity, held by a start of s.
Starter(p) == phase[p] \in {"env", "env-up", "env-sweep"}
Active(s) == \E p \in Procs : env[p] = s /\ Starter(p)

NoView == [s \in Slugs |-> ControlPlaneAccount]

\* The container p works on; of the control plane, none.
Of(p) ==
  IF env[p] = NoSlug THEN Container(NoSlug, ControlPlaneAccount)
  ELSE Container(env[p], view[p][env[p]])

\* The containers that carry the account v has for s, as the label finds them.
Labelled(v, s) == {c \in made : c[2] = v[s]}

Init ==
  /\ \E r \in Initially : RegistryInit(r)
  /\ phase = [p \in Procs |-> "idle"]
  /\ env = [p \in Procs |-> NoSlug]
  /\ view = [p \in Procs |-> NoView]
  /\ before = [p \in Procs |-> {}]
  /\ touched = [p \in Procs |-> {}]
  /\ list = [p \in Procs |-> {}]
  /\ doomed = [p \in Procs |-> NoSlug]
  /\ substrate = {}
  /\ made = {Container(s, file.acct[s]) : s \in Registered(file)}
  /\ up \in SUBSET made
  /\ started = up
  /\ asked = {c[1] : c \in up}
  /\ missed = {}
  /\ left = MaxCommands

-----------------------------------------------------------------------------
Goes(p, to) == phase' = [phase EXCEPT ![p] = to]

\* A command that has ended remembers nothing.
Ends(p) ==
  /\ Goes(p, "idle")
  /\ env' = [env EXCEPT ![p] = NoSlug]
  /\ view' = [view EXCEPT ![p] = NoView]
  /\ before' = [before EXCEPT ![p] = {}]
  /\ list' = [list EXCEPT ![p] = {}]
  /\ doomed' = [doomed EXCEPT ![p] = NoSlug]

\* stamp: every window that is open sees that s was worked on in it.
Stamped(s) ==
  [p \in Procs |-> IF phase[p] \in InWindow THEN touched[p] \cup {s} ELSE {}]

\* What registers an environment asks for no lease.
Registering == {"adding", "looked", "first"}

\* A lease keeps others' commands off an environment (module LeaseCommands).
Alone(p, s) ==
  \/ "overlap" \in Faults
  \/ \A q \in Procs \ {p} : env[q] = s => phase[q] \in Registering

Begins(p, s, to) ==
  /\ phase[p] = "idle" /\ left > 0
  /\ to \in Registering \/ Alone(p, s)
  /\ left' = left - 1
  /\ Goes(p, to)
  /\ env' = [env EXCEPT ![p] = s]

\* The command loads the registry and works on what it read.
Loads(p) == view' = [view EXCEPT ![p] = file.acct]

sweepVars == <<before, touched, list, doomed>>

-----------------------------------------------------------------------------
(* env add *)

Add(p, s) ==
  /\ Begins(p, s, "adding")
  /\ LockRegistry(p)
  /\ UNCHANGED <<view, sweepVars, substrate, made, up, started, asked, missed>>

SaveAdded(p) ==
  /\ phase[p] = "adding"
  /\ \/ SaveNew(p, env[p])
     \/ ~MaySaveNew(p, env[p]) /\ Abandon(p)
  /\ Ends(p)
  /\ UNCHANGED <<touched, hostVars>>

-----------------------------------------------------------------------------
(* env delete *)

\* Refused while the environment has a running container.
Delete(p, s) ==
  /\ s \in Registered(file)
  /\ Container(s, file.acct[s]) \notin up
  /\ Begins(p, s, "delete")
  /\ Loads(p)
  /\ UNCHANGED <<registryVars, sweepVars, substrate, made, up, started, asked, missed>>

LockToDelete(p) ==
  /\ phase[p] = "delete"
  /\ LockRegistry(p)
  /\ Goes(p, "deleting")
  /\ UNCHANGED <<env, view, sweepVars, hostVars>>

SaveWithout(p) ==
  /\ phase[p] = "deleting"
  /\ \/ SaveDeleted(p, env[p], view[p][env[p]])
     \/ env[p] \notin Registered(copy[p]) /\ Abandon(p)
  /\ Ends(p)
  /\ UNCHANGED <<touched, hostVars>>

-----------------------------------------------------------------------------
(* env purge *)

\* What is stopped inside a window that has noted it as up, or as worked on,
\* stays up when that window wakes it again.
Stops(cs) ==
  /\ up' = up \ cs
  /\ started' = started \ cs
  /\ missed' = (missed \ cs) \cup {c \in cs : \E q \in Procs : c \in before[q] \/ c[1] \in touched[q]}

Purge(p, s) ==
  /\ s \in Registered(file)
  /\ Begins(p, s, "purge")
  /\ Loads(p)
  /\ UNCHANGED <<registryVars, sweepVars, substrate, made, up, started, asked, missed>>

\* Mutant: what does not run is left.
DestroyRunning(p) ==
  /\ phase[p] = "purge"
  /\ LET gone == Labelled(view[p], env[p]) \cap up IN
     /\ made' = made \ gone
     /\ Stops(gone)
  /\ asked' = asked \ {env[p]}
  /\ Goes(p, "purged")
  /\ UNCHANGED <<registryVars, env, view, sweepVars, substrate, left>>

\* Everything of the account goes, whatever its name.
Destroy(p) ==
  /\ phase[p] = "purge"
  /\ LET gone == Labelled(view[p], env[p]) IN
     /\ made' = made \ gone
     /\ Stops(gone \cap up)
  /\ asked' = asked \ {env[p]}
  /\ Goes(p, "purged")
  /\ UNCHANGED <<registryVars, env, view, sweepVars, substrate, left>>

LockToUnregister(p) ==
  /\ phase[p] = "purged"
  /\ LockRegistry(p)
  /\ Goes(p, "unregistering")
  /\ UNCHANGED <<env, view, sweepVars, hostVars>>

SaveUnregistered(p) ==
  /\ phase[p] = "unregistering"
  /\ \/ SavePurged(p, env[p])
     \/ env[p] \notin Registered(copy[p]) /\ Abandon(p)
  /\ Ends(p)
  /\ UNCHANGED <<touched, hostVars>>

-----------------------------------------------------------------------------
(* env stop *)

Stop(p, s) ==
  /\ s \in Registered(file)
  /\ Begins(p, s, "stop")
  /\ Loads(p)
  /\ UNCHANGED <<registryVars, sweepVars, substrate, made, up, started, asked, missed>>

StopContainers(p) ==
  /\ phase[p] = "stop"
  /\ Stops({Of(p)} \cap made)
  /\ asked' = asked \ {env[p]}
  /\ Ends(p)
  /\ UNCHANGED <<registryVars, touched, substrate, made, left>>

-----------------------------------------------------------------------------
(* env start, and control-plane start *)

\* A home without environments gets its first one here.
StartFirst(p, s) ==
  /\ Registered(file) = {}
  /\ Begins(p, s, "looked")
  /\ UNCHANGED <<registryVars, view, sweepVars, substrate, made, up, started, asked, missed>>

LockFirst(p) ==
  /\ phase[p] = "looked"
  /\ LockRegistry(p)
  /\ Goes(p, "first")
  /\ UNCHANGED <<env, view, sweepVars, hostVars>>

\* Under the lock it is looked again: another start may have been first.
SaveFirst(p) ==
  /\ phase[p] = "first"
  /\ IF Registered(copy[p]) = {} THEN SaveNew(p, env[p]) ELSE SaveOther(p)
  /\ IF env[p] \in Registered(file') /\ Alone(p, env[p])
     THEN /\ Goes(p, "start") /\ asked' = asked \cup {env[p]}
          /\ UNCHANGED <<env, view, sweepVars>>
     ELSE Ends(p) /\ UNCHANGED <<touched, asked>>
  /\ UNCHANGED <<substrate, made, up, started, missed, left>>

StartEnv(p, s) ==
  /\ s \in Registered(file)
  /\ Begins(p, s, "start")
  /\ asked' = asked \cup {s}
  /\ UNCHANGED <<registryVars, view, sweepVars, substrate, made, up, started, missed>>

StartControlPlane(p) ==
  /\ phase[p] = "idle" /\ left > 0
  /\ left' = left - 1
  /\ Goes(p, "start")
  /\ UNCHANGED <<registryVars, env, view, sweepVars, substrate, made, up, started, asked, missed>>

\* What runs now of the environments p knows.
RunningEnvContainers(v) == {c \in up : \E s \in Slugs : v[s] = c[2]}

Opens(p, stamps) ==
  /\ Loads(p)
  /\ before' = [before EXCEPT ![p] = RunningEnvContainers(file.acct)]
  /\ touched' = [stamps EXCEPT ![p] = {}]

OpenControlPlane(p) ==
  /\ phase[p] = "start"
  /\ substrate = {}
  /\ substrate' = {p}
  /\ Opens(p, touched)
  /\ Goes(p, "cp")
  /\ UNCHANGED <<registryVars, env, list, doomed, made, up, started, asked, missed, left>>

\* Floci restarts what it has persisted, when it boots and when it is asked.
Wake(p, c) ==
  /\ phase[p] \in {"cp", "env"}
  /\ c \in made \ up
  /\ up' = up \cup {c}
  /\ UNCHANGED <<registryVars, commandVars, substrate, made, started, asked, missed, left>>

\* Something between Floci's start and the sweep goes wrong: no sweep at all.
ControlPlaneFails(p) ==
  /\ "quit" \in Faults
  /\ phase[p] = "cp"
  /\ substrate' = substrate \ {p}
  /\ missed' = missed \cup (up \ before[p])
  /\ Ends(p)
  /\ touched' = [touched EXCEPT ![p] = {}]
  /\ UNCHANGED <<registryVars, made, up, started, asked, left>>

\* What the sweep looks through: the containers by the account of each name.
ContainersByEnv(v) ==
  {x \in Slugs \X made : v[x[1]] # ControlPlaneAccount /\ x[2] \in Labelled(v, x[1])}

BeginSweep(p) ==
  /\ \/ phase[p] = "cp" /\ Goes(p, "cp-sweep")
     \/ phase[p] \in {"env", "env-up"} /\ Goes(p, "env-sweep")
  /\ list' = [list EXCEPT ![p] = ContainersByEnv(view[p])]
  /\ UNCHANGED <<registryVars, env, view, before, touched, doomed, hostVars>>

Sweeping(p) == phase[p] \in {"cp-sweep", "env-sweep"}

\* Mutant: what another start has finished with is not exempt any more.
ExemptActive(p, s) == s = env[p] \/ Active(s)

\* Mutant: nothing is stopped while another start runs.
ExemptWhileOthersRun(p, s) ==
  \/ s = env[p] \/ s \in touched[p]
  \/ \E q \in Procs \ {p} : env[q] # NoSlug /\ Active(env[q])

\* The one being started, and any another start worked on in the window.
Exempt(p, s) == s = env[p] \/ Active(s) \/ s \in touched[p]

Without(p, s) == [list EXCEPT ![p] = {x \in @ : x[1] # s}]

Judge(p, s) ==
  /\ Sweeping(p) /\ doomed[p] = NoSlug
  /\ \E x \in list[p] : x[1] = s
  /\ IF Exempt(p, s)
     THEN list' = Without(p, s) /\ UNCHANGED doomed
     ELSE doomed' = [doomed EXCEPT ![p] = s] /\ UNCHANGED list
  /\ UNCHANGED <<registryVars, phase, env, view, before, touched, hostVars>>

\* Of those it judged, what runs and did not before.
StopWoken(p) ==
  /\ Sweeping(p) /\ doomed[p] # NoSlug
  /\ Stops({c \in up \ before[p] : <<doomed[p], c>> \in list[p]})
  /\ list' = Without(p, doomed[p])
  /\ doomed' = [doomed EXCEPT ![p] = NoSlug]
  /\ UNCHANGED <<registryVars, phase, env, view, before, touched, substrate, made, asked, left>>

Swept(p) == Sweeping(p) /\ list[p] = {}

CloseControlPlane(p) ==
  /\ phase[p] = "cp-sweep" /\ Swept(p)
  /\ substrate' = substrate \ {p}
  /\ IF env[p] = NoSlug
     THEN Ends(p)
     ELSE /\ Goes(p, "cp-ready")
          /\ view' = [view EXCEPT ![p] = NoView]
          /\ before' = [before EXCEPT ![p] = {}]
          /\ UNCHANGED <<env, list, doomed>>
  /\ touched' = [touched EXCEPT ![p] = {}]
  /\ UNCHANGED <<registryVars, made, up, started, asked, missed, left>>

\* environment.Start loads the registry again, marks its environment active and
\* notes what is up.
OpenEnv(p) ==
  /\ phase[p] = "cp-ready"
  /\ IF env[p] \in Registered(file)
     THEN /\ Goes(p, "env")
          /\ Opens(p, Stamped(env[p]))
          /\ UNCHANGED <<env, list, doomed>>
     ELSE Ends(p) /\ UNCHANGED touched
  /\ UNCHANGED <<registryVars, hostVars>>

\* Two races a sweep loses: it has judged the environment of c already and not
\* stopped it yet, or c runs under an account that its window opened with as
\* another's, freed and given away since.
Undone(c) ==
  \E q \in Procs :
    \/ doomed[q] # NoSlug /\ <<doomed[q], c>> \in list[q]
    \/ phase[q] \in InWindow /\ \E s \in Slugs \ {c[1]} : view[q][s] = c[2]

\* Database, graph, cluster and what is deployed on them.
BringUp(p) ==
  /\ phase[p] = "env"
  /\ made' = made \cup {Of(p)}
  /\ up' = up \cup {Of(p)}
  /\ started' = IF Undone(Of(p)) THEN started ELSE started \cup {Of(p)}
  /\ asked' = asked \cup {env[p]}
  /\ Goes(p, "env-up")
  /\ UNCHANGED <<registryVars, env, view, sweepVars, substrate, missed, left>>

CloseEnv(p) ==
  /\ phase[p] = "env-sweep" /\ Swept(p)
  /\ touched' = [Stamped(env[p]) EXCEPT ![p] = {}]
  /\ Ends(p)
  /\ UNCHANGED <<registryVars, hostVars>>

\* Interrupted, the command lets go of its locks, and a start stamps its
\* environment, but no call to the container engine is made any more; a process
\* that dies does not stamp either.
Quit(p) ==
  /\ "quit" \in Faults
  /\ phase[p] # "idle"
  /\ IF p \in holders THEN Abandon(p) ELSE UNCHANGED registryVars
  /\ substrate' = substrate \ {p}
  /\ \E stamps \in BOOLEAN :
       /\ touched' = [IF stamps /\ Starter(p) THEN Stamped(env[p]) ELSE touched
                        EXCEPT ![p] = {}]
       /\ started' = IF stamps \/ ~Starter(p) THEN started ELSE started \ {Of(p)}
  /\ missed' = IF phase[p] \in InWindow THEN missed \cup (up \ before[p]) ELSE missed
  /\ Ends(p)
  /\ UNCHANGED <<made, up, asked, left>>

-----------------------------------------------------------------------------
Gives(p, s) ==
  \/ Add(p, s) \/ Delete(p, s) \/ Purge(p, s)
  \/ Stop(p, s) \/ StartEnv(p, s) \/ StartFirst(p, s)

Registers(p) ==
  \/ SaveAdded(p) \/ LockToDelete(p) \/ SaveWithout(p)
  \/ LockToUnregister(p) \/ SaveUnregistered(p)
  \/ LockFirst(p) \/ SaveFirst(p)

Starting(p) ==
  \/ OpenControlPlane(p) \/ CloseControlPlane(p)
  \/ OpenEnv(p) \/ BringUp(p) \/ CloseEnv(p)
  \/ BeginSweep(p) \/ StopWoken(p)
  \/ \E s \in Slugs : Judge(p, s)

Next ==
  \E p \in Procs :
    \/ \E s \in Slugs : Gives(p, s)
    \/ StartControlPlane(p)
    \/ Registers(p)
    \/ Destroy(p) \/ StopContainers(p)
    \/ Starting(p)
    \/ \E c \in Containers : Wake(p, c)
    \/ ControlPlaneFails(p) \/ Quit(p)

Spec == Init /\ [][Next]_vars

-----------------------------------------------------------------------------
TypeOK ==
  /\ RegistryInv
  /\ phase \in [Procs -> InWindow \cup
       {"idle", "adding", "delete", "deleting", "purge", "purged", "unregistering",
        "stop", "looked", "first", "start", "cp-ready"}]
  /\ env \in [Procs -> Slugs \cup {NoSlug}]
  /\ view \in [Procs -> [Slugs -> Accounts \cup {ControlPlaneAccount}]]
  /\ before \in [Procs -> SUBSET Containers]
  /\ touched \in [Procs -> SUBSET Slugs]
  /\ list \in [Procs -> SUBSET (Slugs \X Containers)]
  /\ doomed \in [Procs -> Slugs \cup {NoSlug}]
  /\ substrate \subseteq Procs
  /\ started \subseteq up /\ up \subseteq made /\ made \subseteq Containers
  /\ asked \subseteq Slugs /\ missed \subseteq Containers /\ left \in 0 .. MaxCommands

(***************************************************************************)
(* One start does not undo another's: what a start brought up stops        *)
(* running only when its own environment is stopped or purged, however     *)
(* the windows of starts overlap and whatever their sweeps find.  The two  *)
(* races of Undone, and a start that dies before its stamp, are excused.   *)
(***************************************************************************)
StartedStaysUp == [][\A c \in started \ started' : c \in up' \/ c[1] \notin asked']_vars

(***************************************************************************)
(* Starting one thing does not start another: once no command runs, what   *)
(* is up was asked to be.  Excused are what a window without a sweep woke, *)
(* what was stopped inside a window that had noted it as up, and what is   *)
(* left of a deleted environment, which Floci wakes and no sweep knows.    *)
(***************************************************************************)
WokenGoesDown ==
  (\A p \in Procs : phase[p] = "idle") =>
    \A c \in up \ missed : c[1] \in asked \/ c[2] \in file.retired

(***************************************************************************)
(* An environment starts on a clean account: no account that still holds   *)
(* what was deployed for one environment is registered for another.        *)
(***************************************************************************)
CleanAccounts ==
  \A s \in Registered(file), c \in made : c[2] = file.acct[s] => c[1] = s

(***************************************************************************)
(* Nothing runs that no command can address: a purge unregisters last, and *)
(* a start finds its environment as it read it.  Deleted environments are  *)
(* the exception again.                                                    *)
(***************************************************************************)
StrandedOnlyByDelete ==
  \A c \in up : file.acct[c[1]] = c[2] \/ c[2] \in file.retired
-----------------------------------------------------------------------------
(* The inductive invariant behind the properties, where one command at a     *)
(* time works on an environment                                              *)

\* The phases in which a command holds the registry lock, knows its environment
\* as registered, and has read of it what the registry says.
Locking  == {"adding", "deleting", "unregistering", "first"}
Starts   == InWindow \cup {"start", "cp-ready"}
Knows    == InWindow \cup {"delete", "deleting", "purge", "purged", "unregistering", "stop"}

\* No two commands work on one environment, and what a command has read of its
\* own stays true: nobody else registers it or removes it.
OwnEnvironment ==
  /\ \A p, q \in Procs :
       /\ env[p] = env[q] /\ env[p] # NoSlug
       /\ {phase[p], phase[q]} \cap Registering = {}
       => p = q
  /\ \A p \in Procs :
       /\ phase[p] = "idle" => env[p] = NoSlug
       /\ env[p] = NoSlug => phase[p] \in {"idle", "start", "cp", "cp-sweep"}
       /\ p \in holders <=> phase[p] \in Locking
       /\ env[p] # NoSlug /\ phase[p] \in Knows \cup Starts => env[p] \in Registered(file)
       /\ env[p] # NoSlug /\ phase[p] \in Knows => view[p][env[p]] = file.acct[env[p]]

\* A sweep looks through what its window's view gives every name.
SweepLists ==
  \A p \in Procs :
    /\ \A x \in list[p] : Sweeping(p) /\ view[p][x[1]] = x[2][2]
    /\ doomed[p] # NoSlug => Sweeping(p) /\ \E x \in list[p] : x[1] = doomed[p]

\* Every container is its environment's, or one a delete left behind; an
\* account that was retired is nobody's, and a purge leaves nothing on its own.
Addressed ==
  /\ \A c \in made : file.acct[c[1]] = c[2] \/ c[2] \in file.retired
  /\ \A s \in Slugs : file.acct[s] \notin file.retired
  /\ \A p \in Procs :
       phase[p] \in {"purged", "unregistering"} => \A c \in made : c[2] # view[p][env[p]]

\* What WokenGoesDown excuses.
Excused(c) == c \in missed \/ c[1] \in asked \/ c[2] \in file.retired

\* What a window does not stop is excused: what it noted as up, what was worked
\* on in it, what is being started.
WindowsExcuse ==
  \A q \in Procs, c \in made :
    /\ c \in before[q] => c \in up \cup missed
    /\ c[1] \in touched[q] => Excused(c)
    /\ phase[q] \in Starts /\ env[q] = c[1] => c[1] \in asked

\* What was registered since a window opened has been worked on in it.
WindowsKnow ==
  \A q \in Procs : phase[q] \in InWindow =>
    /\ \A c \in made :
         c[1] \in touched[q] \/ view[q][c[1]] = c[2] \/ c[2] \in file.retired
    /\ \A s \in Slugs : Active(s) => s \in touched[q] \/ view[q][s] = file.acct[s]

WillStop(q, c) ==
  /\ c \notin before[q] /\ c[1] \notin touched[q]
  /\ \/ phase[q] \in {"cp", "env", "env-up"} /\ view[q][c[1]] = c[2]
     \/ Sweeping(q) /\ <<c[1], c>> \in list[q]

\* What is up is excused, or some window is going to stop it.
WokenWillStop == \A c \in up : Excused(c) \/ \E q \in Procs : WillStop(q, c)

\* No window is going to stop what a start brought up: it noted it as up, or
\* finds it under its own name only and exempts that name.
StartedIsKept ==
  \A c \in started :
    /\ file.acct[c[1]] = c[2]
    /\ \A q \in Procs :
         /\ phase[q] \in {"delete", "deleting"} => c[1] # env[q]
         /\ phase[q] \in InWindow /\ c \notin before[q] =>
              \A s \in Slugs : view[q][s] = c[2] => s = c[1] /\ Exempt(q, s)
         /\ doomed[q] # NoSlug /\ <<doomed[q], c>> \in list[q] => c \in before[q]

IInv ==
  /\ TypeOK
  /\ OwnEnvironment
  /\ SweepLists
  /\ Addressed
  /\ WindowsExcuse
  /\ WindowsKnow
  /\ WokenWillStop
  /\ StartedIsKept
=============================================================================
