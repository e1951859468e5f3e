---------------------------- MODULE ControlPlane ----------------------------
(***************************************************************************)
(* nsctl control-plane start and stop (internal/controlplane), and what    *)
(* they do to the containers of the shared platform (internal/compose,     *)
(* internal/floci, internal/container): Floci, which emulates AWS and      *)
(* spawns the databases; the proxy, through which the host reaches it; the *)
(* control plane's database and graph.  A start brings up what is not up,  *)
(* replaces what was made from another configuration, bootstraps a new     *)
(* home, and says ready.  Any call may fail, the command may be cut off    *)
(* between any two, and containers, ports and directories change under it. *)
(***************************************************************************)
EXTENDS FiniteSetsExt, Functions

CONSTANTS
  Procs,        \* processes that run commands
  Ports,        \* host ports; the proxy's default is the least
  MaxCommands,  \* bound: how many commands are given
  MaxEvents,    \* bound: how many things go wrong
  Faults        \* which of AllFaults may

\* A command is cut off; a call whose failure is only warned of fails; a container
\* dies; the home, or Floci's data in it, is deleted; another program takes a port;
\* another Floci image is configured; the engine cannot say which ports are ours.
AllFaults == {"cut-off", "fails", "kill", "wipe", "wipe-data", "taken", "bump", "unasked"}

ASSUME PlatformAssumption ==
  /\ Ports \subseteq Nat /\ IsFiniteSet(Ports) /\ Ports # {}
  /\ MaxCommands \in Nat /\ MaxEvents \in Nat
  /\ Faults \subseteq AllFaults

\* Containers: those of the compose project, those Floci spawns, the
\* environment's own router.
Composed == {"floci", "proxy"}
Databases == {"db", "env-db"}
Graphs == {"graph", "env-graph"}
Spawned == Databases \cup Graphs \cup {"cluster"}
Boxes == Composed \cup Spawned \cup {"router"}

\* A container: whether it runs; what it was created from (Floci: the image
\* configured; proxy: the port; cluster: the image; router: how many ports); where
\* it is on the network: bare, aliased, off, or moved: aliased, but its server
\* still listens on the address it had; and whether what it mounts was deleted.
Absent == [st |-> "absent", config |-> 0, net |-> "bare", cut |-> FALSE]
Made(c, st) == [st |-> st, config |-> c, net |-> "bare", cut |-> FALSE]
Started(x) == [x EXCEPT !.st = "running", !.cut = FALSE,
                        !.net = IF @ = "moved" THEN "aliased" ELSE @]

Routes == {"floci", "services", "dbaccount", "deployed"}

VARIABLES
  box,        \* box[b]: container b
  disk,       \* the home: its registry's Bootstrapped and port, and its route fragments
  floci,      \* what Floci knows: the nodes built in it, the environment's gateways
  loaded,     \* the routes the proxy serves
  foreign,    \* the ports other programs hold
  image,      \* the Floci image configured
  proc,       \* proc[p]: its command, its stage, and what it is half way through
  substrate,  \* who holds the substrate lock
  troubled,   \* processes whose running command something went wrong for (history)
  scars,      \* what earlier commands or deletions left that no start repairs (history)
  left,       \* how many commands may still be given
  events      \* how many things have gone wrong

platformVars == <<box, disk, floci, loaded>>
worldVars == <<foreign, image>>
historyVars == <<troubled, scars>>
budgetVars == <<left, events>>

Idle == [job |-> "none", at |-> "idle", half |-> "no", found |-> FALSE]
NewFloci == [built |-> {}, gateways |-> {}]

Runs(b) == box[b].st = "running"
Reachable(b) == Runs(b) /\ box[b].net = "aliased"

\* Floci as the host reaches it: through the proxy.
FlociAnswers ==
  /\ Runs("floci") /\ Runs("proxy")
  /\ box["proxy"].net # "off" /\ "floci" \in loaded

-----------------------------------------------------------------------------
(* What every command does *)

At(p) == proc[p].at
Goes(p, to) == proc' = [proc EXCEPT ![p].at = to, ![p].half = "no"]
Stays(p, half) == proc' = [proc EXCEPT ![p].half = half]
Same == UNCHANGED <<worldVars, historyVars, budgetVars>>

Releases(p) == substrate' = substrate \ {p}

\* The command stops here and says so.
Refuses(p) ==
  /\ Goes(p, "failed") /\ Releases(p)
  /\ UNCHANGED platformVars

\* Container b is new or started again, so nothing old hurts it.
Heals(b, x) == scars' = IF x.net = "off" THEN scars ELSE scars \ {b}

\* Floci or the proxy comes up on the directories that are there now.
Boots(b, x) ==
  /\ box' = [box EXCEPT ![b] = Started(x)]
  /\ Heals(b, x)
  /\ floci' = IF b = "floci" /\ x.cut THEN NewFloci ELSE floci
  /\ loaded' = IF b = "proxy" THEN disk.frag ELSE loaded

Removes(b) ==
  /\ box' = [box EXCEPT ![b] = Absent]
  /\ floci' = IF b = "floci" /\ box[b].cut THEN NewFloci ELSE floci
  /\ UNCHANGED <<loaded, scars>>

\* nginx reads what it mounts; of a deleted directory nothing is left.
Served == IF box["proxy"].cut THEN {} ELSE disk'.frag
Reloads == loaded' = IF Runs("proxy") THEN Served ELSE loaded

\* upService: left, started, or removed and created. The container is up when the
\* stage is left; a removal is a step of its own.
UpService(p, b, want, next) ==
  LET x == box[b] IN
  /\ \/ /\ x.st = "running" /\ x.config = want
        /\ proc' = [proc EXCEPT ![p].at = next, ![p].found = @ \/ b = "floci"]
        /\ UNCHANGED <<box, floci, loaded, scars, substrate>>
     \/ /\ x.st # "absent" /\ x.config # want
        /\ Removes(b)
        /\ UNCHANGED <<proc, substrate>>
     \/ /\ (x.st = "absent" \/ (x.st = "exited" /\ x.config = want))
        /\ IF b = "proxy" /\ want \in foreign
           THEN /\ box' = [box EXCEPT ![b] = IF x.st = "absent" THEN Made(want, "exited") ELSE x]
                /\ Goes(p, "failed") /\ Releases(p)
                /\ UNCHANGED <<floci, loaded, scars>>
           ELSE /\ Boots(b, IF x.st = "absent" THEN Made(want, "exited") ELSE x)
                /\ Goes(p, next)
                /\ UNCHANGED substrate
  /\ UNCHANGED <<disk, worldVars, troubled, budgetVars>>

\* Mutant: a graph is aliased and left listening where it was.
EnsureNoRestart(p, b, next, without) ==
  LET x == box[b] IN
  /\ \/ /\ proc[p].half = "off"
        /\ box' = [box EXCEPT ![b].net = IF b \in Graphs THEN "moved" ELSE "aliased"]
        /\ Goes(p, next)
        /\ UNCHANGED scars
     \/ /\ proc[p].half = "no" /\ x.st = "exited"
        /\ box' = [box EXCEPT ![b] = Started(x)] /\ Heals(b, x)
        /\ UNCHANGED proc
     \/ /\ proc[p].half = "no" /\ x.st = "running" /\ x.net = "bare"
        /\ box' = [box EXCEPT ![b].net = "off"]
        /\ Stays(p, "off")
        /\ UNCHANGED scars
     \/ /\ proc[p].half = "no" /\ (x.st = "absent" \/ (x.st = "running" /\ x.net # "bare"))
        /\ Goes(p, IF x.st = "running" /\ x.net # "off" THEN next ELSE without)
        /\ UNCHANGED <<box, scars>>
  /\ substrate' = IF At(p)' = "failed" THEN substrate \ {p} ELSE substrate
  /\ UNCHANGED <<disk, floci, loaded, worldVars, troubled, budgetVars>>

\* EnsureRDSRunning and EnsureNeptuneRunning: started, aliased by leaving the
\* network and joining it again, and a graph that moved restarted.
Ensure(p, b, next, without) ==
  LET x == box[b] IN
  /\ \/ /\ proc[p].half = "off"
        /\ box' = [box EXCEPT ![b].net = IF b \in Graphs THEN "moved" ELSE "aliased"]
        /\ IF b \in Graphs THEN Stays(p, "moved") ELSE Goes(p, next)
        /\ UNCHANGED scars
     \/ /\ proc[p].half = "moved"
        /\ box' = [box EXCEPT ![b] = Started(x)] /\ Heals(b, x)
        /\ Goes(p, next)
     \/ /\ proc[p].half = "no" /\ x.st = "exited"
        /\ box' = [box EXCEPT ![b] = Started(x)] /\ Heals(b, x)
        /\ UNCHANGED proc
     \/ /\ proc[p].half = "no" /\ x.st = "running" /\ x.net = "bare"
        /\ box' = [box EXCEPT ![b].net = "off"]
        /\ Stays(p, "off")
        /\ UNCHANGED scars
     \/ /\ proc[p].half = "no" /\ x.st = "running" /\ x.net \in {"aliased", "moved"}
        /\ Goes(p, next)
        /\ UNCHANGED <<box, scars>>
     \/ /\ proc[p].half = "no" /\ (x.st = "absent" \/ (x.st = "running" /\ x.net = "off"))
        /\ Goes(p, without)
        /\ UNCHANGED <<box, scars>>
  /\ substrate' = IF At(p)' = "failed" THEN substrate \ {p} ELSE substrate
  /\ UNCHANGED <<disk, floci, loaded, worldVars, troubled, budgetVars>>

\* A node is deployed: what Floci already has stays as it is.
Builds(b) ==
  /\ floci' = [floci EXCEPT !.built = @ \cup {b}]
  /\ IF (b \in Spawned) /\ (b \notin floci.built \/ box[b].st = "absent")
     THEN /\ box' = [box EXCEPT ![b] = Made(box["floci"].config, "running")]
          /\ scars' = scars \ {b}
     ELSE UNCHANGED <<box, scars>>

DeployNode(p, b, next) ==
  /\ IF FlociAnswers
     THEN Builds(b) /\ Goes(p, next) /\ UNCHANGED <<disk, loaded, substrate>>
     ELSE Refuses(p) /\ UNCHANGED scars
  /\ UNCHANGED <<worldVars, troubled, budgetVars>>

-----------------------------------------------------------------------------
(* control-plane start, as far as "Control plane ready." *)

\* Mutant: a start goes on while another has the lock.
BeginAnyway(p) ==
  /\ At(p) = "lock" /\ proc[p].job \in {"start", "env-start"}
  /\ substrate' = substrate \cup {p}
  /\ disk' = [disk EXCEPT !.frag = @ \cup {"floci"}]
  /\ Goes(p, "ports")
  /\ UNCHANGED <<box, floci, loaded>> /\ Same

\* The lock, the registry, the sentinel and a configuration the proxy starts on.
Begin(p) ==
  /\ At(p) = "lock" /\ proc[p].job \in {"start", "env-start"}
  /\ substrate = {} /\ substrate' = {p}
  /\ disk' = [disk EXCEPT !.frag = @ \cup {"floci"}]
  /\ Goes(p, "ports")
  /\ UNCHANGED <<box, floci, loaded>> /\ Same

\* Mutant: the proxy's own port looks taken.
OursUnknown(asked) == {}

\* ChoosePorts: kept where it can be, else the first free of the others.
Ours(asked) == IF asked /\ Runs("proxy") THEN {box["proxy"].config} ELSE {}
Busy == foreign \cup (IF Runs("proxy") THEN {box["proxy"].config} ELSE {})
Free(asked) == Ports \ (Busy \ Ours(asked))
Alternatives == Ports \ {Min(Ports)}

Choose(asked) ==
  IF disk.port \in Free(asked) THEN {disk.port}
  ELSE IF Free(asked) \cap Alternatives = {} THEN {}
  ELSE {Min(Free(asked) \cap Alternatives)}

ChoosePorts(p) ==
  /\ At(p) = "ports"
  /\ \E asked \in {TRUE} \cup (IF "unasked" \in Faults THEN {FALSE} ELSE {}) :
       IF Choose(asked) = {} THEN Refuses(p)
       ELSE /\ \E q \in Choose(asked) : disk' = [disk EXCEPT !.port = q]
            /\ Goes(p, "up-floci")
            /\ UNCHANGED <<box, floci, loaded, substrate>>
  /\ Same

UpFloci(p) == At(p) = "up-floci" /\ UpService(p, "floci", image, "up-proxy")
UpProxy(p) == At(p) = "up-proxy" /\ UpService(p, "proxy", disk.port, "repair")

\* repairStaleFlociDataDir: only a Floci that Up left running is asked.
Repair(p) ==
  /\ At(p) = "repair"
  /\ IF proc[p].found /\ Runs("floci") /\ box["floci"].cut
     THEN Removes("floci") /\ Goes(p, "recreate")
     ELSE Goes(p, "health") /\ UNCHANGED <<box, floci, loaded, scars>>
  /\ UNCHANGED <<disk, substrate, worldVars, troubled, budgetVars>>

Recreate(p) == At(p) = "recreate" /\ UpService(p, "floci", image, "health")

\* checkProxyStarted and WaitForHealth, which goes through the proxy and is patient
\* with one that is just being moved.
BeingMoved == \E q \in Procs : At(q) = "alias" /\ proc[q].half = "off"

WaitForHealth(p) ==
  /\ At(p) = "health" /\ ~BeingMoved
  /\ IF FlociAnswers THEN Goes(p, "db") /\ UNCHANGED <<platformVars, substrate>>
     ELSE Refuses(p)
  /\ Same

EnsureDB(p) ==
  LET next == IF disk.boot THEN "graph" ELSE "storage"
  IN  At(p) = "db" /\ Ensure(p, "db", next, next)

EnsureGraph(p) == At(p) = "graph" /\ Ensure(p, "graph", "storage", "storage")

\* Provision and CheckStorage.
CheckStorage(p) ==
  /\ At(p) = "storage"
  /\ IF FlociAnswers /\ ~box["floci"].cut
     THEN /\ Goes(p, IF disk.boot THEN "routes" ELSE "deploy-db")
          /\ UNCHANGED <<platformVars, substrate>>
     ELSE Refuses(p)
  /\ Same

\* Bootstrap: the database, its alias, the graph, its alias, the services.
Bootstrap(p) ==
  \/ At(p) = "deploy-db" /\ DeployNode(p, "db", "alias-db")
  \/ At(p) = "alias-db" /\ Ensure(p, "db", "deploy-graph", "failed")
  \/ At(p) = "deploy-graph" /\ DeployNode(p, "graph", "alias-graph")
  \/ At(p) = "alias-graph" /\ Ensure(p, "graph", "deploy-services", "deploy-services")
  \/ At(p) = "deploy-services" /\ DeployNode(p, "services", "mark")

MarkBootstrapped(p) ==
  /\ At(p) = "mark"
  /\ disk' = [disk EXCEPT !.boot = TRUE]
  /\ Goes(p, "routes")
  /\ UNCHANGED <<box, floci, loaded, substrate>> /\ Same

\* The routes are rewritten from what Floci lists, and the proxy told.
WriteRoutes(p) ==
  /\ At(p) = "routes"
  /\ IF FlociAnswers
     THEN /\ disk' = [disk EXCEPT !.frag = (@ \ {"services"}) \cup (floci.built \cap {"services"})]
          /\ Reloads
          /\ Goes(p, "ready")
          /\ UNCHANGED <<box, floci, substrate>>
     ELSE Refuses(p)
  /\ Same

Start(p) ==
  \/ Begin(p) \/ ChoosePorts(p) \/ UpFloci(p) \/ UpProxy(p) \/ Repair(p) \/ Recreate(p)
  \/ WaitForHealth(p) \/ EnsureDB(p) \/ EnsureGraph(p) \/ CheckStorage(p)
  \/ Bootstrap(p) \/ MarkBootstrapped(p) \/ WriteRoutes(p)

-----------------------------------------------------------------------------
(* control-plane stop *)

\* Those who work on the platform and do not hold its lock are in for trouble.
Unlocked(p) == {q \in Procs \ {p} : At(q) \notin {"idle", "lock", "failed"}}

BeginStop(p) ==
  /\ At(p) = "lock" /\ proc[p].job = "stop"
  /\ substrate = {} /\ substrate' = {p}
  /\ Goes(p, "stop-spawned")
  /\ troubled' = troubled \cup Unlocked(p)
  /\ UNCHANGED <<platformVars, worldVars, scars, budgetVars>>

Stopped(bs) == [b \in Boxes |-> IF b \in bs /\ Runs(b) THEN [box[b] EXCEPT !.st = "exited"] ELSE box[b]]

StopSpawned(p) ==
  /\ At(p) = "stop-spawned"
  /\ box' = Stopped(Spawned)
  /\ Goes(p, "stop-composed")
  /\ UNCHANGED <<disk, floci, loaded, substrate>> /\ Same

StopComposed(p) ==
  /\ At(p) = "stop-composed"
  /\ box' = Stopped(Composed)
  /\ proc' = [proc EXCEPT ![p] = Idle] /\ Releases(p)
  /\ troubled' = troubled \ {p}
  /\ UNCHANGED <<disk, floci, loaded, worldVars, scars, budgetVars>>

Stop(p) == BeginStop(p) \/ StopSpawned(p) \/ StopComposed(p)

-----------------------------------------------------------------------------
(* What goes wrong *)

Happens(kind) == kind \in Faults /\ events < MaxEvents /\ events' = events + 1

\* Half done and left so: nothing looks at it again.
Wounds(p) ==
  CASE proc[p].half # "no" -> {b \in Boxes : box[b].net \in {"off", "moved"}}
    [] At(p) = "clear" -> {"cluster"}
    [] OTHER -> {}

\* The command is interrupted, dies, or a call it cannot do without fails.
CutOff(p) ==
  /\ At(p) \notin {"idle", "lock", "failed", "ready"}
  /\ Happens("cut-off")
  /\ scars' = scars \cup Wounds(p)
  /\ proc' = [proc EXCEPT ![p] = Idle] /\ Releases(p)
  /\ troubled' = troubled \ {p}
  /\ UNCHANGED <<platformVars, worldVars, left>>

\* A call fails and the command warns and goes on to the stage `to`.
Warns(p, to) ==
  /\ Happens("fails")
  /\ scars' = scars \cup Wounds(p)
  /\ Goes(p, to)
  /\ troubled' = troubled \cup {p}
  /\ UNCHANGED <<platformVars, substrate, worldVars, left>>

StartWarns(p) ==
  \/ At(p) = "repair" /\ Warns(p, "health")
  \/ At(p) = "db" /\ Warns(p, IF disk.boot THEN "graph" ELSE "storage")
  \/ At(p) = "graph" /\ Warns(p, "storage")
  \/ At(p) = "alias-graph" /\ Warns(p, "deploy-services")

Working == {p \in Procs : At(p) \notin {"idle", "lock", "failed"}}

Kill(b) ==
  /\ Runs(b) /\ Happens("kill")
  /\ box' = Stopped({b})
  /\ troubled' = troubled \cup Working
  /\ UNCHANGED <<disk, floci, loaded, proc, substrate, worldVars, scars, left>>

\* The home is deleted under the containers that run; a stopped one will mount
\* whatever is there when it starts.
CutFrom(bs) == [b \in Boxes |-> IF b \in bs /\ Runs(b) THEN [box[b] EXCEPT !.cut = TRUE] ELSE box[b]]
Kept == IF Runs("floci") THEN floci ELSE NewFloci

Wipe ==
  /\ Working = {} /\ Happens("wipe")
  /\ box' = CutFrom({"floci", "proxy", "router"})
  /\ disk' = [boot |-> FALSE, port |-> Min(Ports), frag |-> {}]
  /\ floci' = Kept
  /\ scars' = (scars \ {"home"}) \cup {b \in {"proxy", "router"} : Runs(b)}
  /\ UNCHANGED <<loaded, proc, substrate, worldVars, troubled, left>>

\* Floci's data goes and the registry stays: it still says bootstrapped.
WipeData ==
  /\ Working = {} /\ Happens("wipe-data")
  /\ box' = CutFrom({"floci"})
  /\ floci' = Kept
  /\ scars' = scars \cup (IF disk.boot THEN {"home"} ELSE {})
  /\ UNCHANGED <<disk, loaded, proc, substrate, worldVars, troubled, left>>

Taken(q) ==
  /\ q \notin Busy /\ Happens("taken")
  /\ foreign' = foreign \cup {q}
  /\ troubled' = troubled \cup Working
  /\ UNCHANGED <<platformVars, proc, substrate, image, scars, left>>

Bump ==
  /\ Happens("bump")
  /\ image' = image + 1
  /\ troubled' = troubled \cup Working
  /\ UNCHANGED <<platformVars, proc, substrate, foreign, scars, left>>

-----------------------------------------------------------------------------
(* Properties *)

PlatformTypeOK ==
  /\ \A b \in Boxes :
       /\ box[b].st \in {"absent", "exited", "running"} /\ box[b].config \in Nat
       /\ box[b].net \in {"bare", "off", "aliased", "moved"} /\ box[b].cut \in BOOLEAN
  /\ disk.boot \in BOOLEAN /\ disk.port \in Ports /\ disk.frag \subseteq Routes
  /\ floci.gateways \subseteq Routes /\ loaded \subseteq Routes
  /\ foreign \subseteq Ports /\ image \in Nat
  /\ substrate \subseteq Procs /\ Cardinality(substrate) <= 1
  /\ troubled \subseteq Procs /\ scars \subseteq Boxes \cup {"home"}
  /\ left \in 0..MaxCommands /\ events \in 0..MaxEvents

\* Container b is up and where it should be, unless an old wound shows.
Whole(b) == b \in scars \/ Reachable(b)

\* "Control plane ready.", after a start during which nothing went wrong, is true
\* whatever earlier commands left: Floci works on this home's directory, the
\* image configured, the proxy publishes the recorded port and routes the services,
\* the database and the graph answer under their names (controlplane.go Start).
ReadyServes ==
  \A p \in Procs \ troubled : At(p) = "ready" =>
    /\ Runs("floci") /\ ~box["floci"].cut /\ box["floci"].config = image
    /\ Runs("proxy") /\ box["proxy"].config = disk.port
    /\ disk.boot
    /\ box["proxy"].net # "off"
    /\ {"proxy", "home"} \cap scars # {} \/ {"floci", "services"} \subseteq loaded
    /\ Whole("db") /\ Whole("graph")
=============================================================================
