------------------------------ MODULE EnvStart ------------------------------
(***************************************************************************)
(* nsctl env start and env stop of one environment (cmd/env.go,            *)
(* internal/environment), with the control plane under them: the start     *)
(* brings the control plane up first, then the environment's database,     *)
(* graph, cluster, router and routes as far as they exist, deploys what is *)
(* declared, and goes over the same things again for what the deploy made. *)
(* Commands on one environment keep apart by its lease (LeaseCommands);    *)
(* a control-plane command runs beside them.                               *)
(***************************************************************************)
EXTENDS ControlPlane

CONSTANT Declarations  \* what an environment may declare: sets of nodes

Nodes == {"env-db", "env-graph", "cluster", "deployed", "trino"}

ASSUME EnvAssumption ==
  \A d \in Declarations :
    d \subseteq Nodes /\ "env-db" \in d /\ ("trino" \in d => "cluster" \in d)

VARIABLES
  declared,  \* the nodes of its manifest; with "cluster" the mode is full, else core
  landed,    \* those the deployment graph says are deployed
  pods,      \* whether the cluster's datastore holds Trino and its Ingress
  plan       \* of the running start: its pass, nodes forced into the plan, how it
             \* found the cluster, and whether the cluster died

envVars == <<declared, landed, pods, plan>>
vars == <<platformVars, worldVars, proc, substrate, historyVars, budgetVars, envVars>>

NoPlan == [pass |-> "none", marked |-> {}, res |-> "none", fatal |-> FALSE]
Full == "cluster" \in declared
EnvJobs == {"env-start", "env-stop"}

\* The ports of the environment's router: the cluster's, and Trino's.
RouterPorts(trino) == IF trino THEN 2 ELSE 1

\* A host with nothing on it; one that was brought up; one stopped since.
World(b, st) ==
  CASE b = "floci" -> Made(1, st)
    [] b = "proxy" -> [Made(Min(Ports), st) EXCEPT !.net = IF pods THEN "aliased" ELSE "bare"]
    [] b = "cluster" -> IF Full THEN Made(1, st) ELSE Absent
    [] b = "router" -> IF Full THEN Made(RouterPorts(pods), st) ELSE Absent
    [] b = "env-graph" /\ b \notin declared -> Absent
    [] OTHER -> [Made(1, st) EXCEPT !.net = "aliased"]

Init ==
  /\ declared \in Declarations
  /\ \E w \in {"absent", "exited", "running"} :
       /\ landed = IF w = "absent" THEN {} ELSE declared
       /\ pods = ("trino" \in landed)
       /\ box = [b \in Boxes |-> IF w = "absent" THEN Absent ELSE World(b, w)]
       /\ disk = [boot |-> w # "absent", port |-> Min(Ports),
                  frag |-> CASE w = "absent" -> {} [] w = "exited" -> {"floci", "services"}
                             [] OTHER -> Routes]
       /\ floci = IF w = "absent" THEN NewFloci
                  ELSE [built |-> {"db", "graph", "services"} \cup (declared \cap Spawned),
                        gateways |-> {"dbaccount", "deployed"}]
  /\ loaded = disk.frag
  /\ foreign = {} /\ image = 1
  /\ proc = [p \in Procs |-> Idle] /\ substrate = {}
  /\ troubled = {} /\ scars = {}
  /\ left = MaxCommands /\ events = 0
  /\ plan = NoPlan

-----------------------------------------------------------------------------
(* Commands begin and end *)

\* status.Environment.Running: every row of the environment runs, the graph's too,
\* which an environment that declares none has as absent.
ReportedRunning ==
  \A b \in {"env-db", "env-graph"} \cup (IF Full THEN {"cluster", "router"} ELSE {}) : Runs(b)

Alone == \A q \in Procs : proc[q].job \notin EnvJobs

Give(p, job) ==
  /\ proc[p] = Idle /\ left > 0
  /\ job \in EnvJobs => Alone
  /\ job = "stop" => ~ReportedRunning
  /\ left' = left - 1
  /\ proc' = [proc EXCEPT ![p].job = job, ![p].at = IF job = "env-stop" THEN "stop-router" ELSE "lock"]
  /\ plan' = IF job \in EnvJobs THEN [NoPlan EXCEPT !.pass = "start"] ELSE plan
  /\ UNCHANGED <<platformVars, worldVars, substrate, historyVars, events, declared, landed, pods>>

Ends(p) ==
  /\ proc' = [proc EXCEPT ![p] = Idle]
  /\ plan' = IF proc[p].job \in EnvJobs THEN NoPlan ELSE plan
  /\ troubled' = troubled \ {p}

\* controlplane.Start returns, and the environment's start goes on.
Ready(p) ==
  /\ At(p) = "ready"
  /\ Releases(p)
  /\ IF proc[p].job = "env-start"
     THEN Goes(p, "env-health") /\ UNCHANGED <<plan, troubled>>
     ELSE Ends(p)
  /\ UNCHANGED <<platformVars, worldVars, scars, budgetVars, declared, landed, pods>>

Gone(p) ==
  /\ At(p) \in {"failed", "env-ready"}
  /\ Ends(p)
  /\ UNCHANGED <<platformVars, worldVars, substrate, scars, budgetVars, declared, landed, pods>>

-----------------------------------------------------------------------------
(* environment.Start *)

EnvSame == UNCHANGED <<worldVars, substrate, historyVars, budgetVars, declared, landed, pods>>
Moves(p, to) == Goes(p, to) /\ UNCHANGED platformVars

\* WaitForHealth and provisionEnvironment.
EnvHealth(p) ==
  /\ At(p) = "env-health"
  /\ Moves(p, IF FlociAnswers /\ ~box["floci"].cut THEN "env-db" ELSE "failed")
  /\ UNCHANGED plan /\ EnvSame

\* A database Floci has no record of is forced into the plan.
EnsureEnvDB(p) ==
  /\ At(p) = "env-db"
  /\ Ensure(p, "env-db", "env-graph", "env-graph")
  /\ plan' = IF plan.pass = "start" /\ box["env-db"].st = "absent" /\ "env-db" \notin floci.built
             THEN [plan EXCEPT !.marked = @ \cup {"env-db"}] ELSE plan
  /\ UNCHANGED <<declared, landed, pods>>

AfterGraph ==
  IF plan.pass = "refresh" THEN (IF Full THEN "expose" ELSE "splice")
  ELSE IF Full THEN "reconcile" ELSE "dbaccount"

EnsureEnvGraph(p) ==
  /\ At(p) = "env-graph"
  /\ Ensure(p, "env-graph", AfterGraph, AfterGraph)
  /\ UNCHANGED envVars

\* Mutant: a cluster of an older image is let be.
ReconcileOnlyGone(p) ==
  /\ At(p) = "reconcile"
  /\ IF FlociAnswers /\ "cluster" \in floci.built /\ box["cluster"].st = "absent"
     THEN /\ floci' = [floci EXCEPT !.built = @ \ {"cluster"}]
          /\ Goes(p, "clear") /\ UNCHANGED <<box, disk, loaded>>
     ELSE Moves(p, "k3s")
  /\ UNCHANGED plan /\ EnvSame

\* ReconcileK3sCluster: a record whose container is gone or of another image is
\* deleted, and then the container.
Reconcile(p) ==
  LET stale == box["cluster"].st = "absent" \/ box["cluster"].config # box["floci"].config IN
  /\ At(p) = "reconcile"
  /\ IF FlociAnswers /\ "cluster" \in floci.built /\ stale
     THEN /\ floci' = [floci EXCEPT !.built = @ \ {"cluster"}]
          /\ Goes(p, "clear") /\ UNCHANGED <<box, disk, loaded>>
     ELSE Moves(p, "k3s")
  /\ UNCHANGED plan /\ EnvSame

Clear(p) ==
  /\ At(p) = "clear"
  /\ Removes("cluster")
  /\ plan' = [plan EXCEPT !.marked = @ \cup {"cluster"}]
  /\ Goes(p, "k3s")
  /\ UNCHANGED <<disk, substrate, worldVars, troubled, budgetVars, declared, landed, pods>>

\* Mutant: a missing cluster is not forced into the plan.
EnsureK3sUnmarked(p) ==
  LET x == box["cluster"]
      res == CASE x.st = "absent" -> "missing"
               [] x.st # "absent" /\ x.config # box["floci"].config -> "stale"
               [] OTHER -> "up"
  IN
  /\ At(p) = "k3s"
  /\ box' = IF res = "up" THEN [box EXCEPT !["cluster"] = Started(x)] ELSE box
  /\ Goes(p, IF res = "up" THEN "router" ELSE IF plan.pass = "again" THEN "env-db" ELSE "dbaccount")
  /\ plan' = IF plan.pass = "again"
             THEN [plan EXCEPT !.pass = IF res = "up" THEN @ ELSE "refresh", !.fatal = (res = "missing")]
             ELSE [plan EXCEPT !.res = res]
  /\ UNCHANGED <<disk, floci, loaded>> /\ EnvSame

\* EnsureK3sRunning. A missing cluster is forced into the plan the first time and
\* is the end of the start the second.
EnsureK3s(p) ==
  LET x == box["cluster"]
      res == CASE x.st = "absent" -> "missing"
               [] x.st # "absent" /\ x.config # box["floci"].config -> "stale"
               [] OTHER -> "up"
  IN
  /\ At(p) = "k3s"
  /\ box' = IF res = "up" THEN [box EXCEPT !["cluster"] = Started(x)] ELSE box
  /\ Goes(p, IF res = "up" THEN "router" ELSE IF plan.pass = "again" THEN "env-db" ELSE "dbaccount")
  /\ plan' = IF plan.pass = "again"
             THEN [plan EXCEPT !.pass = IF res = "up" THEN @ ELSE "refresh", !.fatal = (res = "missing")]
             ELSE [plan EXCEPT !.res = res, !.marked = IF res = "missing" THEN @ \cup {"cluster"} ELSE @]
  /\ UNCHANGED <<disk, floci, loaded>> /\ EnvSame

\* syncEnvRouter: the router is left, or replaced by one that publishes `ports`.
SyncRouter(p, ports, next) ==
  LET x == box["router"] IN
  /\ \/ /\ x.st = "running" /\ x.config = ports
        /\ Goes(p, next) /\ UNCHANGED <<box, scars>>
     \/ /\ x.st # "absent" /\ ~(x.st = "running" /\ x.config = ports)
        /\ box' = [box EXCEPT !["router"] = Absent]
        /\ UNCHANGED <<proc, scars>>
     \/ /\ x.st = "absent"
        /\ box' = [box EXCEPT !["router"] = Made(ports, "running")]
        /\ scars' = scars \ {"router"}
        /\ Goes(p, next)
  /\ UNCHANGED <<disk, floci, loaded, substrate, worldVars, troubled, budgetVars, envVars>>

\* startCluster, with the cluster's port alone until Trino is looked for. A cluster
\* that has no address gets no route.
StartCluster(p) ==
  /\ At(p) = "router"
  /\ IF Runs("cluster") THEN SyncRouter(p, RouterPorts(FALSE), "expose")
     ELSE Moves(p, "verify") /\ UNCHANGED plan /\ EnvSame

\* exposeDeployedWorkloads: the router again, with Trino's port if it is there.
Expose(p) ==
  /\ At(p) = "expose"
  /\ IF Runs("cluster") THEN SyncRouter(p, RouterPorts(pods), "alias")
     ELSE Moves(p, "alias") /\ UNCHANGED plan /\ EnvSame

\* EnsureNetworkAliases gives the proxy the hostnames of the Ingresses. While it is
\* off the network nobody else reaches Floci.
AfterAlias == IF plan.pass \in {"start", "again"} THEN "verify" ELSE "splice"
Alias(p) ==
  LET x == box["proxy"] IN
  /\ At(p) = "alias"
  /\ \/ /\ pods /\ Runs("cluster") /\ proc[p].half = "no" /\ x.net = "bare" /\ x.st # "absent"
        /\ box' = [box EXCEPT !["proxy"].net = "off"] /\ Stays(p, "off")
        /\ troubled' = troubled \cup (Working \ {p})
     \/ /\ proc[p].half = "off"
        /\ box' = [box EXCEPT !["proxy"].net = "aliased"] /\ Goes(p, AfterAlias)
        /\ UNCHANGED troubled
     \/ /\ proc[p].half = "no"
        /\ ~(pods /\ Runs("cluster") /\ x.net = "bare" /\ x.st # "absent")
        /\ Goes(p, AfterAlias) /\ UNCHANGED <<box, troubled>>
  /\ UNCHANGED <<disk, floci, loaded, substrate, worldVars, scars, budgetVars, envVars>>

\* VerifyK3sAlive.
Verify(p) ==
  /\ At(p) = "verify"
  /\ plan' = [plan EXCEPT !.fatal = ~Runs("cluster"),
                          !.pass = IF @ = "again" THEN "refresh" ELSE @]
  /\ Moves(p, IF plan.pass = "again" THEN "env-db" ELSE "dbaccount")
  /\ EnvSame

\* EnsureDBAccount makes its gateway anew and rewrites the fragment with it alone.
EnsureDBAccount(p) ==
  /\ At(p) = "dbaccount"
  /\ IF FlociAnswers
     THEN /\ floci' = [floci EXCEPT !.gateways = @ \cup {"dbaccount"}]
          /\ disk' = [disk EXCEPT !.frag = (@ \ {"deployed"}) \cup {"dbaccount"}]
          /\ loaded' = loaded \ {"dbaccount"}
     ELSE UNCHANGED <<disk, floci, loaded>>
  /\ Goes(p, "splice")
  /\ UNCHANGED <<box, plan>> /\ EnvSame

\* refreshRoutes and Reload; where that leads depends on the pass.
AfterRoutes ==
  CASE plan.pass = "start" -> IF plan.fatal THEN "failed" ELSE "apply"
    [] plan.pass = "apply" -> IF plan.res = "missing" THEN "k3s" ELSE "env-db"
    [] OTHER -> IF plan.fatal THEN "failed" ELSE "env-ready"
NextPass ==
  CASE plan.pass = "start" -> "apply"
    [] plan.pass = "apply" -> IF plan.res = "missing" THEN "again" ELSE "refresh"
    [] OTHER -> plan.pass

RefreshRoutes(p) ==
  /\ At(p) = "splice"
  /\ disk' = IF FlociAnswers THEN [disk EXCEPT !.frag = @ \cup floci.gateways] ELSE disk
  /\ Reloads
  /\ Goes(p, AfterRoutes)
  /\ plan' = [plan EXCEPT !.pass = NextPass]
  /\ UNCHANGED <<box, floci>> /\ EnvSame

-----------------------------------------------------------------------------
(* Apply: what has not landed, and what is forced, one node after another; a node
   that needs the deployment service or the cluster fails the start without it. *)

Todo == (declared \ landed) \cup plan.marked
Substrate == {"env-db", "env-graph", "cluster"}

Deployable(n) ==
  /\ FlociAnswers /\ Reachable("db") /\ "services" \in loaded
  /\ n = "trino" => Runs("cluster")

Deploy(p, n) ==
  /\ At(p) = "apply"
  /\ n \in Todo
  /\ n \in Substrate \/ Todo \cap Substrate = {}
  /\ IF Deployable(n)
     THEN /\ CASE n \in Substrate ->
                    Builds(n) /\ UNCHANGED <<loaded, pods>>
               [] n = "deployed" ->
                    /\ floci' = [floci EXCEPT !.gateways = @ \cup {"deployed"}]
                    /\ loaded' = loaded \ {"deployed"}
                    /\ UNCHANGED <<box, scars, pods>>
               [] n = "trino" ->
                    pods' = TRUE /\ UNCHANGED <<box, floci, loaded, scars>>
          /\ landed' = landed \cup {n}
          /\ plan' = [plan EXCEPT !.marked = @ \ {n}]
          /\ UNCHANGED <<proc, disk>>
     ELSE Moves(p, "failed") /\ UNCHANGED <<plan, landed, pods, scars>>
  /\ UNCHANGED <<substrate, worldVars, troubled, budgetVars, declared>>

\* Its exposeAfterApply, where there is a cluster that runs.
Applied(p) ==
  LET skips == ~Full \/ ~Runs("cluster") IN
  /\ At(p) = "apply" /\ Todo = {}
  /\ Moves(p, IF ~skips THEN "expose" ELSE IF plan.res = "missing" THEN "k3s" ELSE "env-db")
  /\ plan' = IF skips THEN [plan EXCEPT !.pass = NextPass] ELSE plan
  /\ EnvSame

EnvStart(p) ==
  \/ EnvHealth(p) \/ EnsureEnvDB(p) \/ EnsureEnvGraph(p) \/ Reconcile(p) \/ Clear(p)
  \/ EnsureK3s(p) \/ StartCluster(p) \/ Expose(p) \/ Alias(p) \/ Verify(p)
  \/ EnsureDBAccount(p) \/ RefreshRoutes(p) \/ \E n \in Nodes : Deploy(p, n)
  \/ Applied(p)

-----------------------------------------------------------------------------
(* environment.Stop: the router first, and its directory at the end. *)

AfterStop == [b \in {"router", "cluster", "env-db", "env-graph"} |->
  CASE b = "router" -> "stop-cluster" [] b = "cluster" -> "stop-env-db"
    [] b = "env-db" -> "stop-env-graph" [] OTHER -> "unroute"]
StopOf == [b \in DOMAIN AfterStop |-> CASE b = "router" -> "stop-router"
    [] b = "cluster" -> "stop-cluster" [] b = "env-db" -> "stop-env-db" [] OTHER -> "stop-env-graph"]

StopBox(p, b) ==
  /\ At(p) = StopOf[b]
  /\ box' = Stopped({b})
  /\ Goes(p, AfterStop[b])
  /\ UNCHANGED <<disk, floci, loaded, plan>> /\ EnvSame

\* RemoveEnvRoutes and Reload: a router still running serves a deleted directory.
Unroute(p) ==
  /\ At(p) = "unroute"
  /\ box' = CutFrom({"router"})
  /\ scars' = scars \cup ({"router"} \cap {b \in Boxes : Runs(b)})
  /\ disk' = [disk EXCEPT !.frag = @ \ {"dbaccount", "deployed"}]
  /\ Reloads
  /\ Ends(p)
  /\ UNCHANGED <<floci, substrate, worldVars, budgetVars, declared, landed, pods>>

EnvStop(p) == Unroute(p) \/ \E b \in DOMAIN AfterStop : StopBox(p, b)

-----------------------------------------------------------------------------
(* What goes wrong *)

EnvWarns(p) ==
  /\ \/ At(p) = "env-db" /\ Warns(p, "env-graph")
     \/ At(p) = "env-graph" /\ Warns(p, AfterGraph)
     \/ At(p) \in {"reconcile", "clear"} /\ Warns(p, "k3s")
     \/ At(p) = "router" /\ Warns(p, "verify")
     \/ At(p) = "expose" /\ Warns(p, "alias")
     \/ At(p) = "alias" /\ Warns(p, AfterAlias)
     \/ At(p) = "dbaccount" /\ Warns(p, "splice")
     \/ \E b \in DOMAIN AfterStop : At(p) = StopOf[b] /\ Warns(p, AfterStop[b])
  /\ UNCHANGED envVars

EnvCutOff(p) ==
  /\ CutOff(p)
  /\ plan' = IF proc[p].job \in EnvJobs THEN NoPlan ELSE plan
  /\ UNCHANGED <<declared, landed, pods>>

\* The deployment graph goes with the home's control-plane database.
EnvWipe == Wipe /\ landed' = {} /\ UNCHANGED <<declared, pods, plan>>

Trouble ==
  /\ (\E b \in Boxes : Kill(b)) \/ WipeData \/ (\E q \in Ports : Taken(q)) \/ Bump
  /\ UNCHANGED envVars

Next ==
  \/ \E p \in Procs :
       \/ \E job \in {"start", "stop"} \cup EnvJobs : Give(p, job)
       \/ (Start(p) \/ Stop(p) \/ StartWarns(p)) /\ UNCHANGED envVars
       \/ Ready(p) \/ Gone(p) \/ EnvStart(p) \/ EnvStop(p) \/ EnvWarns(p) \/ EnvCutOff(p)
  \/ EnvWipe \/ Trouble

Spec == Init /\ [][Next]_vars

-----------------------------------------------------------------------------
(* Properties *)

\* Types, and the locks: one holder of the substrate, one command on the environment.
TypeOK ==
  /\ PlatformTypeOK
  /\ declared \in Declarations /\ landed \subseteq declared /\ pods \in BOOLEAN
  /\ plan.marked \subseteq Substrate /\ plan.fatal \in BOOLEAN
  /\ Cardinality({p \in Procs : proc[p].job \in EnvJobs}) <= 1

\* "Ready.", after a start during which nothing went wrong, is true whatever earlier
\* commands left: the cluster runs the image Floci makes clusters of, its router
\* publishes exactly what answers, every deployed gateway is routed, the database
\* and the graph answer under their names, all that is declared is deployed
\* (environment.go Start and refreshAfterDeploy).
EnvReadyServes ==
  \A p \in Procs \ troubled : At(p) = "env-ready" /\ "home" \notin scars =>
    /\ declared \subseteq landed
    /\ Whole("env-db")
    /\ "env-graph" \in declared => Whole("env-graph")
    /\ Full =>
         /\ "cluster" \in scars \/ (Runs("cluster") /\ box["cluster"].config = box["floci"].config)
         /\ {"cluster", "router"} \cap scars # {}
              \/ (Runs("router") /\ box["router"].config = RouterPorts(pods) /\ ~box["router"].cut)
         /\ pods /\ "cluster" \notin scars => box["proxy"].net = "aliased"
    /\ "proxy" \in scars \/ floci.gateways \subseteq loaded

\* A start says it failed only for a cause: something went wrong while it ran, an old
\* wound, or no port to be had.
FailsForCause ==
  [][\A p \in Procs : At(p) # "failed" /\ At(p)' = "failed" =>
       p \in troubled \/ scars # {} \/ foreign # {}]_vars

\* A recorded port is kept through every restart: it moves only when another
\* program holds it, or with the home (ports.go ChoosePorts).
PortsStay == [][disk'.port # disk.port => disk.port \in foreign \/ ~disk'.boot]_vars
-----------------------------------------------------------------------------
(* What holds at every stage: the inductive invariant behind the properties *)

\* The stages in their order, by the locks and jobs they are of.
Bootstrapping ==
  {"deploy-db", "alias-db", "deploy-graph", "alias-graph", "deploy-services", "mark"}
PastHealth == Bootstrapping \cup {"db", "graph", "storage", "routes", "ready"}
PastRepair == PastHealth \cup {"health"}
StartStages == PastRepair \cup {"ports", "up-floci", "up-proxy", "repair", "recreate"}
StopStages == {"stop-spawned", "stop-composed"}
EnvStages == {"env-health", "env-db", "env-graph", "reconcile", "clear", "k3s", "router",
              "expose", "alias", "verify", "dbaccount", "splice", "apply", "env-ready"}
EnvStopStages == {"stop-router", "stop-cluster", "stop-env-db", "stop-env-graph", "unroute"}

Containers == [st : {"absent", "exited", "running"}, config : Nat,
               net : {"bare", "off", "aliased", "moved"}, cut : BOOLEAN]
Homes == [boot : BOOLEAN, port : Ports, frag : SUBSET Routes]
Flocis == [built : SUBSET (Spawned \cup {"services"}), gateways : SUBSET {"dbaccount", "deployed"}]
Stages == {"idle", "lock", "failed"} \cup StartStages \cup StopStages \cup EnvStages \cup EnvStopStages
Commands == [job : {"none", "start", "stop"} \cup EnvJobs, at : Stages,
             half : {"no", "off", "moved"}, found : BOOLEAN]
Plans == [pass : {"none", "start", "apply", "again", "refresh"}, marked : SUBSET Substrate,
          res : {"none", "missing", "stale", "up"}, fatal : BOOLEAN]

Typed ==
  /\ box \in [Boxes -> Containers] /\ disk \in Homes /\ floci \in Flocis
  /\ proc \in [Procs -> Commands] /\ plan \in Plans
  /\ loaded \subseteq Routes /\ foreign \subseteq Ports /\ image \in Nat
  /\ substrate \subseteq Procs /\ troubled \subseteq Procs /\ scars \subseteq Boxes \cup {"home"}
  /\ left \in 0..MaxCommands /\ events \in 0..MaxEvents
  /\ declared \in Declarations /\ landed \subseteq declared /\ pods \in BOOLEAN

\* One command holds the substrate from the lock to ready, one works on the
\* environment, every stage is of a command that has it, and a stop of the platform
\* is trouble for a start of the environment.
StagesFit ==
  /\ \A p, q \in substrate : p = q
  /\ \A p, q \in Procs : proc[p].job \in EnvJobs /\ proc[q].job \in EnvJobs => p = q
  /\ \A p \in Procs :
       /\ At(p) \in StartStages \cup StopStages => p \in substrate
       /\ At(p) \in StartStages => proc[p].job \in {"start", "env-start"}
       /\ At(p) \in StopStages => proc[p].job = "stop"
       /\ At(p) \in EnvStages => proc[p].job = "env-start"
       /\ At(p) \in EnvStopStages => proc[p].job = "env-stop"
  /\ \A p, q \in Procs : At(p) \in StopStages /\ At(q) \in EnvStages => q \in troubled

\* Which pass of an environment's start a stage is of, and that the stages of a
\* cluster are of an environment that has one.
PassFits ==
  /\ plan.res # "none" => Full
  /\ plan.marked \subseteq declared
  /\ \A p \in Procs : At(p) \in {"reconcile", "clear", "k3s", "router", "verify", "expose", "alias"} => Full
  /\ \A p \in Procs : proc[p].job = "env-start" =>
       /\ At(p) \in StartStages \cup {"lock", "env-health", "reconcile", "clear", "dbaccount"}
            => plan.pass = "start"
       /\ At(p) \in StartStages \cup {"lock", "env-health"} => ~plan.fatal
       /\ At(p) \in {"k3s", "router", "verify"} => plan.pass \in {"start", "again"}
       /\ At(p) \in {"env-db", "env-graph"} => plan.pass \in {"start", "refresh"}
       /\ At(p) \in {"expose", "alias"} => plan.pass # "none"
       /\ At(p) = "splice" => plan.pass \in {"start", "apply", "refresh"}
       /\ At(p) = "apply" => plan.pass = "apply"
       /\ At(p) = "env-ready" => plan.pass = "refresh"

\* What a stage may be half way through moving on the network.
InHand(b) ==
  CASE b = "db" -> {"db", "alias-db"}
    [] b = "graph" -> {"graph", "alias-graph"}
    [] b = "env-db" -> {"env-db"}
    [] b = "env-graph" -> {"env-graph"}
    [] b = "proxy" -> {"alias"}
    [] OTHER -> {}

\* What is off the network, or moved, is in hand or was left so, and runs while
\* nothing goes wrong; what was left so has been on it once; only graphs move, and
\* nothing else is aliased.
NetsFit ==
  /\ \A p \in Procs : proc[p].half # "no" => \E b \in Boxes : At(p) \in InHand(b)
  /\ \A p \in Procs : proc[p].half = "moved" => \E b \in Graphs : At(p) \in InHand(b)
  /\ \A p \in Procs, b \in Databases \cup Graphs :
       proc[p].half # "no" /\ At(p) \in InHand(b) =>
         box[b].net = proc[p].half /\ (p \in troubled \/ Runs(b))
  /\ \A b \in Boxes :
       /\ box[b].net = "moved" => b \in Graphs
       /\ box[b].net # "bare" => b \in Databases \cup Graphs \cup {"proxy"}
       /\ box[b].net \in {"off", "moved"} =>
            b \in scars \/ \E p \in Procs : proc[p].half # "no" /\ At(p) \in InHand(b)
       /\ b \in scars \cap (Databases \cup Graphs) => box[b].net # "bare"

\* What a container mounts is deleted only where that shows; a proxy that runs has
\* its port to itself, and serves the route to Floci.
ProxyFits ==
  /\ \A b \in Boxes : box[b].cut => b \in {"floci", "proxy", "router"}
  /\ \A b \in {"proxy", "router"} : box[b].cut => b \in scars
  /\ Runs("proxy") => box["proxy"].config \notin foreign
  /\ Runs("proxy") /\ "proxy" \notin scars => "floci" \in loaded /\ "floci" \in disk.frag
  /\ \A p \in Procs : At(p) \in StartStages \cup EnvStages => "floci" \in disk.frag

Exists(b) == box[b].st # "absent"

\* What a home that says bootstrapped has, and how far a bootstrap has come.
HomeFits ==
  /\ disk.boot => Exists("db") /\ Exists("graph")
  /\ disk.boot /\ "home" \notin scars => "services" \in floci.built /\ ~box["floci"].cut
  /\ ~disk.boot => landed = {}
  /\ \A b \in Databases \cup Graphs : b \in floci.built \cup landed => Exists(b)
  /\ \A p \in Procs :
       /\ At(p) \in {"graph", "routes", "ready"} \cup EnvStages => disk.boot
       /\ At(p) = "recreate" => ~box["floci"].cut
       /\ At(p) \in Bootstrapping => ~disk.boot /\ ~box["floci"].cut
       /\ At(p) \in Bootstrapping \ {"deploy-db"} => Exists("db")
       /\ At(p) \in {"alias-graph", "deploy-services", "mark"} => Exists("graph")
       /\ At(p) = "mark" => "services" \in floci.built

\* A cluster that the deployment graph says is there is Floci's, unless it is gone
\* or being removed.
ClusterFits ==
  "cluster" \in landed /\ {"home", "cluster"} \cap scars = {} =>
    "cluster" \in floci.built \/ ~Exists("cluster") \/ \E p \in Procs : At(p) = "clear"

\* What a start of the control plane that nothing went wrong for has made sure of,
\* to which stage.
StartFits ==
  \A p \in Procs \ troubled :
    /\ At(p) \in {"up-proxy", "repair"} =>
         Runs("floci") /\ box["floci"].config = image /\ (box["floci"].cut => proc[p].found)
    /\ At(p) \in {"repair", "recreate"} \cup PastRepair =>
         Runs("proxy") /\ box["proxy"].config = disk.port
    /\ At(p) \in PastRepair =>
         Runs("floci") /\ ~box["floci"].cut /\ box["floci"].config = image
    /\ At(p) \in PastHealth => box["proxy"].net # "off"
    /\ At(p) \in (Bootstrapping \ {"deploy-db", "alias-db"}) \cup {"graph", "routes", "ready"}
         \/ (At(p) = "storage" /\ disk.boot) => Whole("db")
    /\ At(p) \in {"deploy-services", "mark", "routes", "ready"}
         \/ (At(p) = "storage" /\ disk.boot) => Whole("graph")
    /\ At(p) = "ready" =>
         {"proxy", "home"} \cap scars # {} \/ "services" \in loaded \cap disk.frag

PlatformInv ==
  /\ Typed /\ StagesFit /\ PassFits /\ NetsFit /\ ProxyFits /\ HomeFits /\ ClusterFits
  /\ StartFits

\* And that a start of the environment has it as long as it runs, whoever else starts
\* the control plane meanwhile.
ServedFits ==
  \A p \in Procs \ troubled : At(p) \in EnvStages =>
    /\ Runs("proxy") /\ box["proxy"].config = disk.port
    /\ Runs("floci") /\ ~box["floci"].cut /\ box["floci"].config = image
    /\ ~(At(p) = "alias" /\ proc[p].half = "off") => box["proxy"].net # "off"
    /\ Whole("db") /\ Whole("graph")
    /\ {"proxy", "home"} \cap scars # {} \/ "services" \in loaded \cap disk.frag

\* What an environment's start knows of the routes: past its first look at them Floci
\* answers.
RoutesFit ==
  \A p \in Procs \ troubled : proc[p].job = "env-start" =>
    /\ At(p) \in {"ready", "env-health"} /\ box["proxy"].cut => "floci" \notin loaded
    /\ At(p) \in EnvStages \ {"env-health"} => ~box["proxy"].cut /\ "floci" \in loaded
    /\ At(p) = "env-ready" => floci.gateways \subseteq disk.frag /\ floci.gateways \subseteq loaded

\* Whether a start has deployed all there is to deploy.
Landed(p) ==
  \/ At(p) \in EnvStages /\ plan.pass \in {"again", "refresh"}
  \/ At(p) \in {"expose", "alias", "splice"} /\ plan.pass = "apply"

\* The cluster runs and is of the image, or is about to be made anew.
ClusterRuns == Runs("cluster") /\ box["cluster"].config = box["floci"].config
ClusterComes == "cluster" \in Todo /\ ("cluster" \notin floci.built \/ ~Exists("cluster"))

\* What it has made sure of by itself.
EnvFits ==
  \A p \in Procs \ troubled : At(p) \in EnvStages =>
    /\ At(p) \notin {"env-health", "env-db"} => Exists("env-db") \/ "env-db" \in plan.marked
    /\ Landed(p) => Todo = {} /\ declared \subseteq landed
    /\ At(p) = "k3s" /\ plan.pass = "start" /\ "cluster" \in floci.built =>
         Exists("cluster") /\ box["cluster"].config = box["floci"].config
    /\ At(p) = "clear" => "cluster" \notin floci.built
    /\ At(p) \in {"router", "expose", "alias", "verify"} /\ plan.pass = "start" => ClusterRuns
    /\ Full /\ "home" \notin scars
         /\ (At(p) \in {"router", "expose", "alias", "verify", "dbaccount", "splice", "apply"}
              \/ plan.pass \in {"again", "refresh"}) =>
         "cluster" \in scars \/ ClusterRuns \/ ClusterComes
    /\ plan.fatal => {"home", "cluster"} \cap scars # {} /\ plan.pass \in {"again", "refresh"}

\* And the second time round.
RefreshFits ==
  \A p \in Procs \ troubled : At(p) \in EnvStages /\ plan.pass = "refresh" =>
    /\ At(p) # "env-db" => Whole("env-db")
    /\ At(p) \notin {"env-db", "env-graph"} /\ "env-graph" \in declared => Whole("env-graph")
    /\ At(p) \in {"alias", "splice", "env-ready"} /\ Full /\ {"home", "cluster", "router"} \cap scars = {} =>
         Runs("router") /\ box["router"].config = RouterPorts(pods)
    /\ At(p) \in {"splice", "env-ready"} /\ Full /\ pods /\ {"home", "cluster"} \cap scars = {} =>
         box["proxy"].net = "aliased"

ServiceInv == ServedFits /\ RoutesFit /\ EnvFits /\ RefreshFits

IInv == PlatformInv /\ ServiceInv
=============================================================================
