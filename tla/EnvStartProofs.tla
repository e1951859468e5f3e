---------------------------- MODULE EnvStartProofs ----------------------------
(***************************************************************************)
(* That a start of the control plane or of an environment that says ready, *)
(* with nothing going wrong during it, is right, whatever earlier commands *)
(* left behind: for any processes, ports, declarations, number of commands *)
(* and of things that go wrong.                                            *)
(***************************************************************************)
EXTENDS EnvStart, FiniteSetTheorems, WellFoundedInduction, TLAPS

-----------------------------------------------------------------------------
(* Types *)

\* The least of a set of numbers is one of them.
LEMMA LeastNumber ==
  ASSUME NEW T \in SUBSET Nat, T # {}
  PROVE  Min(T) \in T
<1> DEFINE R == StrictSubsetOrdering(Nat)
           U == {0 .. k : k \in T}
<1>1. IsWellFoundedOn(R, FiniteSubsetsOf(Nat))
  BY FS_StrictSubsetOrderingWellFounded
<1>2. U \subseteq FiniteSubsetsOf(Nat) /\ U # {}
  <2>1. ASSUME NEW k \in T PROVE 0 .. k \in FiniteSubsetsOf(Nat)
    <3>1. IsFiniteSet(0 .. k) /\ 0 .. k \subseteq Nat
      BY FS_Interval
    <3> QED
      BY <3>1 DEF FiniteSubsetsOf
  <2> QED
    BY <2>1
<1>3. PICK x \in U : \A y \in U : <<y, x>> \notin R
  <2> HIDE DEF U, R
  <2> QED
    BY <1>1, <1>2, WFMin, Zenon
<1>4. PICK m \in T : x = 0 .. m
  BY <1>3
<1>5. ASSUME NEW k \in T, k < m
      PROVE  <<0 .. k, 0 .. m>> \in R
  <2>1. 0 .. k \subseteq 0 .. m /\ m \in 0 .. m /\ m \notin 0 .. k /\ 0 .. m \subseteq Nat
    BY <1>5
  <2> QED
    BY <2>1 DEF StrictSubsetOrdering
<1>6. \A k \in T : ~(k < m)
  <2> HIDE DEF R
  <2> QED
    BY <1>3, <1>4, <1>5
<1>7. m \in T /\ \A k \in T : m <= k
  BY <1>6
<1> QED
  BY <1>7 DEF Min

\* So the proxy's default port is one of the ports.
LEMMA DefaultPort == Min(Ports) \in Ports
BY LeastNumber, PlatformAssumption

\* What becomes of a container is one.
LEMMA ContainerFits ==
  ASSUME NEW x \in Containers, NEW c \in Nat,
         NEW st \in {"absent", "exited", "running"}
  PROVE  /\ Absent \in Containers /\ Made(c, st) \in Containers /\ Started(x) \in Containers
         /\ [x EXCEPT !.st = "exited"] \in Containers
         /\ [x EXCEPT !.cut = TRUE] \in Containers
         /\ \A n \in {"bare", "off", "aliased", "moved"} : [x EXCEPT !.net = n] \in Containers
BY DEF Containers, Absent, Made, Started

\* So it is with several at a time.
LEMMA StoppedFits ==
  ASSUME Typed, NEW bs
  PROVE  Stopped(bs) \in [Boxes -> Containers] /\ CutFrom(bs) \in [Boxes -> Containers]
<1>1. \A b \in Boxes : box[b] \in Containers
  BY DEF Typed
<1>2. \A b \in Boxes : [box[b] EXCEPT !.st = "exited"] \in Containers
                       /\ [box[b] EXCEPT !.cut = TRUE] \in Containers
  BY <1>1 DEF Containers
<1> QED
  BY <1>1, <1>2 DEF Stopped, CutFrom

\* A container replaced by another leaves a host of containers.
LEMMA BoxFits ==
  ASSUME Typed, NEW b \in Boxes, NEW y \in Containers
  PROVE  [box EXCEPT ![b] = y] \in [Boxes -> Containers]
BY DEF Typed

\* What the first state holds.
LEMMA InitTyped == Init => Typed
<1> SUFFICES ASSUME Init PROVE Typed
  OBVIOUS
<1>1. PICK w \in {"absent", "exited", "running"} :
        /\ landed = IF w = "absent" THEN {} ELSE declared
        /\ pods = ("trino" \in landed)
        /\ box = [b \in Boxes |-> IF w = "absent" THEN Absent ELSE World(b, w)]
        /\ disk = [boot |-> w # "absent", port |-> Min(Ports),
                   frag |-> CASE w = "absent" -> {} [] w = "exited" -> {"floci", "services"}
                              [] OTHER -> Routes]
        /\ floci = IF w = "absent" THEN NewFloci
                   ELSE [built |-> {"db", "graph", "services"} \cup (declared \cap Spawned),
                         gateways |-> {"dbaccount", "deployed"}]
  BY DEF Init
<1>2. Min(Ports) \in Ports /\ Min(Ports) \in Nat
  BY DefaultPort, PlatformAssumption
<1>3. Absent \in Containers /\ \A c \in Nat : Made(c, w) \in Containers
                               /\ [Made(c, w) EXCEPT !.net = "aliased"] \in Containers
                               /\ [Made(c, w) EXCEPT !.net = "bare"] \in Containers
  BY DEF Containers, Absent, Made
<1>4. pods \in BOOLEAN /\ landed \subseteq declared /\ declared \in Declarations
  BY <1>1 DEF Init
<1>5. \A b \in Boxes : World(b, w) \in Containers
  BY <1>2, <1>3, <1>4 DEF World, RouterPorts
<1>6. box \in [Boxes -> Containers]
  BY <1>1, <1>3, <1>5
<1>7. disk \in Homes
  BY <1>1, <1>2 DEF Homes, Routes
<1>8. floci \in Flocis
  BY <1>1 DEF Flocis, NewFloci, Spawned, Databases, Graphs
<1>9. proc \in [Procs -> Commands]
  BY DEF Init, Idle, Commands, Stages
<1>10. plan \in Plans
  BY DEF Init, NoPlan, Plans
<1>11. loaded \subseteq Routes
  BY <1>7 DEF Init, Homes
<1> QED
  BY <1>4, <1>6, <1>7, <1>8, <1>9, <1>10, <1>11, PlatformAssumption DEF Init, Typed
-----------------------------------------------------------------------------
(* What a step of a command does *)
\* p comes to stage `to` of its command, half way through `half`, and nobody else
\* goes anywhere.
Walks(p, to, half) ==
  /\ \A q \in Procs \ {p} : proc'[q] = proc[q]
  /\ proc'[p].job = proc[p].job /\ At(p)' = to /\ proc'[p].half = half
  /\ to \in Stages /\ half \in {"no", "off", "moved"} => proc' \in [Procs -> Commands]

\* Of the containers and the wounds only those of bs may change.
Touches(bs) ==
  /\ box' \in [Boxes -> Containers]
  /\ \A b \in Boxes \ bs : box'[b] = box[b]
  /\ scars' \subseteq scars /\ scars \subseteq scars' \cup bs

\* What the start has in mind from now on.
Planned(pass, marked, res, fatal) ==
  /\ plan' \in Plans /\ plan'.pass = pass /\ plan'.marked = marked
  /\ plan'.res = res /\ (plan'.fatal <=> fatal)

\* Goes, Stays and the end of a command in these words.
LEMMA GoesWalks ==
  ASSUME Typed, NEW p \in Procs, NEW to, Goes(p, to)
  PROVE  Walks(p, to, "no") /\ proc'[p].found = proc[p].found
<1>1. proc \in [Procs -> Commands] /\ proc[p] \in Commands
  BY DEF Typed
<1>2. proc' = [proc EXCEPT ![p] = [proc[p] EXCEPT !.at = to, !.half = "no"]]
  BY <1>1 DEF Goes
<1>3. to \in Stages => [proc[p] EXCEPT !.at = to, !.half = "no"] \in Commands
  BY <1>1 DEF Commands
<1>4. (to \in Stages => proc' \in [Procs -> Commands])
      /\ proc'[p] = [proc[p] EXCEPT !.at = to, !.half = "no"]
      /\ \A q \in Procs \ {p} : proc'[q] = proc[q]
  BY <1>1, <1>2, <1>3
<1>5. proc'[p].job = proc[p].job /\ proc'[p].at = to /\ proc'[p].half = "no"
      /\ proc'[p].found = proc[p].found
  BY <1>1, <1>4 DEF Commands
<1> QED
  BY <1>4, <1>5 DEF Walks, At

\* Likewise for a step within a stage.
LEMMA StaysWalks ==
  ASSUME Typed, NEW p \in Procs, NEW half \in {"no", "off", "moved"}, Stays(p, half)
  PROVE  Walks(p, At(p), half) /\ proc'[p].found = proc[p].found
<1>1. proc \in [Procs -> Commands] /\ proc[p] \in Commands
  BY DEF Typed
<1>2. proc' = [proc EXCEPT ![p] = [proc[p] EXCEPT !.half = half]]
  BY <1>1 DEF Stays
<1>3. [proc[p] EXCEPT !.half = half] \in Commands
  BY <1>1 DEF Commands
<1>4. proc' \in [Procs -> Commands] /\ proc'[p] = [proc[p] EXCEPT !.half = half]
      /\ \A q \in Procs \ {p} : proc'[q] = proc[q]
  BY <1>1, <1>2, <1>3
<1>5. proc'[p].job = proc[p].job /\ proc'[p].at = proc[p].at /\ proc'[p].half = half
      /\ proc'[p].found = proc[p].found
  BY <1>1, <1>4 DEF Commands
<1> QED
  BY <1>4, <1>5 DEF Walks, At

\* And for one that takes the command nowhere.
LEMMA WaitsWalks ==
  ASSUME Typed, NEW p \in Procs, UNCHANGED proc
  PROVE  Walks(p, At(p), proc[p].half) /\ proc'[p].found = proc[p].found
BY DEF Typed, Walks, At

\* p has no command any more.
Leaves(p) ==
  /\ \A q \in Procs \ {p} : proc'[q] = proc[q]
  /\ proc'[p] = Idle /\ proc' \in [Procs -> Commands]
  /\ At(p)' = "idle" /\ proc'[p].job = "none" /\ proc'[p].half = "no"

\* What it is for a command to end.
LEMMA Leaving ==
  ASSUME Typed, NEW p \in Procs, proc' = [proc EXCEPT ![p] = Idle]
  PROVE  Leaves(p)
<1>1. proc \in [Procs -> Commands] /\ Idle \in Commands
  BY DEF Typed, Idle, Commands, Stages
<1> QED
  BY <1>1 DEF Leaves, Idle, At

\* A step that changes one container, if any.
LEMMA TouchesOne ==
  ASSUME Typed, NEW b \in Boxes, NEW y \in Containers, box' = [box EXCEPT ![b] = y],
         scars' = scars \/ scars' = scars \ {b}
  PROVE  Touches({b}) /\ box'[b] = y
BY BoxFits DEF Typed, Touches

\* A step that changes none.
LEMMA TouchesNone ==
  ASSUME Typed, UNCHANGED <<box, scars>>, NEW bs
  PROVE  Touches(bs)
BY DEF Typed, Touches
-----------------------------------------------------------------------------
(* The four ends of a container's coming up *)

UpLeft(p, b, want, next) ==
  /\ Runs(b) /\ box[b].config = want
  /\ Walks(p, next, proc[p].half)
  /\ proc'[p].found = (proc[p].found \/ b = "floci")
  /\ UNCHANGED <<box, floci, loaded, scars, substrate>>

UpRemoved(p, b, want) ==
  /\ Exists(b) /\ box[b].config # want
  /\ box'[b] = Absent
  /\ floci' = IF b = "floci" /\ box[b].cut THEN NewFloci ELSE floci
  /\ UNCHANGED <<proc, loaded, scars, substrate>>

UpFailed(p, b, want) ==
  /\ b = "proxy" /\ want \in foreign /\ ~Runs(b)
  /\ box'[b] = IF Exists(b) THEN box[b] ELSE Made(want, "exited")
  /\ Walks(p, "failed", "no") /\ substrate' = substrate \ {p}
  /\ UNCHANGED <<floci, loaded, scars>>

UpBooted(p, b, want, next) ==
  /\ b = "proxy" => want \notin foreign
  /\ ~Runs(b) /\ (Exists(b) => box[b].config = want)
  /\ box'[b].st = "running" /\ box'[b].config = want /\ ~box'[b].cut
  /\ box'[b].net = IF ~Exists(b) THEN "bare"
                   ELSE IF box[b].net = "moved" THEN "aliased" ELSE box[b].net
  /\ scars' = IF Exists(b) /\ box[b].net = "off" THEN scars ELSE scars \ {b}
  /\ floci' = IF b = "floci" /\ Exists(b) /\ box[b].cut THEN NewFloci ELSE floci
  /\ loaded' = IF b = "proxy" THEN disk.frag ELSE loaded
  /\ Walks(p, next, "no") /\ proc'[p].found = proc[p].found
  /\ UNCHANGED substrate

Up(p, b, want, next) ==
  /\ Touches({b}) /\ UNCHANGED <<disk, worldVars, troubled, budgetVars>>
  /\ \/ UpLeft(p, b, want, next) \/ UpRemoved(p, b, want)
     \/ UpFailed(p, b, want) \/ UpBooted(p, b, want, next)

\* UpService comes to one of the four.
LEMMA UpServiceEnds ==
  ASSUME Typed, NEW p \in Procs, NEW b \in Composed, NEW want \in Nat, NEW next,
         UpService(p, b, want, next)
  PROVE  Up(p, b, want, next)
<1> DEFINE x == box[b]
           new == IF x.st = "absent" THEN Made(want, "exited") ELSE x
<1>1. /\ b \in Boxes /\ box \in [Boxes -> Containers] /\ x \in Containers
      /\ proc \in [Procs -> Commands] /\ proc[p] \in Commands
  BY DEF Typed, Boxes
<1>2. new \in Containers /\ Started(new) \in Containers /\ Absent \in Containers
  BY <1>1, ContainerFits
<1>3. UNCHANGED <<disk, worldVars, troubled, budgetVars>>
  BY DEF UpService
<1>4. CASE /\ x.st = "running" /\ x.config = want
           /\ proc' = [proc EXCEPT ![p].at = next, ![p].found = @ \/ b = "floci"]
           /\ UNCHANGED <<box, floci, loaded, scars, substrate>>
  <2>1. proc'[p] = [proc[p] EXCEPT !.at = next, !.found = @ \/ b = "floci"]
        /\ \A q \in Procs \ {p} : proc'[q] = proc[q]
    BY <1>1, <1>4
  <2>2. /\ proc'[p].job = proc[p].job /\ proc'[p].at = next
        /\ proc'[p].half = proc[p].half /\ proc'[p].found = (proc[p].found \/ b = "floci")
        /\ next \in Stages => proc'[p] \in Commands
    BY <1>1, <2>1 DEF Commands
  <2>3. next \in Stages => proc' \in [Procs -> Commands]
    BY <1>1, <1>4, <2>1, <2>2
  <2>4. Walks(p, next, proc[p].half)
    BY <2>1, <2>2, <2>3 DEF Walks, At
  <2>5. UpLeft(p, b, want, next)
    BY <1>4, <2>2, <2>4 DEF UpLeft, Runs
  <2> QED
    BY <1>3, <1>4, <2>5, TouchesNone DEF Up
<1>5. CASE x.st # "absent" /\ x.config # want /\ Removes(b) /\ UNCHANGED <<proc, substrate>>
  <2>1. Touches({b}) /\ box'[b] = Absent
    BY <1>1, <1>2, <1>5, TouchesOne DEF Removes
  <2>2. UpRemoved(p, b, want)
    BY <1>5, <2>1 DEF UpRemoved, Removes, Exists
  <2> QED
    BY <1>3, <2>1, <2>2 DEF Up
<1>6. CASE /\ x.st = "absent" \/ (x.st = "exited" /\ x.config = want)
           /\ b = "proxy" /\ want \in foreign
           /\ box' = [box EXCEPT ![b] = new]
           /\ Goes(p, "failed") /\ Releases(p)
           /\ UNCHANGED <<floci, loaded, scars>>
  <2>1. Touches({b}) /\ box'[b] = new
    BY <1>1, <1>2, <1>6, TouchesOne
  <2>2. Walks(p, "failed", "no")
    BY <1>1, <1>6, GoesWalks
  <2>3. UpFailed(p, b, want)
    BY <1>6, <2>1, <2>2 DEF UpFailed, Releases, Exists, Runs
  <2> QED
    BY <1>3, <2>1, <2>3 DEF Up
<1>7. CASE /\ x.st = "absent" \/ (x.st = "exited" /\ x.config = want)
           /\ ~(b = "proxy" /\ want \in foreign)
           /\ Boots(b, new) /\ Goes(p, next) /\ UNCHANGED substrate
  <2>1. Touches({b}) /\ box'[b] = Started(new)
    BY <1>1, <1>2, <1>7, TouchesOne DEF Boots, Heals
  <2>2. Walks(p, next, "no") /\ proc'[p].found = proc[p].found
    BY <1>7, GoesWalks
  <2>3. /\ new.config = want /\ (new.net = IF x.st = "absent" THEN "bare" ELSE x.net)
        /\ (new.cut <=> x.st # "absent" /\ x.cut)
    BY <1>1, <1>7 DEF Made
  <2>4. /\ box'[b].st = "running" /\ box'[b].config = want /\ ~box'[b].cut
        /\ box'[b].net = IF new.net = "moved" THEN "aliased" ELSE new.net
    BY <1>2, <2>1, <2>3 DEF Started, Containers
  <2>5. box'[b].net = IF ~Exists(b) THEN "bare"
                      ELSE IF box[b].net = "moved" THEN "aliased" ELSE box[b].net
    BY <2>3, <2>4 DEF Exists
  <2>6. /\ scars' = IF Exists(b) /\ box[b].net = "off" THEN scars ELSE scars \ {b}
        /\ floci' = IF b = "floci" /\ Exists(b) /\ box[b].cut THEN NewFloci ELSE floci
        /\ loaded' = IF b = "proxy" THEN disk.frag ELSE loaded
    BY <1>7, <2>3 DEF Boots, Heals, Exists
  <2>7. UpBooted(p, b, want, next)
    BY <1>7, <2>2, <2>4, <2>5, <2>6 DEF UpBooted, Runs, Exists
  <2> QED
    BY <1>3, <2>1, <2>7 DEF Up
<1> QED
  BY <1>4, <1>5, <1>6, <1>7 DEF UpService
-----------------------------------------------------------------------------
(* The ends of a container's coming onto the network *)

\* Container b is on the network otherwise, or is started again where it was.
Joins(b, net) ==
  box'[b].st = box[b].st /\ box'[b].config = box[b].config /\ box'[b].net = net
  /\ box'[b].cut = box[b].cut
Restarts(b) ==
  /\ box'[b].st = "running" /\ box'[b].config = box[b].config /\ ~box'[b].cut
  /\ box'[b].net = IF box[b].net = "moved" THEN "aliased" ELSE box[b].net
  /\ scars' = IF box[b].net = "off" THEN scars ELSE scars \ {b}

NetJoined(p, b, next) ==
  /\ proc[p].half = "off" /\ UNCHANGED scars
  /\ \/ b \in Graphs /\ Joins(b, "moved") /\ Walks(p, At(p), "moved")
     \/ b \notin Graphs /\ Joins(b, "aliased") /\ Walks(p, next, "no")

NetStarted(p, b, next) ==
  \/ proc[p].half = "moved" /\ Restarts(b) /\ Walks(p, next, "no")
  \/ /\ proc[p].half = "no" /\ box[b].st = "exited" /\ Restarts(b)
     /\ UNCHANGED proc /\ Walks(p, At(p), "no")

NetLeft(p, b) ==
  /\ proc[p].half = "no" /\ Runs(b) /\ box[b].net = "bare"
  /\ Joins(b, "off") /\ UNCHANGED scars /\ Walks(p, At(p), "off")

NetFound(p, b, next, without) ==
  /\ proc[p].half = "no" /\ UNCHANGED <<box, scars>>
  /\ \/ Runs(b) /\ box[b].net \in {"aliased", "moved"} /\ Walks(p, next, "no")
     \/ ~Exists(b) /\ Walks(p, without, "no")
     \/ Runs(b) /\ box[b].net = "off" /\ Walks(p, without, "no")

Net(p, b, next, without) ==
  /\ Touches({b}) /\ UNCHANGED <<disk, floci, loaded, worldVars, troubled, budgetVars>>
  /\ substrate' = IF At(p)' = "failed" THEN substrate \ {p} ELSE substrate
  /\ \/ NetJoined(p, b, next) \/ NetStarted(p, b, next) \/ NetLeft(p, b)
     \/ NetFound(p, b, next, without)

\* Ensure comes to one of them.
LEMMA EnsureEnds ==
  ASSUME Typed, NEW p \in Procs, NEW b \in Boxes, NEW next, NEW without,
         Ensure(p, b, next, without)
  PROVE  Net(p, b, next, without)
<1> DEFINE x == box[b]
<1>1. box \in [Boxes -> Containers] /\ x \in Containers /\ proc[p] \in Commands
  BY DEF Typed
<1>2. /\ UNCHANGED <<disk, floci, loaded, worldVars, troubled, budgetVars>>
      /\ substrate' = IF At(p)' = "failed" THEN substrate \ {p} ELSE substrate
  BY DEF Ensure
<1>3. ASSUME NEW n \in {"off", "aliased", "moved"}, box' = [box EXCEPT ![b].net = n], UNCHANGED scars
      PROVE  Touches({b}) /\ Joins(b, n)
  <2>1. box' = [box EXCEPT ![b] = [x EXCEPT !.net = n]] /\ [x EXCEPT !.net = n] \in Containers
    BY <1>1, <1>3 DEF Containers
  <2>2. Touches({b}) /\ box'[b] = [x EXCEPT !.net = n]
    BY <1>1, <1>3, <2>1, TouchesOne
  <2> QED
    BY <1>1, <2>2 DEF Joins, Containers
<1>4. ASSUME box' = [box EXCEPT ![b] = Started(x)], Heals(b, x)
      PROVE  Touches({b}) /\ Restarts(b)
  <2>1. Started(x) \in Containers
    BY <1>1, ContainerFits
  <2>2. Touches({b}) /\ box'[b] = Started(x)
    BY <1>1, <1>4, <2>1, TouchesOne DEF Heals
  <2>3. /\ box'[b].st = "running" /\ box'[b].config = x.config /\ ~box'[b].cut
        /\ box'[b].net = IF x.net = "moved" THEN "aliased" ELSE x.net
    BY <1>1, <2>2 DEF Started, Containers
  <2> QED
    BY <1>4, <2>2, <2>3 DEF Restarts, Heals
<1>5. CASE /\ proc[p].half = "off"
           /\ box' = [box EXCEPT ![b].net = IF b \in Graphs THEN "moved" ELSE "aliased"]
           /\ IF b \in Graphs THEN Stays(p, "moved") ELSE Goes(p, next)
           /\ UNCHANGED scars
  <2>1. CASE b \in Graphs
    <3>1. Touches({b}) /\ Joins(b, "moved") /\ Walks(p, At(p), "moved")
      BY <1>3, <1>5, <2>1, StaysWalks
    <3> QED
      BY <1>2, <1>5, <2>1, <3>1 DEF Net, NetJoined
  <2>2. CASE b \notin Graphs
    <3>1. Touches({b}) /\ Joins(b, "aliased") /\ Walks(p, next, "no")
      BY <1>3, <1>5, <2>2, GoesWalks
    <3> QED
      BY <1>2, <1>5, <2>2, <3>1 DEF Net, NetJoined
  <2> QED
    BY <2>1, <2>2
<1>6. CASE /\ proc[p].half = "moved"
           /\ box' = [box EXCEPT ![b] = Started(x)] /\ Heals(b, x)
           /\ Goes(p, next)
  BY <1>2, <1>4, <1>6, GoesWalks DEF Net, NetStarted
<1>7. CASE /\ proc[p].half = "no" /\ x.st = "exited"
           /\ box' = [box EXCEPT ![b] = Started(x)] /\ Heals(b, x)
           /\ UNCHANGED proc
  BY <1>2, <1>4, <1>7, WaitsWalks DEF Net, NetStarted
<1>8. CASE /\ proc[p].half = "no" /\ x.st = "running" /\ x.net = "bare"
           /\ box' = [box EXCEPT ![b].net = "off"]
           /\ Stays(p, "off")
           /\ UNCHANGED scars
  BY <1>2, <1>3, <1>8, StaysWalks DEF Net, NetLeft, Runs
<1>9. CASE /\ proc[p].half = "no" /\ x.st = "running" /\ x.net \in {"aliased", "moved"}
           /\ Goes(p, next)
           /\ UNCHANGED <<box, scars>>
  BY <1>2, <1>9, GoesWalks, TouchesNone DEF Net, NetFound, Runs
<1>10. CASE /\ proc[p].half = "no" /\ (x.st = "absent" \/ (x.st = "running" /\ x.net = "off"))
            /\ Goes(p, without)
            /\ UNCHANGED <<box, scars>>
  BY <1>2, <1>10, GoesWalks, TouchesNone DEF Net, NetFound, Runs, Exists
<1> QED
  BY <1>5, <1>6, <1>7, <1>8, <1>9, <1>10 DEF Ensure
-----------------------------------------------------------------------------
(* The ends of a node's deploy *)

\* b is in Floci from now on, and its container is there.
Built(b) ==
  /\ floci'.built = floci.built \cup {b} /\ floci'.gateways = floci.gateways
  /\ floci' \in Flocis
  /\ \/ /\ UNCHANGED <<box, scars>> /\ (b \in Spawned => b \in floci.built /\ Exists(b))
     \/ /\ b \in Spawned /\ (b \notin floci.built \/ ~Exists(b))
        /\ box'[b].st = "running" /\ box'[b].config = box["floci"].config
        /\ box'[b].net = "bare" /\ ~box'[b].cut
        /\ scars' = scars \ {b}

\* So a node is built.
LEMMA BuildsBuilds ==
  ASSUME Typed, NEW b \in Spawned \cup {"services"}, Builds(b)
  PROVE  Built(b) /\ Touches({b})
<1>1. box \in [Boxes -> Containers] /\ floci \in Flocis /\ "floci" \in Boxes
  BY DEF Typed, Boxes, Composed
<1>2. /\ floci'.built = floci.built \cup {b} /\ floci'.gateways = floci.gateways
      /\ floci' \in Flocis
  BY <1>1 DEF Builds, Flocis
<1>3. CASE (b \in Spawned) /\ (b \notin floci.built \/ box[b].st = "absent")
  <2>1. box["floci"].config \in Nat /\ b \in Boxes
    BY <1>1, <1>3 DEF Containers, Boxes
  <2>2. Made(box["floci"].config, "running") \in Containers
    BY <2>1 DEF Made, Containers
  <2>3. Touches({b}) /\ box'[b] = Made(box["floci"].config, "running")
    BY <1>3, <2>1, <2>2, TouchesOne DEF Builds
  <2> QED
    BY <1>2, <1>3, <2>3 DEF Builds, Built, Made, Exists
<1>4. CASE ~((b \in Spawned) /\ (b \notin floci.built \/ box[b].st = "absent"))
  BY <1>2, <1>4, TouchesNone DEF Builds, Built, Exists
<1> QED
  BY <1>3, <1>4

Deployed(p, b, next) ==
  /\ Touches({b}) /\ UNCHANGED <<disk, loaded, worldVars, troubled, budgetVars>>
  /\ \/ FlociAnswers /\ Built(b) /\ Walks(p, next, "no") /\ UNCHANGED substrate
     \/ /\ ~FlociAnswers /\ Walks(p, "failed", "no") /\ substrate' = substrate \ {p}
        /\ UNCHANGED <<box, floci, scars>>

\* DeployNode builds it, or the command stops.
LEMMA DeployNodeEnds ==
  ASSUME Typed, NEW p \in Procs, NEW b \in Spawned \cup {"services"}, NEW next,
         DeployNode(p, b, next)
  PROVE  Deployed(p, b, next)
<1>1. CASE FlociAnswers
  BY <1>1, BuildsBuilds, GoesWalks DEF DeployNode, Deployed
<1>2. CASE ~FlociAnswers
  BY <1>2, GoesWalks, TouchesNone DEF DeployNode, Deployed, Refuses, Releases, platformVars
<1> QED
  BY <1>1, <1>2
-----------------------------------------------------------------------------
(* The ends of the router's being brought up to date, and of a warning *)

Routed(p, ports, next) ==
  /\ Touches({"router"})
  /\ UNCHANGED <<disk, floci, loaded, substrate, worldVars, troubled, budgetVars, envVars>>
  /\ \/ /\ Runs("router") /\ box["router"].config = ports
        /\ Walks(p, next, "no") /\ UNCHANGED <<box, scars>>
     \/ Exists("router") /\ box'["router"] = Absent /\ UNCHANGED <<proc, scars>>
     \/ /\ ~Exists("router") /\ box'["router"] = Made(ports, "running")
        /\ scars' = scars \ {"router"} /\ Walks(p, next, "no")

\* SyncRouter comes to one of them.
LEMMA SyncRouterEnds ==
  ASSUME Typed, NEW p \in Procs, NEW ports \in Nat, NEW next, SyncRouter(p, ports, next)
  PROVE  Routed(p, ports, next)
<1> DEFINE x == box["router"]
<1>1. /\ "router" \in Boxes /\ x \in Containers
      /\ Absent \in Containers /\ Made(ports, "running") \in Containers
  BY DEF Typed, Boxes, Absent, Made, Containers
<1>2. UNCHANGED <<disk, floci, loaded, substrate, worldVars, troubled, budgetVars, envVars>>
  BY DEF SyncRouter
<1>3. CASE /\ x.st = "running" /\ x.config = ports
           /\ Goes(p, next) /\ UNCHANGED <<box, scars>>
  BY <1>2, <1>3, GoesWalks, TouchesNone DEF Routed, Runs
<1>4. CASE /\ x.st # "absent" /\ ~(x.st = "running" /\ x.config = ports)
           /\ box' = [box EXCEPT !["router"] = Absent]
           /\ UNCHANGED <<proc, scars>>
  BY <1>1, <1>2, <1>4, TouchesOne DEF Routed, Exists
<1>5. CASE /\ x.st = "absent"
           /\ box' = [box EXCEPT !["router"] = Made(ports, "running")]
           /\ scars' = scars \ {"router"}
           /\ Goes(p, next)
  BY <1>1, <1>2, <1>5, GoesWalks, TouchesOne DEF Routed, Exists
<1> QED
  BY <1>3, <1>4, <1>5 DEF SyncRouter

Warned(p, to) ==
  /\ Walks(p, to, "no") /\ events \in Nat /\ events < MaxEvents /\ events' = events + 1
  /\ scars' = scars \cup Wounds(p) /\ troubled' = troubled \cup {p}
  /\ UNCHANGED <<platformVars, substrate, worldVars, left>>

\* A warning leaves wounds and goes on.
LEMMA WarnsEnds ==
  ASSUME Typed, NEW p \in Procs, NEW to, Warns(p, to)
  PROVE  Warned(p, to)
BY GoesWalks DEF Typed, Warns, Warned, Happens

\* Ends, in these words.
LEMMA EndsLeaves ==
  ASSUME Typed, NEW p \in Procs, Ends(p)
  PROVE  /\ Leaves(p) /\ troubled' = troubled \ {p}
         /\ plan' = IF proc[p].job \in EnvJobs THEN NoPlan ELSE plan
BY Leaving DEF Ends
-----------------------------------------------------------------------------
(* The actions made of these *)

\* Coming up.
LEMMA Ups ==
  ASSUME Typed, NEW p \in Procs
  PROVE  /\ UpFloci(p) => At(p) = "up-floci" /\ Up(p, "floci", image, "up-proxy")
         /\ UpProxy(p) => At(p) = "up-proxy" /\ Up(p, "proxy", disk.port, "repair")
         /\ Recreate(p) => At(p) = "recreate" /\ Up(p, "floci", image, "health")
<1>1. image \in Nat /\ disk.port \in Nat
  BY PlatformAssumption DEF Typed, Homes
<1>2. "floci" \in Composed /\ "proxy" \in Composed
  BY DEF Composed
<1> QED
  BY <1>1, <1>2, UpServiceEnds DEF UpFloci, UpProxy, Recreate

\* Coming onto the network.
LEMMA Nets ==
  ASSUME Typed, NEW p \in Procs
  PROVE  /\ EnsureDB(p) => \E next \in {"graph", "storage"} :
              At(p) = "db" /\ next = (IF disk.boot THEN "graph" ELSE "storage") /\ Net(p, "db", next, next)
         /\ EnsureGraph(p) => At(p) = "graph" /\ Net(p, "graph", "storage", "storage")
         /\ At(p) = "alias-db" /\ Ensure(p, "db", "deploy-graph", "failed") =>
              Net(p, "db", "deploy-graph", "failed")
         /\ At(p) = "alias-graph" /\ Ensure(p, "graph", "deploy-services", "deploy-services") =>
              Net(p, "graph", "deploy-services", "deploy-services")
         /\ EnsureEnvDB(p) =>
              /\ At(p) = "env-db" /\ Net(p, "env-db", "env-graph", "env-graph")
              /\ Planned(plan.pass,
                         IF plan.pass = "start" /\ ~Exists("env-db") /\ "env-db" \notin floci.built
                         THEN plan.marked \cup {"env-db"} ELSE plan.marked, plan.res, plan.fatal)
              /\ UNCHANGED <<declared, landed, pods>>
         /\ EnsureEnvGraph(p) =>
              At(p) = "env-graph" /\ Net(p, "env-graph", AfterGraph, AfterGraph) /\ UNCHANGED envVars
<1>1. {"db", "graph", "env-db", "env-graph"} \subseteq Boxes
  BY DEF Boxes, Spawned, Databases, Graphs
<1>2. ASSUME EnsureEnvDB(p)
      PROVE  Planned(plan.pass,
                     IF plan.pass = "start" /\ ~Exists("env-db") /\ "env-db" \notin floci.built
                     THEN plan.marked \cup {"env-db"} ELSE plan.marked, plan.res, plan.fatal)
  BY <1>2 DEF EnsureEnvDB, Typed, Plans, Planned, Substrate, Exists
<1> QED
  BY <1>1, <1>2, EnsureEnds DEF EnsureDB, EnsureGraph, EnsureEnvDB, EnsureEnvGraph

\* A new home's nodes.
LEMMA Deploys ==
  ASSUME Typed, NEW p \in Procs
  PROVE  /\ DeployNode(p, "db", "alias-db") => Deployed(p, "db", "alias-db")
         /\ DeployNode(p, "graph", "alias-graph") => Deployed(p, "graph", "alias-graph")
         /\ DeployNode(p, "services", "mark") => Deployed(p, "services", "mark")
<1>1. {"db", "graph", "services"} \subseteq Spawned \cup {"services"}
  BY DEF Spawned, Databases, Graphs
<1> QED
  BY <1>1, DeployNodeEnds

\* A node of the environment's lands.
Lands(p, n) ==
  /\ At(p) = "apply" /\ Deployable(n) /\ landed' = landed \cup {n}
  /\ Planned(plan.pass, plan.marked \ {n}, plan.res, plan.fatal)
  /\ UNCHANGED <<proc, disk, substrate, foreign, image, troubled, left, events, declared>>

LandsBox(p, n) ==
  n \in Substrate /\ Lands(p, n) /\ Built(n) /\ Touches({n}) /\ UNCHANGED <<loaded, pods>>

LandsRest(p, n) ==
  /\ n \in {"deployed", "trino"} /\ Lands(p, n) /\ UNCHANGED <<box, scars>>
  /\ floci'.built = floci.built /\ floci' \in Flocis
  /\ floci'.gateways = IF n = "trino" THEN floci.gateways ELSE floci.gateways \cup {"deployed"}
  /\ loaded' = IF n = "trino" THEN loaded ELSE loaded \ {"deployed"}
  /\ pods' = IF n = "trino" THEN TRUE ELSE pods

LandsNot(p, n) ==
  /\ At(p) = "apply" /\ ~Deployable(n) /\ Walks(p, "failed", "no")
  /\ UNCHANGED <<box, disk, floci, loaded, foreign, image, substrate, troubled, scars, left, events,
                 declared, landed, pods, plan>>

\* An environment's nodes are deployed, or the start fails.
LEMMA EnvDeploys ==
  ASSUME Typed, NEW p \in Procs, NEW n \in Nodes, Deploy(p, n)
  PROVE  /\ n \in Todo /\ (n \in Substrate \/ Todo \cap Substrate = {})
         /\ LandsBox(p, n) \/ LandsRest(p, n) \/ LandsNot(p, n)
<1>1. Substrate \subseteq Spawned \cup {"services"}
  BY DEF Substrate, Spawned, Databases, Graphs
<1>2. /\ At(p) = "apply" /\ n \in Todo /\ (n \in Substrate \/ Todo \cap Substrate = {})
      /\ UNCHANGED <<disk, substrate, foreign, image, troubled, left, events, declared>>
  BY DEF Deploy, Moves, platformVars, worldVars, budgetVars
<1>3. CASE ~Deployable(n)
  <2>1. Walks(p, "failed", "no") /\ UNCHANGED <<box, disk, floci, loaded, plan, landed, pods, scars>>
    BY <1>3, GoesWalks DEF Deploy, Moves, platformVars
  <2> QED
    BY <1>2, <1>3, <2>1 DEF LandsNot
<1>4. CASE Deployable(n)
  <2>1. landed' = landed \cup {n} /\ plan' = [plan EXCEPT !.marked = @ \ {n}] /\ UNCHANGED proc
    BY <1>4 DEF Deploy
  <2>2. Planned(plan.pass, plan.marked \ {n}, plan.res, plan.fatal)
    BY <2>1 DEF Typed, Plans, Planned
  <2>3. Lands(p, n)
    BY <1>2, <1>4, <2>1, <2>2 DEF Lands
  <2>4. CASE n \in Substrate
    <3>1. Builds(n) /\ UNCHANGED <<loaded, pods>>
      BY <1>4, <2>4 DEF Deploy, Substrate
    <3> QED
      BY <1>1, <1>2, <2>3, <2>4, <3>1, BuildsBuilds DEF LandsBox
  <2>5. CASE n = "deployed"
    <3>1. floci' = [floci EXCEPT !.gateways = @ \cup {"deployed"}]
          /\ loaded' = loaded \ {"deployed"} /\ UNCHANGED <<box, scars, pods>>
      BY <1>4, <2>5 DEF Deploy, Substrate
    <3>2. floci'.gateways = floci.gateways \cup {"deployed"} /\ floci'.built = floci.built
          /\ floci' \in Flocis
      BY <3>1 DEF Typed, Flocis
    <3> QED
      BY <1>2, <2>3, <2>5, <3>1, <3>2 DEF LandsRest
  <2>6. CASE n = "trino"
    <3>1. pods' = TRUE /\ UNCHANGED <<box, floci, loaded, scars>>
      BY <1>4, <2>6 DEF Deploy, Substrate
    <3> QED
      BY <1>2, <2>3, <2>6, <3>1 DEF LandsRest, Typed
  <2> QED
    BY <2>4, <2>5, <2>6 DEF Nodes, Substrate
<1> QED
  BY <1>3, <1>4

\* The environment's router.
LEMMA Routs ==
  ASSUME Typed, NEW p \in Procs
  PROVE  /\ StartCluster(p) =>
              /\ At(p) = "router"
              /\ IF Runs("cluster") THEN Routed(p, RouterPorts(FALSE), "expose")
                 ELSE Walks(p, "verify", "no") /\ UNCHANGED <<platformVars, plan>> /\ EnvSame
         /\ Expose(p) =>
              /\ At(p) = "expose"
              /\ IF Runs("cluster") THEN Routed(p, RouterPorts(pods), "alias")
                 ELSE Walks(p, "alias", "no") /\ UNCHANGED <<platformVars, plan>> /\ EnvSame
<1>1. RouterPorts(FALSE) \in Nat /\ RouterPorts(pods) \in Nat
  BY DEF RouterPorts
<1> QED
  BY <1>1, SyncRouterEnds, GoesWalks DEF StartCluster, Expose, Moves
\* A command that is given.
LEMMA Gives ==
  ASSUME Typed, NEW p \in Procs, NEW job, Give(p, job)
  PROVE  /\ proc[p] = Idle /\ left > 0 /\ left' = left - 1
         /\ \A q \in Procs \ {p} : proc'[q] = proc[q]
         /\ proc'[p].job = job /\ At(p)' = (IF job = "env-stop" THEN "stop-router" ELSE "lock")
         /\ proc'[p].half = "no"
         /\ job \in {"start", "stop"} \cup EnvJobs => proc' \in [Procs -> Commands]
         /\ job \in EnvJobs => Alone
         /\ plan' = IF job \in EnvJobs THEN [NoPlan EXCEPT !.pass = "start"] ELSE plan
         /\ UNCHANGED <<box, disk, floci, loaded, foreign, image, substrate, troubled, scars, events,
                        declared, landed, pods>>
<1> DEFINE at == IF job = "env-stop" THEN "stop-router" ELSE "lock"
           c == [Idle EXCEPT !.job = job, !.at = at]
<1>1. proc \in [Procs -> Commands] /\ proc[p] = Idle
  BY DEF Typed, Give
<1>2. proc' = [proc EXCEPT ![p] = c]
  BY <1>1 DEF Give
<1>3. c.job = job /\ c.at = at /\ c.half = "no"
      /\ (job \in {"start", "stop"} \cup EnvJobs => c \in Commands)
  BY DEF Idle, Commands, Stages, EnvStopStages
<1>4. proc'[p] = c /\ \A q \in Procs \ {p} : proc'[q] = proc[q]
  BY <1>1, <1>2
<1>5. job \in {"start", "stop"} \cup EnvJobs => proc' \in [Procs -> Commands]
  BY <1>1, <1>2, <1>3
<1> QED
  BY <1>1, <1>3, <1>4, <1>5 DEF Give, platformVars, worldVars, historyVars, At

\* And one that is cut off.
LEMMA CutOffEnds ==
  ASSUME Typed, NEW p \in Procs, CutOff(p)
  PROVE  /\ At(p) \notin {"idle", "lock", "failed", "ready"}
         /\ events \in Nat /\ events < MaxEvents /\ events' = events + 1
         /\ Leaves(p) /\ scars' = scars \cup Wounds(p) /\ substrate' = substrate \ {p}
         /\ troubled' = troubled \ {p} /\ UNCHANGED <<box, disk, floci, loaded, foreign, image, left>>
<1>1. events \in Nat
  BY DEF Typed
<1> QED
  BY <1>1, Leaving DEF CutOff, Happens, Releases, platformVars, worldVars
-----------------------------------------------------------------------------
(* Stages and locks *)

\* The end of a stop.
LEMMA StopComposedEnds ==
  ASSUME Typed, NEW p \in Procs, StopComposed(p)
  PROVE  /\ At(p) = "stop-composed" /\ Leaves(p)
         /\ box' = Stopped(Composed) /\ substrate' = substrate \ {p} /\ troubled' = troubled \ {p}
         /\ UNCHANGED <<disk, floci, loaded, foreign, image, scars, left, events>>
BY Leaving DEF StopComposed, Releases, worldVars, budgetVars

\* What an environment declares.
LEMMA DeclaredNodes ==
  ASSUME Typed
  PROVE  declared \subseteq Nodes /\ "env-db" \in declared /\ ("trino" \in declared => Full)
BY EnvAssumption DEF Typed, Full
-----------------------------------------------------------------------------
(* The other actions, field by field *)

\* The home but for its routes' fragments stays as it is.
Rewrites(frag) ==
  disk' \in Homes /\ disk'.boot = disk.boot /\ disk'.port = disk.port /\ disk'.frag = frag

\* The fragments rewritten.
LEMMA Rewriting ==
  ASSUME Typed, NEW frag \in SUBSET Routes, disk' = [disk EXCEPT !.frag = frag]
  PROVE  Rewrites(frag)
<1>1. disk \in Homes
  BY DEF Typed
<1> QED
  BY <1>1 DEF Homes, Rewrites

\* A container removed.
LEMMA RemovesOne ==
  ASSUME Typed, NEW b \in Composed \cup Spawned, Removes(b)
  PROVE  /\ Touches({b}) /\ box'[b] = Absent
         /\ floci' = IF b = "floci" /\ box[b].cut THEN NewFloci ELSE floci
         /\ UNCHANGED <<loaded, scars>>
<1>1. b \in Boxes /\ Absent \in Containers
  BY DEF Boxes, Absent, Containers
<1> QED
  BY <1>1, TouchesOne DEF Removes

\* The ports are chosen, or there are none to be had.
PortChosen(p) ==
  /\ disk' \in Homes /\ disk'.boot = disk.boot /\ disk'.frag = disk.frag
  /\ Walks(p, "up-floci", "no") /\ UNCHANGED substrate
  /\ "unasked" \notin Faults => disk'.port \in Choose(TRUE)
PortRefused(p) ==
  /\ Walks(p, "failed", "no") /\ substrate' = substrate \ {p} /\ UNCHANGED disk
  /\ "unasked" \notin Faults => Choose(TRUE) = {}

\* ChoosePorts comes to one of the two.
LEMMA Porting ==
  ASSUME Typed, NEW p \in Procs, ChoosePorts(p)
  PROVE  /\ At(p) = "ports" /\ (PortChosen(p) \/ PortRefused(p))
         /\ UNCHANGED <<box, floci, loaded, foreign, image, troubled, scars, left, events>>
<1>1. PICK asked \in {TRUE} \cup (IF "unasked" \in Faults THEN {FALSE} ELSE {}) :
        IF Choose(asked) = {} THEN Refuses(p)
        ELSE /\ \E q \in Choose(asked) : disk' = [disk EXCEPT !.port = q]
             /\ Goes(p, "up-floci")
             /\ UNCHANGED <<box, floci, loaded, substrate>>
  BY DEF ChoosePorts
<1>2. At(p) = "ports" /\ UNCHANGED <<foreign, image, troubled, scars, left, events>>
  BY DEF ChoosePorts, Same, worldVars, historyVars, budgetVars
<1>3. "unasked" \notin Faults => asked = TRUE
  OBVIOUS
<1>4. CASE Choose(asked) = {}
  BY <1>1, <1>2, <1>3, <1>4, GoesWalks DEF Refuses, Releases, platformVars, PortRefused
<1>5. CASE Choose(asked) # {}
  <2>1. PICK q \in Choose(asked) : disk' = [disk EXCEPT !.port = q]
    BY <1>1, <1>5
  <2>2. \A T \in SUBSET Ports : T # {} => Min(T) \in T
    BY LeastNumber, PlatformAssumption
  <2>3. q \in Ports
    <3>1. disk.port \in Ports /\ Free(asked) \cap Alternatives \subseteq Ports
      BY DEF Typed, Homes, Free, Alternatives
    <3> QED
      BY <2>1, <2>2, <3>1 DEF Choose
  <2>4. disk' \in Homes /\ disk'.port = q /\ disk'.boot = disk.boot /\ disk'.frag = disk.frag
    BY <2>1, <2>3 DEF Typed, Homes
  <2>5. Walks(p, "up-floci", "no") /\ UNCHANGED <<box, floci, loaded, substrate>>
    BY <1>1, <1>5, GoesWalks
  <2>6. PortChosen(p)
    BY <1>3, <2>1, <2>4, <2>5 DEF PortChosen
  <2> QED
    BY <1>2, <2>5, <2>6
<1> QED
  BY <1>4, <1>5

\* The repair of a stale directory.
LEMMA Repairing ==
  ASSUME Typed, NEW p \in Procs, Repair(p)
  PROVE  /\ At(p) = "repair" /\ UNCHANGED <<disk, substrate, worldVars, troubled, budgetVars>>
         /\ \/ /\ proc[p].found /\ Runs("floci") /\ box["floci"].cut
               /\ Touches({"floci"}) /\ box'["floci"] = Absent /\ floci' = NewFloci
               /\ UNCHANGED <<loaded, scars>> /\ Walks(p, "recreate", "no")
            \/ /\ ~(proc[p].found /\ Runs("floci") /\ box["floci"].cut)
               /\ UNCHANGED <<box, floci, loaded, scars>> /\ Walks(p, "health", "no")
<1>1. "floci" \in Composed \cup Spawned
  BY DEF Composed
<1> QED
  BY <1>1, RemovesOne, GoesWalks DEF Repair

\* The routes, rewritten by the control plane, the account service and the environment.
LEMMA WritingRoutes ==
  ASSUME Typed, NEW p \in Procs, WriteRoutes(p)
  PROVE  /\ At(p) = "routes" /\ UNCHANGED <<box, floci, worldVars, historyVars, budgetVars>>
         /\ IF FlociAnswers
            THEN /\ Rewrites((disk.frag \ {"services"}) \cup (floci.built \cap {"services"}))
                 /\ Reloads /\ Walks(p, "ready", "no") /\ UNCHANGED substrate
            ELSE /\ Walks(p, "failed", "no") /\ substrate' = substrate \ {p}
                 /\ UNCHANGED <<disk, loaded>>
<1>1. (disk.frag \ {"services"}) \cup (floci.built \cap {"services"}) \in SUBSET Routes
  BY DEF Typed, Homes, Routes
<1> QED
  BY <1>1, Rewriting, GoesWalks DEF WriteRoutes, Same, Refuses, Releases, platformVars

\* The account service's gateway.
LEMMA MakingAccount ==
  ASSUME Typed, NEW p \in Procs, EnsureDBAccount(p)
  PROVE  /\ At(p) = "dbaccount" /\ Walks(p, "splice", "no") /\ UNCHANGED <<box, plan>> /\ EnvSame
         /\ IF FlociAnswers
            THEN /\ floci'.gateways = floci.gateways \cup {"dbaccount"}
                 /\ floci'.built = floci.built /\ floci' \in Flocis
                 /\ Rewrites((disk.frag \ {"deployed"}) \cup {"dbaccount"})
                 /\ loaded' = loaded \ {"dbaccount"}
            ELSE UNCHANGED <<disk, floci, loaded>>
<1>1. (disk.frag \ {"deployed"}) \cup {"dbaccount"} \in SUBSET Routes /\ floci \in Flocis
  BY DEF Typed, Homes, Routes
<1>2. FlociAnswers => /\ floci'.gateways = floci.gateways \cup {"dbaccount"}
                      /\ floci'.built = floci.built /\ floci' \in Flocis
  BY <1>1 DEF EnsureDBAccount, Flocis
<1> QED
  BY <1>1, <1>2, Rewriting, GoesWalks DEF EnsureDBAccount

\* The environment's gateways.
LEMMA Splicing ==
  ASSUME Typed, NEW p \in Procs, RefreshRoutes(p)
  PROVE  /\ At(p) = "splice" /\ Walks(p, AfterRoutes, "no") /\ UNCHANGED <<box, floci>> /\ EnvSame
         /\ Rewrites(IF FlociAnswers THEN disk.frag \cup floci.gateways ELSE disk.frag)
         /\ Reloads /\ Planned(NextPass, plan.marked, plan.res, plan.fatal)
<1>1. disk \in Homes /\ disk.frag \cup floci.gateways \in SUBSET Routes
  BY DEF Typed, Homes, Flocis, Routes
<1>2. Rewrites(IF FlociAnswers THEN disk.frag \cup floci.gateways ELSE disk.frag)
  <2>1. CASE FlociAnswers
    BY <1>1, <2>1, Rewriting DEF RefreshRoutes
  <2>2. CASE ~FlociAnswers
    BY <1>1, <2>2 DEF RefreshRoutes, Rewrites
  <2> QED
    BY <2>1, <2>2
<1>3. plan' = [plan EXCEPT !.pass = NextPass] /\ NextPass \in {"none", "start", "apply", "again", "refresh"}
  BY DEF RefreshRoutes, NextPass, Typed, Plans
<1>4. Planned(NextPass, plan.marked, plan.res, plan.fatal)
  BY <1>3 DEF Typed, Plans, Planned
<1> QED
  BY <1>2, <1>4, GoesWalks DEF RefreshRoutes

\* Containers stopped, or what they mount deleted.
Stops(bs) ==
  /\ box' \in [Boxes -> Containers]
  /\ \A b \in Boxes :
       /\ box'[b].config = box[b].config /\ box'[b].net = box[b].net /\ box'[b].cut = box[b].cut
       /\ box'[b].st = IF b \in bs /\ Runs(b) THEN "exited" ELSE box[b].st
       /\ b \notin bs => box'[b] = box[b]
Cuts(bs) ==
  /\ box' \in [Boxes -> Containers]
  /\ \A b \in Boxes :
       /\ box'[b].st = box[b].st /\ box'[b].config = box[b].config /\ box'[b].net = box[b].net
       /\ box'[b].cut = IF b \in bs /\ Runs(b) THEN TRUE ELSE box[b].cut
       /\ b \notin bs => box'[b] = box[b]

\* In these words.
LEMMA Stopping ==
  ASSUME Typed, NEW bs
  PROVE  (box' = Stopped(bs) => Stops(bs)) /\ (box' = CutFrom(bs) => Cuts(bs))
<1>1. \A b \in Boxes : box[b] \in Containers
  BY DEF Typed
<1>2. ASSUME box' = Stopped(bs), NEW b \in Boxes
      PROVE  /\ box'[b].config = box[b].config /\ box'[b].net = box[b].net /\ box'[b].cut = box[b].cut
             /\ box'[b].st = IF b \in bs /\ Runs(b) THEN "exited" ELSE box[b].st
             /\ b \notin bs => box'[b] = box[b]
  <2>1. box'[b] = IF b \in bs /\ Runs(b) THEN [box[b] EXCEPT !.st = "exited"] ELSE box[b]
    BY <1>2 DEF Stopped
  <2> QED
    BY <1>1, <2>1 DEF Containers
<1>3. ASSUME box' = CutFrom(bs), NEW b \in Boxes
      PROVE  /\ box'[b].st = box[b].st /\ box'[b].config = box[b].config /\ box'[b].net = box[b].net
             /\ box'[b].cut = IF b \in bs /\ Runs(b) THEN TRUE ELSE box[b].cut
             /\ b \notin bs => box'[b] = box[b]
  <2>1. box'[b] = IF b \in bs /\ Runs(b) THEN [box[b] EXCEPT !.cut = TRUE] ELSE box[b]
    BY <1>3 DEF CutFrom
  <2> QED
    BY <1>1, <2>1 DEF Containers
<1>4. ASSUME box' = Stopped(bs)
      PROVE  Stops(bs)
  BY <1>2, <1>4, StoppedFits DEF Stops
<1>5. ASSUME box' = CutFrom(bs)
      PROVE  Cuts(bs)
  BY <1>3, <1>5, StoppedFits DEF Cuts
<1> QED
  BY <1>4, <1>5

\* The proxy is given the cluster's names.
LEMMA Aliasing ==
  ASSUME Typed, NEW p \in Procs, Alias(p)
  PROVE  /\ At(p) = "alias" /\ Touches({"proxy"}) /\ UNCHANGED scars
         /\ UNCHANGED <<disk, floci, loaded, substrate, worldVars, budgetVars, envVars>>
         /\ \/ /\ pods /\ Runs("cluster") /\ proc[p].half = "no" /\ box["proxy"].net = "bare"
               /\ Exists("proxy") /\ Joins("proxy", "off") /\ Walks(p, "alias", "off")
               /\ troubled' = troubled \cup (Working \ {p})
            \/ /\ proc[p].half = "off" /\ Joins("proxy", "aliased") /\ Walks(p, AfterAlias, "no")
               /\ UNCHANGED troubled
            \/ /\ proc[p].half = "no" /\ Walks(p, AfterAlias, "no") /\ UNCHANGED <<box, troubled>>
               /\ ~(pods /\ Runs("cluster") /\ box["proxy"].net = "bare" /\ Exists("proxy"))
<1> DEFINE x == box["proxy"]
<1>1. "proxy" \in Boxes /\ x \in Containers /\ box \in [Boxes -> Containers]
  BY DEF Typed, Boxes, Composed
<1>2. At(p) = "alias" /\ UNCHANGED <<disk, floci, loaded, substrate, worldVars, scars, budgetVars, envVars>>
  BY DEF Alias
<1>3. ASSUME NEW n \in {"off", "aliased"}, box' = [box EXCEPT !["proxy"].net = n]
      PROVE  Touches({"proxy"}) /\ Joins("proxy", n)
  <2>1. box' = [box EXCEPT !["proxy"] = [x EXCEPT !.net = n]] /\ [x EXCEPT !.net = n] \in Containers
    BY <1>1, <1>3 DEF Containers
  <2>2. Touches({"proxy"}) /\ box'["proxy"] = [x EXCEPT !.net = n]
    BY <1>1, <1>2, <1>3, <2>1, TouchesOne
  <2> QED
    BY <1>1, <2>2 DEF Joins, Containers
<1>4. CASE /\ pods /\ Runs("cluster") /\ proc[p].half = "no" /\ x.net = "bare" /\ x.st # "absent"
           /\ box' = [box EXCEPT !["proxy"].net = "off"] /\ Stays(p, "off")
           /\ troubled' = troubled \cup (Working \ {p})
  BY <1>2, <1>3, <1>4, StaysWalks DEF Exists
<1>5. CASE /\ proc[p].half = "off"
           /\ box' = [box EXCEPT !["proxy"].net = "aliased"] /\ Goes(p, AfterAlias)
           /\ UNCHANGED troubled
  BY <1>2, <1>3, <1>5, GoesWalks
<1>6. CASE /\ proc[p].half = "no"
           /\ ~(pods /\ Runs("cluster") /\ x.net = "bare" /\ x.st # "absent")
           /\ Goes(p, AfterAlias) /\ UNCHANGED <<box, troubled>>
  BY <1>2, <1>6, GoesWalks, TouchesNone DEF Exists
<1> QED
  BY <1>4, <1>5, <1>6 DEF Alias

\* The cluster is looked at.
LEMMA Reconciling ==
  ASSUME Typed, NEW p \in Procs, Reconcile(p)
  PROVE  /\ At(p) = "reconcile" /\ UNCHANGED <<box, disk, loaded, plan>> /\ EnvSame
         /\ \/ /\ FlociAnswers /\ "cluster" \in floci.built
               /\ ~Exists("cluster") \/ box["cluster"].config # box["floci"].config
               /\ floci'.built = floci.built \ {"cluster"} /\ floci'.gateways = floci.gateways
               /\ floci' \in Flocis /\ Walks(p, "clear", "no")
            \/ /\ UNCHANGED floci /\ Walks(p, "k3s", "no")
               /\ ~FlociAnswers \/ "cluster" \notin floci.built
                    \/ (Exists("cluster") /\ box["cluster"].config = box["floci"].config)
<1> DEFINE x == box["cluster"]
           all == FlociAnswers /\ "cluster" \in floci.built
                  /\ (x.st = "absent" \/ x.config # box["floci"].config)
<1>1. At(p) = "reconcile" /\ UNCHANGED plan /\ EnvSame
  BY DEF Reconcile
<1>2. CASE all
  <2>1. floci' = [floci EXCEPT !.built = @ \ {"cluster"}] /\ Goes(p, "clear") /\ UNCHANGED <<box, disk, loaded>>
    BY <1>2 DEF Reconcile
  <2>2. floci'.built = floci.built \ {"cluster"} /\ floci'.gateways = floci.gateways /\ floci' \in Flocis
    BY <2>1 DEF Typed, Flocis
  <2> QED
    BY <1>1, <1>2, <2>1, <2>2, GoesWalks DEF Exists
<1>3. CASE ~all
  BY <1>1, <1>3, GoesWalks DEF Reconcile, Moves, platformVars, Exists
<1> QED
  BY <1>2, <1>3

\* It is removed.
LEMMA Clearing ==
  ASSUME Typed, NEW p \in Procs, Clear(p)
  PROVE  /\ At(p) = "clear" /\ Walks(p, "k3s", "no") /\ Touches({"cluster"})
         /\ box'["cluster"] = Absent /\ UNCHANGED <<floci, loaded, scars>>
         /\ Planned(plan.pass, plan.marked \cup {"cluster"}, plan.res, plan.fatal)
         /\ UNCHANGED <<disk, substrate, foreign, image, troubled, left, events, declared, landed, pods>>
<1>1. "cluster" \in Composed \cup Spawned /\ "cluster" # "floci" /\ "cluster" \in Substrate
  BY DEF Spawned, Substrate
<1>2. plan' = [plan EXCEPT !.marked = @ \cup {"cluster"}]
  BY DEF Clear
<1>3. Planned(plan.pass, plan.marked \cup {"cluster"}, plan.res, plan.fatal)
  BY <1>1, <1>2 DEF Typed, Plans, Planned
<1> QED
  BY <1>1, <1>3, RemovesOne, GoesWalks DEF Clear, worldVars, budgetVars

\* What EnsureK3sRunning finds, and what is then done.
K3sUp(p) ==
  /\ Exists("cluster") /\ box["cluster"].config = box["floci"].config
  /\ box'["cluster"].st = "running" /\ ~box'["cluster"].cut
  /\ box'["cluster"].config = box["cluster"].config
  /\ box'["cluster"].net = IF box["cluster"].net = "moved" THEN "aliased" ELSE box["cluster"].net
  /\ Walks(p, "router", "no")
  /\ IF plan.pass = "again" THEN Planned(plan.pass, plan.marked, plan.res, FALSE)
     ELSE Planned(plan.pass, plan.marked, "up", plan.fatal)
K3sStale(p) ==
  /\ Exists("cluster") /\ box["cluster"].config # box["floci"].config /\ UNCHANGED box
  /\ IF plan.pass = "again"
     THEN Walks(p, "env-db", "no") /\ Planned("refresh", plan.marked, plan.res, FALSE)
     ELSE Walks(p, "dbaccount", "no") /\ Planned(plan.pass, plan.marked, "stale", plan.fatal)
K3sMissing(p) ==
  /\ ~Exists("cluster") /\ UNCHANGED box
  /\ IF plan.pass = "again"
     THEN Walks(p, "env-db", "no") /\ Planned("refresh", plan.marked, plan.res, TRUE)
     ELSE Walks(p, "dbaccount", "no")
          /\ Planned(plan.pass, plan.marked \cup {"cluster"}, "missing", plan.fatal)

\* It is started if it is there and of the image.
LEMMA StartingK3s ==
  ASSUME Typed, NEW p \in Procs, EnsureK3s(p)
  PROVE  /\ At(p) = "k3s" /\ Touches({"cluster"}) /\ UNCHANGED <<disk, floci, loaded>> /\ EnvSame
         /\ K3sUp(p) \/ K3sStale(p) \/ K3sMissing(p)
<1> DEFINE x == box["cluster"]
           res == CASE x.st = "absent" -> "missing"
                    [] x.st # "absent" /\ x.config # box["floci"].config -> "stale"
                    [] OTHER -> "up"
           to == IF res = "up" THEN "router" ELSE IF plan.pass = "again" THEN "env-db" ELSE "dbaccount"
<1>1. "cluster" \in Boxes /\ x \in Containers /\ plan \in Plans /\ "cluster" \in Substrate
  BY DEF Typed, Boxes, Spawned, Substrate
<1>2. /\ At(p) = "k3s" /\ UNCHANGED <<disk, floci, loaded>> /\ EnvSame
      /\ box' = IF res = "up" THEN [box EXCEPT !["cluster"] = Started(x)] ELSE box
      /\ Goes(p, to)
      /\ plan' = IF plan.pass = "again"
                 THEN [plan EXCEPT !.pass = IF res = "up" THEN @ ELSE "refresh", !.fatal = (res = "missing")]
                 ELSE [plan EXCEPT !.res = res, !.marked = IF res = "missing" THEN @ \cup {"cluster"} ELSE @]
  BY DEF EnsureK3s
<1>3. /\ res \in {"missing", "stale", "up"}
      /\ res = "missing" <=> ~Exists("cluster")
      /\ res = "up" <=> Exists("cluster") /\ x.config = box["floci"].config
  <2>1. CASE x.st = "absent"
    BY <2>1 DEF Exists
  <2>2. CASE x.st # "absent" /\ x.config # box["floci"].config
    BY <2>2 DEF Exists
  <2>3. CASE x.st # "absent" /\ x.config = box["floci"].config
    BY <2>3 DEF Exists
  <2> QED
    BY <2>1, <2>2, <2>3
<1> HIDE DEF res
<1>4. Walks(p, to, "no") /\ UNCHANGED scars
  BY <1>2, GoesWalks DEF EnvSame, historyVars
<1>5. IF plan.pass = "again"
      THEN Planned(IF res = "up" THEN plan.pass ELSE "refresh", plan.marked, plan.res, res = "missing")
      ELSE Planned(plan.pass, IF res = "missing" THEN plan.marked \cup {"cluster"} ELSE plan.marked, res,
                   plan.fatal)
  BY <1>1, <1>2, <1>3 DEF Plans, Planned
<1>6. CASE res = "up"
  <2>1. Started(x) \in Containers
    BY <1>1, ContainerFits
  <2>2. Touches({"cluster"}) /\ box'["cluster"] = Started(x)
    BY <1>1, <1>2, <1>4, <1>6, <2>1, TouchesOne
  <2>3. /\ box'["cluster"].st = "running" /\ ~box'["cluster"].cut /\ box'["cluster"].config = x.config
        /\ box'["cluster"].net = IF x.net = "moved" THEN "aliased" ELSE x.net
    BY <1>1, <2>2 DEF Started, Containers
  <2>4. K3sUp(p)
    BY <1>3, <1>4, <1>5, <1>6, <2>3 DEF K3sUp, Planned
  <2> QED
    BY <1>2, <2>2, <2>4
<1>7. CASE res = "stale"
  <2>1. Touches({"cluster"}) /\ UNCHANGED box
    BY <1>2, <1>4, <1>7, TouchesNone
  <2>2. K3sStale(p)
    BY <1>3, <1>4, <1>5, <1>7, <2>1 DEF K3sStale, Planned
  <2> QED
    BY <1>2, <2>1, <2>2
<1>8. CASE res = "missing"
  <2>1. Touches({"cluster"}) /\ UNCHANGED box
    BY <1>2, <1>4, <1>8, TouchesNone
  <2>2. K3sMissing(p)
    BY <1>3, <1>4, <1>5, <1>8, <2>1 DEF K3sMissing, Planned
  <2> QED
    BY <1>2, <2>1, <2>2
<1> QED
  BY <1>3, <1>6, <1>7, <1>8

\* A container of the environment is stopped.
LEMMA StoppingBox ==
  ASSUME Typed, NEW p \in Procs, NEW b \in DOMAIN AfterStop, StopBox(p, b)
  PROVE  /\ b \in {"router", "cluster", "env-db", "env-graph"} /\ Stops({b})
         /\ At(p) \in EnvStopStages
         /\ \E to \in EnvStopStages : Walks(p, to, "no")
         /\ UNCHANGED <<disk, floci, loaded, plan>> /\ EnvSame
<1>1. b \in {"router", "cluster", "env-db", "env-graph"}
  BY DEF AfterStop
<1>2. AfterStop[b] \in EnvStopStages /\ StopOf[b] \in EnvStopStages
  BY <1>1 DEF AfterStop, StopOf, EnvStopStages
<1>3. /\ At(p) = StopOf[b] /\ box' = Stopped({b}) /\ Goes(p, AfterStop[b])
      /\ UNCHANGED <<disk, floci, loaded, plan>> /\ EnvSame
  BY DEF StopBox
<1> QED
  BY <1>1, <1>2, <1>3, Stopping, GoesWalks

\* What a warning leads to.
LEMMA EnvWarning ==
  ASSUME Typed, NEW p \in Procs, EnvWarns(p)
  PROVE  /\ UNCHANGED envVars
         /\ \E to : /\ Warned(p, to)
                    /\ \/ At(p) = "env-db" /\ to = "env-graph"
                       \/ At(p) = "env-graph" /\ to = AfterGraph
                       \/ At(p) \in {"reconcile", "clear"} /\ to = "k3s"
                       \/ At(p) = "router" /\ to = "verify"
                       \/ At(p) = "expose" /\ to = "alias"
                       \/ At(p) = "alias" /\ to = AfterAlias
                       \/ At(p) = "dbaccount" /\ to = "splice"
                       \/ At(p) \in EnvStopStages /\ to \in EnvStopStages
<1>1. \A b \in DOMAIN AfterStop : AfterStop[b] \in EnvStopStages /\ StopOf[b] \in EnvStopStages
  BY DEF AfterStop, StopOf, EnvStopStages
<1>2. UNCHANGED envVars
  BY DEF EnvWarns
<1>3. CASE \E b \in DOMAIN AfterStop : At(p) = StopOf[b] /\ Warns(p, AfterStop[b])
  BY <1>1, <1>2, <1>3, WarnsEnds
<1>4. CASE ~\E b \in DOMAIN AfterStop : At(p) = StopOf[b] /\ Warns(p, AfterStop[b])
  BY <1>2, <1>4, WarnsEnds DEF EnvWarns
<1> QED
  BY <1>3, <1>4

\* Verify, and the end of the apply.
LEMMA Planning ==
  ASSUME Typed, NEW p \in Procs
  PROVE  /\ Verify(p) =>
              /\ At(p) = "verify" /\ EnvSame /\ UNCHANGED <<box, disk, floci, loaded>>
              /\ Walks(p, IF plan.pass = "again" THEN "env-db" ELSE "dbaccount", "no")
              /\ Planned(IF plan.pass = "again" THEN "refresh" ELSE plan.pass, plan.marked, plan.res,
                         ~Runs("cluster"))
         /\ Applied(p) =>
              /\ At(p) = "apply" /\ Todo = {} /\ EnvSame /\ UNCHANGED <<box, disk, floci, loaded>>
              /\ \/ /\ Full /\ Runs("cluster") /\ Walks(p, "expose", "no") /\ plan' = plan
                 \/ /\ ~Full \/ ~Runs("cluster")
                    /\ Walks(p, IF plan.res = "missing" THEN "k3s" ELSE "env-db", "no")
                    /\ Planned(NextPass, plan.marked, plan.res, plan.fatal)
<1>1. plan \in Plans
  BY DEF Typed
<1>2. Verify(p) => Planned(IF plan.pass = "again" THEN "refresh" ELSE plan.pass, plan.marked, plan.res,
                           ~Runs("cluster"))
  BY <1>1 DEF Verify, Plans, Planned, Runs
<1>3. NextPass \in {"none", "start", "apply", "again", "refresh"}
  BY <1>1 DEF NextPass, Plans
<1>4. Applied(p) /\ (~Full \/ ~Runs("cluster")) => Planned(NextPass, plan.marked, plan.res, plan.fatal)
  BY <1>1, <1>3 DEF Applied, Plans, Planned
<1>5. Applied(p) => \/ /\ Full /\ Runs("cluster") /\ Walks(p, "expose", "no") /\ plan' = plan
                    \/ /\ ~Full \/ ~Runs("cluster")
                       /\ Walks(p, IF plan.res = "missing" THEN "k3s" ELSE "env-db", "no")
                       /\ Planned(NextPass, plan.marked, plan.res, plan.fatal)
  BY <1>4, GoesWalks DEF Applied, Moves
<1> QED
  BY <1>2, <1>5, GoesWalks DEF Verify, Applied, Moves, platformVars

\* The steps of a new home's bootstrap.
BootDeploys(p) ==
  \/ At(p) = "deploy-db" /\ Deployed(p, "db", "alias-db")
  \/ At(p) = "deploy-graph" /\ Deployed(p, "graph", "alias-graph")
  \/ At(p) = "deploy-services" /\ Deployed(p, "services", "mark")
BootNets(p) ==
  \/ At(p) = "alias-db" /\ Net(p, "db", "deploy-graph", "failed")
  \/ At(p) = "alias-graph" /\ Net(p, "graph", "deploy-services", "deploy-services")

\* They are deploys and joinings of the network.
LEMMA Bootstraps ==
  ASSUME Typed, NEW p \in Procs, Bootstrap(p)
  PROVE  BootDeploys(p) \/ BootNets(p)
BY Nets, Deploys DEF Bootstrap, BootDeploys, BootNets
-----------------------------------------------------------------------------
(* The last few, in the same words *)

\* A start takes the lock.
LEMMA LockingUp ==
  ASSUME Typed, NEW p \in Procs, Begin(p), UNCHANGED envVars
  PROVE  /\ At(p) = "lock" /\ proc[p].job \in {"start", "env-start"} /\ substrate = {} /\ substrate' = {p}
         /\ Rewrites(disk.frag \cup {"floci"}) /\ Walks(p, "ports", "no")
         /\ UNCHANGED <<box, floci, loaded, foreign, image, troubled, scars, left, events,
                        declared, landed, pods, plan>>
<1>1. disk.frag \cup {"floci"} \in SUBSET Routes
  BY DEF Typed, Homes, Routes
<1> QED
  BY <1>1, Rewriting, GoesWalks DEF Begin, Same, worldVars, historyVars, budgetVars, envVars

\* A home is marked as bootstrapped.
LEMMA Marking ==
  ASSUME Typed, NEW p \in Procs, MarkBootstrapped(p), UNCHANGED envVars
  PROVE  /\ At(p) = "mark" /\ Walks(p, "routes", "no")
         /\ disk' \in Homes /\ disk'.boot = TRUE /\ disk'.port = disk.port /\ disk'.frag = disk.frag
         /\ UNCHANGED <<box, floci, loaded, substrate, foreign, image, troubled, scars, left, events,
                        declared, landed, pods, plan>>
<1>1. disk \in Homes /\ disk' = [disk EXCEPT !.boot = TRUE]
  BY DEF Typed, MarkBootstrapped
<1>2. disk' \in Homes /\ disk'.boot = TRUE /\ disk'.port = disk.port /\ disk'.frag = disk.frag
  BY <1>1 DEF Homes
<1> QED
  BY <1>2, GoesWalks DEF MarkBootstrapped, Same, worldVars, historyVars, budgetVars, envVars

\* An environment's routes are removed.
LEMMA Unrouting ==
  ASSUME Typed, NEW p \in Procs, Unroute(p)
  PROVE  /\ At(p) = "unroute" /\ Leaves(p) /\ Cuts({"router"}) /\ troubled' = troubled \ {p}
         /\ scars' = scars \cup (IF Runs("router") THEN {"router"} ELSE {})
         /\ Rewrites(disk.frag \ {"dbaccount", "deployed"}) /\ Reloads
         /\ plan' = IF proc[p].job \in EnvJobs THEN NoPlan ELSE plan
         /\ UNCHANGED <<floci, substrate, foreign, image, left, events, declared, landed, pods>>
<1>1. disk.frag \ {"dbaccount", "deployed"} \in SUBSET Routes
  BY DEF Typed, Homes, Routes
<1>2. {"router"} \cap {b \in Boxes : Runs(b)} = IF Runs("router") THEN {"router"} ELSE {}
  BY DEF Boxes
<1> QED
  BY <1>1, <1>2, Rewriting, EndsLeaves, Stopping DEF Unroute, worldVars, budgetVars

\* The home is deleted.
LEMMA Wiping ==
  ASSUME Typed, EnvWipe
  PROVE  /\ Working = {} /\ Cuts({"floci", "proxy", "router"})
         /\ events \in Nat /\ events < MaxEvents /\ events' = events + 1
         /\ disk' \in Homes /\ disk'.boot = FALSE /\ disk'.port = Min(Ports) /\ disk'.frag = {}
         /\ floci' = Kept /\ landed' = {}
         /\ scars' = (scars \ {"home"}) \cup {b \in {"proxy", "router"} : Runs(b)}
         /\ UNCHANGED <<loaded, proc, substrate, foreign, image, troubled, left, declared, pods, plan>>
<1>1. disk' = [boot |-> FALSE, port |-> Min(Ports), frag |-> {}]
  BY DEF EnvWipe, Wipe
<1>2. disk' \in Homes /\ disk'.boot = FALSE /\ disk'.port = Min(Ports) /\ disk'.frag = {}
  BY <1>1, DefaultPort DEF Homes
<1>3. events \in Nat
  BY DEF Typed
<1> QED
  BY <1>2, <1>3, Stopping DEF EnvWipe, Wipe, Happens, worldVars

\* What it is to be typed, part by part.
LEMMA Shapes ==
  ASSUME Typed
  PROVE  /\ box \in [Boxes -> Containers] /\ disk \in Homes /\ floci \in Flocis
         /\ proc \in [Procs -> Commands] /\ plan \in Plans
         /\ loaded \subseteq Routes /\ foreign \subseteq Ports /\ image \in Nat
         /\ substrate \subseteq Procs /\ troubled \subseteq Procs /\ scars \subseteq Boxes \cup {"home"}
         /\ left \in 0..MaxCommands /\ events \in 0..MaxEvents
         /\ declared \in Declarations /\ landed \subseteq declared /\ pods \in BOOLEAN
         /\ disk.frag \subseteq Routes /\ floci.gateways \subseteq Routes /\ "services" \in Routes
         /\ \A p \in Procs : At(p) \in Stages /\ proc[p].half \in {"no", "off", "moved"}
BY DEF Typed, Homes, Flocis, Routes, Commands, At

\* Every stage is one, no plan is a plan, and a new Floci is one.
LEMMA EachFits ==
  /\ {"idle", "lock", "failed", "deploy-db", "alias-db", "deploy-graph", "alias-graph",
      "deploy-services", "mark", "db", "graph", "storage", "routes", "ready", "health", "ports",
      "up-floci", "up-proxy", "repair", "recreate", "stop-spawned", "stop-composed", "env-health",
      "env-db", "env-graph", "reconcile", "clear", "k3s", "router", "expose", "alias", "verify",
      "dbaccount", "splice", "apply", "env-ready", "stop-router", "stop-cluster", "stop-env-db",
      "stop-env-graph", "unroute"} \subseteq Stages
  /\ EnvStopStages \subseteq Stages
  /\ NoPlan \in Plans /\ [NoPlan EXCEPT !.pass = "start"] \in Plans /\ NewFloci \in Flocis
BY DEF Stages, StartStages, StopStages, EnvStages, EnvStopStages, PastRepair, PastHealth, Bootstrapping,
       NoPlan, Plans, NewFloci, Flocis

\* What FailsForCause and PortsStay say of a step.
FailsStep ==
  \A p \in Procs : At(p) # "failed" /\ At(p)' = "failed" => p \in troubled \/ scars # {} \/ foreign # {}
PortStep == disk'.port # disk.port => disk.port \in foreign \/ ~disk'.boot
-----------------------------------------------------------------------------
(* Where a step keeps a part of the invariant for more than one reason *)

\* What every step is shown to do: it keeps the platform's part of the invariant, and, where
\* the engine can say which ports are ours, the rest; and it fails, or moves the port, for cause.
StepFits ==
  /\ PlatformInv'
  /\ "unasked" \notin Faults /\ ServiceInv => ServiceInv' /\ FailsStep /\ PortStep

\* A start is the only one.
LEMMA OnlyStart ==
  ASSUME StagesFit, NEW p \in Procs, At(p) \in StartStages
  PROVE  \A q \in Procs \ {p} : At(q) \notin StartStages
BY DEF StagesFit

\* A container that is whole stays so while it is looked at.
LEMMA StaysWhole ==
  ASSUME Typed, NetsFit, NEW p \in Procs, NEW b \in Databases \cup Graphs, NEW next, NEW without,
         At(p) \in InHand(b), Whole(b), Net(p, b, next, without)
  PROVE  Whole(b)'
<1>1. /\ proc[p].half = "moved" => b \in Graphs
      /\ proc[p].half # "no" => box[b].net = proc[p].half
      /\ box[b].net = "bare" => b \notin scars
      /\ b \in Boxes
  BY DEF NetsFit, InHand, Boxes, Spawned, Databases, Graphs
<1>2. box[b].net \in {"bare", "off", "aliased", "moved"}
  BY <1>1 DEF Typed, Containers
<1>3. CASE NetJoined(p, b, next)
  BY <1>1, <1>3 DEF NetJoined, Whole, Reachable
<1>4. CASE NetStarted(p, b, next)
  BY <1>1, <1>2, <1>4 DEF NetStarted, Restarts, Whole, Reachable, Runs
<1>5. CASE NetLeft(p, b)
  BY <1>1, <1>5 DEF NetLeft, Whole, Reachable
<1>6. CASE NetFound(p, b, next, without)
  BY <1>6 DEF NetFound, Whole, Reachable, Runs
<1> QED
  BY <1>3, <1>4, <1>5, <1>6 DEF Net

\* Where a recorded port is free it is the one chosen: under a proxy that has it nothing moves.
LEMMA PortsServed ==
  ASSUME Typed, ServedFits, "unasked" \notin Faults, NEW p \in Procs,
         At(p) = "ports", PortChosen(p) \/ PortRefused(p),
         UNCHANGED <<box, floci, loaded, image, troubled, scars>>
  PROVE  ServedFits'
<1>1. \A q \in Procs : At(q)' \in EnvStages => At(q) \in EnvStages /\ proc'[q] = proc[q]
  BY DEF PortChosen, PortRefused, Walks, At, EnvStages
<1>2. Runs("proxy") /\ box["proxy"].config = disk.port => Choose(TRUE) = {disk.port}
  BY DEF Choose, Free, Busy, Ours, Typed, Homes
<1>3. Runs("proxy") /\ box["proxy"].config = disk.port => disk'.port = disk.port /\ disk'.frag = disk.frag
  BY <1>2 DEF PortChosen, PortRefused
<1> QED
  BY <1>1, <1>3 DEF ServedFits, Whole, Reachable, Runs, At

\* And nothing fails or moves but for another program on a port.
LEMMA PortsCaused ==
  ASSUME Typed, "unasked" \notin Faults, NEW p \in Procs,
         At(p) = "ports", PortChosen(p) \/ PortRefused(p), UNCHANGED foreign
  PROVE  FailsStep /\ PortStep
<1>1. disk.port \notin foreign => Choose(TRUE) = {disk.port}
  BY DEF Choose, Free, Busy, Ours, Typed, Homes
<1>2. PortStep
  BY <1>1 DEF PortStep, PortChosen, PortRefused
<1>3. FailsStep
  BY <1>1 DEF FailsStep, PortChosen, PortRefused, Walks, At
<1> QED
  BY <1>2, <1>3

\* Floci is brought up: it runs and is of the image before the start goes on.
LEMMA FlociStarts ==
  ASSUME Typed, StagesFit, StartFits, NEW p \in Procs,
         At(p) = "up-floci", Up(p, "floci", image, "up-proxy")
  PROVE  StartFits'
<1>1. \A q \in Procs \ {p} : proc'[q] = proc[q] /\ At(q) \notin StartStages
  BY OnlyStart DEF Up, UpLeft, UpRemoved, UpFailed, UpBooted, Walks, StartStages
<1>2. /\ troubled' = troubled /\ image' = image
      /\ \/ proc'[p] = proc[p] \/ At(p)' = "failed"
         \/ /\ At(p)' = "up-proxy" /\ Runs("floci")' /\ box'["floci"].config = image'
            /\ box'["floci"].cut => proc'[p].found
  BY DEF Up, UpLeft, UpRemoved, UpFailed, UpBooted, Walks, worldVars, Runs, At
<1> QED
  BY <1>1, <1>2 DEF StartFits, Up, At, StartStages, PastRepair, PastHealth, Bootstrapping

\* And the proxy likewise, leaving Floci alone.
LEMMA ProxyStarts ==
  ASSUME Typed, StagesFit, StartFits, NEW p \in Procs,
         At(p) = "up-proxy", Up(p, "proxy", disk.port, "repair")
  PROVE  StartFits'
<1>1. \A q \in Procs \ {p} : proc'[q] = proc[q] /\ At(q) \notin StartStages
  BY OnlyStart DEF Up, UpLeft, UpRemoved, UpFailed, UpBooted, Walks, StartStages
<1>2. troubled' = troubled /\ image' = image /\ disk' = disk /\ box'["floci"] = box["floci"]
  BY DEF Up, worldVars, Touches, Boxes, Composed
<1>3. \/ proc'[p] = proc[p] \/ At(p)' = "failed"
      \/ /\ At(p)' = "repair" /\ Runs("proxy")' /\ box'["proxy"].config = disk'.port
         /\ proc[p].found => proc'[p].found
  <2>1. UpLeft(p, "proxy", disk.port, "repair") \/ UpBooted(p, "proxy", disk.port, "repair") =>
          /\ At(p)' = "repair" /\ Runs("proxy")' /\ box'["proxy"].config = disk.port
          /\ proc[p].found => proc'[p].found
    BY DEF UpLeft, UpBooted, Walks, Runs
  <2>2. UpRemoved(p, "proxy", disk.port) => proc'[p] = proc[p]
    BY DEF UpRemoved
  <2>3. UpFailed(p, "proxy", disk.port) => At(p)' = "failed"
    BY DEF UpFailed, Walks
  <2> QED
    BY <1>2, <2>1, <2>2, <2>3 DEF Up
<1> QED
  BY <1>1, <1>2, <1>3 DEF StartFits, At, Runs, StartStages, PastRepair, PastHealth, Bootstrapping

\* A start gives Floci up only where something is wrong: the proxy serves it, and is not being
\* moved.
LEMMA HealthCaused ==
  ASSUME Typed, StagesFit, NetsFit, ProxyFits, StartFits, NEW p \in Procs,
         At(p) = "health", ~BeingMoved,
         IF FlociAnswers THEN Walks(p, "db", "no") ELSE Walks(p, "failed", "no")
  PROVE  FailsStep
<1>1. ASSUME p \notin troubled, scars = {}
      PROVE  FlociAnswers
  <2>1. Runs("floci") /\ Runs("proxy") /\ "floci" \in loaded
    BY <1>1 DEF StartFits, ProxyFits, PastRepair
  <2>2. ASSUME box["proxy"].net = "off"
        PROVE  FALSE
    <3>1. PICK q \in Procs : proc[q].half # "no" /\ At(q) = "alias"
      BY <1>1, <2>2 DEF NetsFit, InHand, Boxes, Composed
    <3>2. proc[q].half = "off"
      BY <3>1, Shapes DEF NetsFit, InHand, Graphs
    <3> QED
      BY <3>1, <3>2 DEF BeingMoved
  <2> QED
    BY <2>1, <2>2 DEF FlociAnswers
<1> QED
  BY <1>1 DEF FailsStep, Walks, At

\* The database, and the graph, of a control plane that serves stay whole while a start looks
\* at them.
LEMMA NetServed ==
  ASSUME Typed, NetsFit, ServedFits, NEW p \in Procs, NEW b \in {"db", "graph"}, NEW next, NEW without,
         At(p) = b, Net(p, b, next, without), {next, without} \cap EnvStages = {}
  PROVE  ServedFits'
<1>1. Whole(b) => Whole(b)'
  BY StaysWhole DEF InHand, Databases, Graphs
<1>2. /\ \A q \in Procs : At(q)' \in EnvStages => At(q) \in EnvStages /\ proc'[q] = proc[q]
      /\ UNCHANGED <<disk, loaded, image, troubled>> /\ Touches({b})
  BY DEF Net, NetJoined, NetStarted, NetLeft, NetFound, Walks, At, EnvStages, worldVars
<1> QED
  BY <1>1, <1>2 DEF ServedFits, Touches, Whole, Reachable, Runs, At, Boxes, Spawned, Composed,
                    Databases, Graphs

\* The routes a start writes are all there are, and the proxy serves them.
LEMMA RoutesServed ==
  ASSUME Typed, ProxyFits, RoutesFit, NEW p \in Procs,
         At(p) = "routes", UNCHANGED <<box, floci, troubled, scars>>,
         IF FlociAnswers
         THEN /\ Rewrites((disk.frag \ {"services"}) \cup (floci.built \cap {"services"}))
              /\ Reloads /\ Walks(p, "ready", "no")
         ELSE Walks(p, "failed", "no") /\ UNCHANGED <<disk, loaded>>
  PROVE  RoutesFit'
<1>1. floci.gateways \subseteq {"dbaccount", "deployed"}
  BY DEF Typed, Flocis
<1>2. CASE FlociAnswers
  <2>1. \A q \in Procs : q # p => proc'[q] = proc[q]
    BY <1>2 DEF Walks
  <2>2. /\ At(p)' = "ready" /\ Runs("proxy") /\ "floci" \in disk'.frag
        /\ floci.gateways \subseteq disk.frag => floci.gateways \subseteq disk'.frag
    BY <1>1, <1>2 DEF Walks, FlociAnswers, Rewrites, ProxyFits, StartStages, PastRepair, PastHealth
  <2>3. loaded' = IF box["proxy"].cut THEN {} ELSE disk'.frag
    BY <1>2, <2>2 DEF Reloads, Served
  <2> QED
    BY <2>1, <2>2, <2>3 DEF RoutesFit, At, EnvStages
<1>3. CASE ~FlociAnswers
  BY <1>3 DEF RoutesFit, At, EnvStages, Walks
<1> QED
  BY <1>2, <1>3

\* A start of an environment goes on from the platform's ready; another's changes nothing of it.
LEMMA ReadyGoesOn ==
  ASSUME Typed, StagesFit, PassFits, EnvFits, NEW p \in Procs,
         At(p) = "ready",
         \/ /\ proc[p].job = "env-start" /\ Walks(p, "env-health", "no") /\ UNCHANGED <<plan, troubled>>
         \/ /\ proc[p].job # "env-start" /\ Leaves(p) /\ troubled' = troubled \ {p}
            /\ plan' = IF proc[p].job \in EnvJobs THEN NoPlan ELSE plan,
         UNCHANGED <<box, floci, scars, declared, landed>>
  PROVE  EnvFits'
<1>1. CASE proc[p].job = "env-start" /\ Walks(p, "env-health", "no") /\ UNCHANGED <<plan, troubled>>
  <2>1. plan.pass = "start" /\ ~plan.fatal
    BY <1>1 DEF PassFits, StartStages, PastRepair, PastHealth
  <2>2. \A q \in Procs \ {p} : At(q) \notin EnvStages /\ proc'[q] = proc[q]
    BY <1>1 DEF StagesFit, EnvJobs, Walks
  <2>3. At(p)' = "env-health"
    BY <1>1 DEF Walks
  <2> QED
    BY <1>1, <2>1, <2>2, <2>3 DEF EnvFits, Landed, At
<1>2. CASE proc[p].job # "env-start"
  <2>1. plan' = plan
    BY <1>2 DEF StagesFit, EnvJobs, StartStages, PastRepair, PastHealth
  <2>2. At(p)' \notin EnvStages /\ \A q \in Procs \ {p} : proc'[q] = proc[q]
    BY <1>2 DEF Leaves, At, EnvStages
  <2>3. \A q \in Procs : q # p /\ q \notin troubled' => q \notin troubled
    BY <1>2
  <2> QED
    BY <2>1, <2>2, <2>3 DEF EnvFits, Landed, At, ClusterComes, ClusterRuns, Todo, Exists, Full, Runs
<1> QED
  BY <1>1, <1>2

\* What a look at the environment's database leaves: the stage, the container and the plan.
LEMMA EnvDBSteps ==
  ASSUME Typed, StagesFit, PassFits, NEW p \in Procs,
         At(p) = "env-db", Net(p, "env-db", "env-graph", "env-graph"), UNCHANGED declared,
         Planned(plan.pass, IF plan.pass = "start" /\ ~Exists("env-db") /\ "env-db" \notin floci.built
                            THEN plan.marked \cup {"env-db"} ELSE plan.marked, plan.res, plan.fatal)
  PROVE  /\ At(p)' \in {"env-db", "env-graph"} /\ proc'[p].job = proc[p].job
         /\ \A q \in Procs \ {p} : proc'[q] = proc[q] /\ At(q) \notin EnvStages
         /\ Touches({"env-db"}) /\ UNCHANGED <<disk, floci, troubled>>
         /\ Exists("env-db") => Exists("env-db")'
         /\ plan'.pass = plan.pass /\ plan'.res = plan.res /\ (plan'.fatal <=> plan.fatal)
         /\ plan.marked \subseteq plan'.marked /\ plan'.marked \subseteq declared
         /\ plan.pass # "start" => plan'.marked = plan.marked
         /\ plan.pass = "start" /\ "env-db" \notin floci.built => Exists("env-db")' \/ "env-db" \in plan'.marked
<1>1. /\ At(p)' \in {"env-db", "env-graph"} /\ proc'[p].job = proc[p].job
      /\ \A q \in Procs \ {p} : proc'[q] = proc[q] /\ At(q) \notin EnvStages
  BY DEF Net, NetJoined, NetStarted, NetLeft, NetFound, Walks, At, StagesFit, EnvStages, EnvJobs
<1>2. /\ Touches({"env-db"}) /\ UNCHANGED <<disk, floci, troubled>>
      /\ Exists("env-db") => Exists("env-db")'
  BY DEF Net, NetJoined, NetStarted, NetLeft, NetFound, Joins, Restarts, Exists, Runs
<1>3. "env-db" \in declared /\ plan.marked \subseteq declared
  BY DeclaredNodes DEF PassFits
<1> QED
  BY <1>1, <1>2, <1>3 DEF Planned

\* A look at the environment's database keeps the plan in step,
LEMMA EnvDBPasses ==
  ASSUME PassFits, NEW p \in Procs, At(p) = "env-db", At(p)' \in {"env-db", "env-graph"},
         proc'[p].job = proc[p].job, \A q \in Procs \ {p} : proc'[q] = proc[q],
         plan'.pass = plan.pass, plan'.res = plan.res, plan'.marked \subseteq declared,
         plan'.fatal <=> plan.fatal, UNCHANGED declared
  PROVE  PassFits'
BY DEF PassFits, StagesFit, At, Full, StartStages, PastRepair, PastHealth, Bootstrapping, EnvStages, EnvJobs

\* and after it the database is there, or to be deployed.
LEMMA EnvDBExists ==
  ASSUME Typed, StagesFit, PassFits, HomeFits, EnvFits, NEW p \in Procs,
         At(p) = "env-db", Net(p, "env-db", "env-graph", "env-graph"),
         UNCHANGED <<declared, landed, pods>>,
         Planned(plan.pass, IF plan.pass = "start" /\ ~Exists("env-db") /\ "env-db" \notin floci.built
                            THEN plan.marked \cup {"env-db"} ELSE plan.marked, plan.res, plan.fatal)
  PROVE  EnvFits'
<1>1. /\ At(p)' \in {"env-db", "env-graph"}
      /\ \A q \in Procs \ {p} : proc'[q] = proc[q] /\ At(q) \notin EnvStages
      /\ Touches({"env-db"}) /\ UNCHANGED <<disk, floci, troubled>>
      /\ Exists("env-db") => Exists("env-db")'
      /\ plan'.pass = plan.pass /\ (plan'.fatal <=> plan.fatal) /\ plan.marked \subseteq plan'.marked
      /\ plan.pass # "start" => plan'.marked = plan.marked
      /\ plan.pass = "start" /\ "env-db" \notin floci.built => Exists("env-db")' \/ "env-db" \in plan'.marked
  BY EnvDBSteps
<1>2. plan.pass \in {"start", "refresh"} /\ p \notin troubled => plan.pass = "start" \/ declared \subseteq landed
  BY DEF EnvFits, Landed, EnvStages
<1>3. p \notin troubled => Exists("env-db") \/ (plan.pass = "start" /\ "env-db" \notin floci.built)
  BY <1>2, DeclaredNodes DEF HomeFits, PassFits, StagesFit, EnvStages, Databases
<1>4. p \notin troubled => Exists("env-db")' \/ "env-db" \in plan'.marked
  BY <1>1, <1>3
<1>5. /\ box'["cluster"] = box["cluster"] /\ box'["floci"] = box["floci"]
      /\ "cluster" \in scars' <=> "cluster" \in scars
      /\ "home" \in scars' <=> "home" \in scars
  BY <1>1 DEF Touches, Boxes, Spawned, Composed
<1> QED
  BY <1>1, <1>4, <1>5 DEF EnvFits, Landed, At, EnvStages, ClusterComes, ClusterRuns, Todo, Exists, Full, Runs

\* The second time round it is whole.
LEMMA EnvDBWhole ==
  ASSUME Typed, StagesFit, PassFits, NetsFit, HomeFits, EnvFits, RefreshFits, NEW p \in Procs,
         At(p) = "env-db", Net(p, "env-db", "env-graph", "env-graph"),
         UNCHANGED <<declared, landed, pods>>,
         Planned(plan.pass, IF plan.pass = "start" /\ ~Exists("env-db") /\ "env-db" \notin floci.built
                            THEN plan.marked \cup {"env-db"} ELSE plan.marked, plan.res, plan.fatal)
  PROVE  RefreshFits'
<1>1. /\ At(p)' \in {"env-db", "env-graph"}
      /\ \A q \in Procs \ {p} : proc'[q] = proc[q] /\ At(q) \notin EnvStages
      /\ troubled' = troubled /\ plan'.pass = plan.pass
  BY EnvDBSteps
<1>2. ASSUME p \notin troubled, plan.pass = "refresh", At(p)' = "env-graph"
      PROVE  Whole("env-db")'
  <2>1. Exists("env-db")
    BY <1>2, DeclaredNodes DEF EnvFits, Landed, EnvStages, HomeFits, Databases
  <2>2. /\ proc[p].half # "moved"
        /\ proc[p].half = "off" => Runs("env-db")
        /\ Runs("env-db") /\ box["env-db"].net = "off" /\ proc[p].half = "no" => "env-db" \in scars
        /\ box["env-db"].net # "moved"
    BY <1>1, <1>2 DEF NetsFit, InHand, Databases, Graphs, Boxes, Spawned, EnvStages
  <2> QED
    BY <1>2, <2>1, <2>2 DEF Net, NetJoined, NetStarted, NetLeft, NetFound, Walks, Whole, Reachable,
                            Runs, Joins, Graphs
<1> QED
  BY <1>1, <1>2 DEF RefreshFits, At, EnvStages

\* The proxy is given its names, in two calls; after them it has them, if there is anything to
\* name.
LEMMA AliasNames ==
  ASSUME Typed, StagesFit, PassFits, NetsFit, ServedFits, EnvFits, RefreshFits, NEW p \in Procs,
         At(p) = "alias", Touches({"proxy"}),
         UNCHANGED <<scars, declared, pods, plan>>,
         \/ /\ pods /\ Runs("cluster") /\ proc[p].half = "no" /\ box["proxy"].net = "bare"
            /\ Exists("proxy") /\ Joins("proxy", "off") /\ Walks(p, "alias", "off")
            /\ troubled' = troubled \cup (Working \ {p})
         \/ /\ proc[p].half = "off" /\ Joins("proxy", "aliased") /\ Walks(p, AfterAlias, "no")
            /\ UNCHANGED troubled
         \/ /\ proc[p].half = "no" /\ Walks(p, AfterAlias, "no") /\ UNCHANGED <<box, troubled>>
            /\ ~(pods /\ Runs("cluster") /\ box["proxy"].net = "bare" /\ Exists("proxy"))
  PROVE  RefreshFits'
<1>1. /\ At(p)' \in {"alias", "verify", "splice"}
      /\ \A q \in Procs \ {p} : proc'[q] = proc[q] /\ At(q) \notin EnvStages
  BY DEF Walks, At, StagesFit, EnvStages, EnvJobs, AfterAlias
<1>2. p \notin troubled' => p \notin troubled
  OBVIOUS
<1>3. ASSUME p \notin troubled, plan.pass = "refresh", At(p)' = "splice", Full, pods,
             {"home", "cluster"} \cap scars = {}
      PROVE  box'["proxy"].net = "aliased"
  <2>1. Runs("cluster") /\ Runs("proxy") /\ (proc[p].half # "off" => box["proxy"].net # "off")
    BY <1>3 DEF EnvFits, Landed, EnvStages, ServedFits, ClusterRuns, ClusterComes
  <2>2. box["proxy"].net \in {"bare", "off", "aliased"}
    BY DEF NetsFit, Typed, Containers, Boxes, Composed, Graphs
  <2> QED
    BY <1>3, <2>1, <2>2 DEF Joins, Walks, Runs, Exists
<1>4. \A b \in Boxes : b # "proxy" => box'[b] = box[b]
  BY DEF Touches
<1> QED
  BY <1>1, <1>2, <1>3, <1>4 DEF RefreshFits, At, EnvStages, Whole, Reachable, Runs, Full, Boxes, Spawned,
                                Databases, Graphs

\* A node that cannot be deployed is not for nothing: what it needs is there.
LEMMA LandsCaused ==
  ASSUME Typed, StagesFit, PassFits, ServedFits, RoutesFit, EnvFits, NEW p \in Procs, NEW n \in Nodes,
         n \in Todo, n \in Substrate \/ Todo \cap Substrate = {}, LandsNot(p, n)
  PROVE  FailsStep
<1>1. At(p) = "apply" /\ ~Deployable(n) /\ \A q \in Procs \ {p} : proc'[q] = proc[q]
  BY DEF LandsNot, Walks
<1>2. ASSUME p \notin troubled, scars = {}
      PROVE  Deployable(n)
  <2>1. FlociAnswers /\ Reachable("db") /\ "services" \in loaded
    BY <1>1, <1>2 DEF ServedFits, RoutesFit, StagesFit, FlociAnswers, EnvStages, Whole
  <2>2. ASSUME n = "trino"
        PROVE  Runs("cluster")
    <3>1. Full /\ "cluster" \notin Todo
      BY <2>2, DeclaredNodes DEF Todo, PassFits, Substrate
    <3> QED
      BY <1>1, <1>2, <3>1 DEF EnvFits, EnvStages, ClusterRuns, ClusterComes
  <2> QED
    BY <2>1, <2>2 DEF Deployable
<1> QED
  BY <1>1, <1>2 DEF FailsStep, At

\* A node that lands outside the substrate leaves the state typed.
LEMMA LandsTyped ==
  ASSUME Typed, PassFits, NEW p \in Procs, NEW n \in Nodes, n \in Todo, LandsRest(p, n)
  PROVE  Typed'
<1>1. n \in declared
  BY DEF Todo, PassFits
<1>2. /\ landed' \subseteq declared' /\ pods' \in BOOLEAN /\ plan' \in Plans /\ floci' \in Flocis
      /\ loaded' \subseteq Routes
  BY <1>1, Shapes DEF LandsRest, Lands, Planned
<1>3. UNCHANGED <<box, disk, proc, substrate, foreign, image, troubled, scars, left, events, declared>>
  BY DEF LandsRest, Lands
<1> QED
  BY <1>2, <1>3 DEF Typed

\* The environment's routes go; Floci's stays, and what the proxy serves is what is recorded.
LEMMA UnrouteServes ==
  ASSUME Typed, StagesFit, ProxyFits, NEW p \in Procs,
         At(p) = "unroute", Leaves(p), Cuts({"router"}),
         scars' = scars \cup (IF Runs("router") THEN {"router"} ELSE {}),
         Rewrites(disk.frag \ {"dbaccount", "deployed"}), Reloads, UNCHANGED foreign
  PROVE  ProxyFits'
<1>1. /\ \A b \in Boxes : box'[b].cut => box[b].cut \/ (b = "router" /\ Runs("router"))
      /\ (Runs("proxy")' <=> Runs("proxy")) /\ box'["proxy"].config = box["proxy"].config
  BY DEF Cuts, Runs, Boxes, Composed
<1>2. \A q \in Procs : At(q)' \in StartStages \cup EnvStages => At(q) \in StartStages \cup EnvStages
  BY DEF Leaves, At, StartStages, PastRepair, PastHealth, Bootstrapping, EnvStages
<1>3. "floci" \in disk.frag => "floci" \in disk'.frag
  BY DEF Rewrites
<1>4. Runs("proxy") /\ "proxy" \notin scars' => loaded' = disk'.frag
  BY DEF Reloads, Served, ProxyFits, Boxes, Composed
<1> QED
  BY <1>1, <1>2, <1>3, <1>4 DEF ProxyFits, Boxes, Composed

\* A home is deleted with no command under way, and what its proxy and router mount is gone.
LEMMA WipeScars ==
  ASSUME Typed, ProxyFits, Working = {}, Cuts({"floci", "proxy", "router"}),
         scars' = (scars \ {"home"}) \cup {b \in {"proxy", "router"} : Runs(b)},
         UNCHANGED <<loaded, proc, foreign>>
  PROVE  ProxyFits'
<1>1. /\ \A b \in Boxes : box'[b].cut => box[b].cut \/ (b \in {"floci", "proxy", "router"} /\ Runs(b))
      /\ (Runs("proxy")' <=> Runs("proxy")) /\ box'["proxy"].config = box["proxy"].config
  BY DEF Cuts, Runs, Boxes, Composed
<1>2. \A q \in Procs : At(q)' \notin StartStages \cup EnvStages
  BY DEF Working, At, StartStages, PastRepair, PastHealth, Bootstrapping, EnvStages
<1> QED
  BY <1>1, <1>2 DEF ProxyFits, Boxes, Composed

\* A warning goes on to a stage of the same pass.
LEMMA WarnedPasses ==
  ASSUME Typed, StagesFit, PassFits, NEW p \in Procs, NEW to, Warned(p, to),
         UNCHANGED <<declared, landed, pods, plan>>,
         \/ At(p) = "env-db" /\ to = "env-graph"
         \/ At(p) = "env-graph" /\ to = AfterGraph
         \/ At(p) \in {"reconcile", "clear"} /\ to = "k3s"
         \/ At(p) = "router" /\ to = "verify"
         \/ At(p) = "expose" /\ to = "alias"
         \/ At(p) = "alias" /\ to = AfterAlias
         \/ At(p) = "dbaccount" /\ to = "splice"
         \/ At(p) \in EnvStopStages /\ to \in EnvStopStages
  PROVE  PassFits'
<1>1. plan \in Plans
  BY DEF Typed
<1> QED
  BY <1>1 DEF PassFits, StagesFit, Plans, Warned, Walks, At, AfterGraph, AfterAlias, Full, EnvStopStages,
              StartStages, PastRepair, PastHealth, Bootstrapping, EnvStages, EnvJobs

\* And so does naming the proxy.
LEMMA AliasPasses ==
  ASSUME Typed, StagesFit, PassFits, NEW p \in Procs, At(p) = "alias", UNCHANGED <<plan, declared>>,
         Walks(p, "alias", "off") \/ Walks(p, AfterAlias, "no")
  PROVE  PassFits'
<1>1. plan \in Plans
  BY DEF Typed
<1> QED
  BY <1>1 DEF PassFits, StagesFit, Plans, Walks, At, AfterAlias, Full, StartStages, PastRepair, PastHealth,
              Bootstrapping, EnvStages, EnvJobs

\* No look at a container does more than this to it, and to the rest.
Looks(p, b, next, without) ==
  /\ \A q \in Procs \ {p} : proc'[q] = proc[q]
  /\ proc'[p].job = proc[p].job /\ At(p)' \in {At(p), next, without}
  /\ Touches({b}) /\ UNCHANGED <<disk, floci, loaded, image, foreign, troubled>>
  /\ substrate' = IF At(p)' = "failed" THEN substrate \ {p} ELSE substrate
  /\ box'[b].config = box[b].config /\ (box'[b].cut => box[b].cut)
  /\ (Exists(b) => Exists(b)') /\ (Runs(b) => Runs(b)') /\ (Whole(b) => Whole(b)')

\* Whatever it finds.
LEMMA NetLooks ==
  ASSUME Typed, NetsFit, NEW p \in Procs, NEW b \in Databases \cup Graphs, NEW next, NEW without,
         At(p) \in InHand(b), Net(p, b, next, without)
  PROVE  Looks(p, b, next, without)
<1>1. Whole(b) => Whole(b)'
  BY StaysWhole
<1>2. /\ Touches({b}) /\ UNCHANGED <<disk, floci, loaded, image, foreign, troubled>>
      /\ substrate' = IF At(p)' = "failed" THEN substrate \ {p} ELSE substrate
  BY DEF Net, worldVars
<1>3. ASSUME NEW to, NEW half, Walks(p, to, half)
      PROVE  proc'[p].job = proc[p].job /\ At(p)' = to /\ \A q \in Procs \ {p} : proc'[q] = proc[q]
  BY <1>3 DEF Walks
<1>4. ASSUME NEW net, Joins(b, net)
      PROVE  /\ box'[b].config = box[b].config /\ (box'[b].cut => box[b].cut)
             /\ (Exists(b) => Exists(b)') /\ (Runs(b) => Runs(b)')
  BY <1>4 DEF Joins, Exists, Runs
<1>5. ASSUME Restarts(b)
      PROVE  /\ box'[b].config = box[b].config /\ (box'[b].cut => box[b].cut)
             /\ (Exists(b) => Exists(b)') /\ (Runs(b) => Runs(b)')
  BY <1>5 DEF Restarts, Exists, Runs
<1>6. CASE NetJoined(p, b, next)
  BY <1>1, <1>2, <1>3, <1>4, <1>6 DEF NetJoined, Looks
<1>7. CASE NetStarted(p, b, next)
  BY <1>1, <1>2, <1>3, <1>5, <1>7 DEF NetStarted, Looks
<1>8. CASE NetLeft(p, b)
  BY <1>1, <1>2, <1>3, <1>4, <1>8 DEF NetLeft, Looks
<1>9. CASE NetFound(p, b, next, without)
  BY <1>1, <1>2, <1>3, <1>9 DEF NetFound, Looks, Exists, Runs
<1> QED
  BY <1>6, <1>7, <1>8, <1>9 DEF Net

\* Nobody else is at the same container.
LEMMA OneLooks ==
  ASSUME StagesFit, NEW p \in Procs, NEW b \in Databases \cup Graphs, At(p) \in InHand(b)
  PROVE  /\ \A q \in Procs \ {p} : At(q) \notin InHand(b)
         /\ \A c \in Boxes : At(p) \in InHand(c) => c = b
BY DEF StagesFit, InHand, Boxes, Composed, Spawned, Databases, Graphs, StartStages, PastRepair, PastHealth,
       Bootstrapping, EnvStages, EnvJobs

\* A command that has looked at a container that is there, and goes on, has made it whole.
LEMMA NetMakesWhole ==
  ASSUME Typed, NetsFit, NEW p \in Procs \ troubled, NEW b \in Databases \cup Graphs, NEW next, NEW without,
         At(p) \in InHand(b), Exists(b), Net(p, b, next, without), At(p)' # At(p), StagesFit
  PROVE  Whole(b)'
<1>1. /\ proc[p].half = "moved" => b \in Graphs
      /\ proc[p].half # "no" => box[b].net = proc[p].half /\ Runs(b)
      /\ b \in Boxes
  BY DEF NetsFit, InHand, Boxes, Spawned, Databases, Graphs
<1>2. Runs(b) /\ box[b].net = "off" /\ proc[p].half = "no" => b \in scars
  BY <1>1, OneLooks DEF NetsFit
<1>3. CASE NetJoined(p, b, next)
  BY <1>1, <1>3 DEF NetJoined, Joins, Walks, Whole, Reachable, Runs
<1>4. CASE NetStarted(p, b, next)
  BY <1>1, <1>4 DEF NetStarted, Restarts, Walks, Whole, Reachable, Runs
<1>5. CASE NetFound(p, b, next, without)
  <2>1. box[b].net # "moved" \/ b \in scars
    BY <1>1, <1>5, OneLooks DEF NetsFit, NetFound
  <2> QED
    BY <1>2, <1>5, <2>1 DEF NetFound, Walks, Whole, Reachable, Runs
<1>6. CASE NetLeft(p, b)
  BY <1>6 DEF NetLeft, Walks
<1> QED
  BY <1>3, <1>4, <1>5, <1>6 DEF Net

\* What is off the network stays in hand.
LEMMA NetKeepsNets ==
  ASSUME Typed, StagesFit, NetsFit, NEW p \in Procs, NEW b \in Databases \cup Graphs, NEW next, NEW without,
         At(p) \in InHand(b), Net(p, b, next, without)
  PROVE  NetsFit'
<1>1. /\ \A q \in Procs \ {p} : At(q) \notin InHand(b)
      /\ \A c \in Boxes : At(p) \in InHand(c) => c = b
  BY OneLooks
<1>2. b \in Boxes /\ Graphs \subseteq Boxes /\ Databases \subseteq Boxes
  BY DEF Boxes, Spawned, Databases, Graphs
<1>3. /\ \A q \in Procs \ {p} : proc'[q] = proc[q] /\ At(q)' = At(q)
      /\ \A c \in Boxes : c # b => box'[c] = box[c] /\ (c \in scars' <=> c \in scars)
      /\ troubled' = troubled
      /\ \A c : c \in scars' => c \in scars
  BY NetLooks DEF Looks, Touches, At
<1>4. CASE NetJoined(p, b, next)
  BY <1>1, <1>2, <1>3, <1>4 DEF NetsFit, NetJoined, Joins, Walks, Runs
<1>5. CASE NetStarted(p, b, next)
  BY <1>1, <1>2, <1>3, <1>5 DEF NetsFit, NetStarted, Restarts, Walks, Runs
<1>6. CASE NetLeft(p, b)
  BY <1>1, <1>2, <1>3, <1>6 DEF NetsFit, NetLeft, Joins, Walks, Runs
<1>7. CASE NetFound(p, b, next, without)
  BY <1>1, <1>2, <1>3, <1>7 DEF NetsFit, NetFound, Walks, Runs
<1> QED
  BY <1>4, <1>5, <1>6, <1>7 DEF Net

\* A bootstrap gives up on the database only where something is wrong: it has been deployed.
LEMMA AliasCaused ==
  ASSUME Typed, StagesFit, NetsFit, HomeFits, NEW p \in Procs, At(p) = "alias-db",
         Net(p, "db", "deploy-graph", "failed")
  PROVE  FailsStep
<1>1. At(p) \in InHand("db") /\ "db" \in Databases \cup Graphs /\ "db" \in Boxes
  BY DEF InHand, Databases, Boxes, Spawned
<1>2. \A q \in Procs \ {p} : proc'[q] = proc[q] /\ At(q)' = At(q)
  BY <1>1, NetLooks DEF Looks, At
<1>3. ASSUME p \notin troubled, scars = {}, At(p)' = "failed"
      PROVE  FALSE
  <2>1. Exists("db")
    BY DEF HomeFits, Bootstrapping
  <2>2. NetFound(p, "db", "deploy-graph", "failed")
    BY <1>3 DEF Net, NetJoined, NetStarted, NetLeft, Walks
  <2>3. proc[p].half = "no" /\ box["db"].net = "off"
    BY <1>3, <2>1, <2>2 DEF NetFound, Walks
  <2> QED
    BY <1>1, <1>3, <2>3, OneLooks DEF NetsFit
<1> QED
  BY <1>2, <1>3 DEF FailsStep

-----------------------------------------------------------------------------
(* Every action keeps the invariant *)

\* A command is given.
LEMMA GiveKeeps ==
  ASSUME Typed, StagesFit, PassFits, NetsFit, ProxyFits, HomeFits, ClusterFits, StartFits,
         NEW p \in Procs, NEW job \in {"start", "stop"} \cup EnvJobs, Give(p, job)
  PROVE  StepFits
<1>1. /\ proc[p] = Idle /\ left > 0 /\ left' = left - 1 /\ \A q \in Procs \ {p} : proc'[q] = proc[q]
      /\ proc'[p].job = job /\ At(p)' = (IF job = "env-stop" THEN "stop-router" ELSE "lock")
           /\ proc'[p].half = "no"
      /\ proc' \in [Procs -> Commands] /\ (job \in EnvJobs => Alone)
      /\ plan' = IF job \in EnvJobs THEN [NoPlan EXCEPT !.pass = "start"] ELSE plan
      /\ UNCHANGED <<box, disk, floci, loaded, foreign, image, substrate, troubled, scars, events,
                     declared, landed, pods>>
  BY Gives
<1>2. Typed'
  BY <1>1, EachFits, PlatformAssumption DEF Typed
<1>3. StagesFit'
  BY <1>1 DEF StagesFit, At, Alone, StartStages, StopStages, EnvStages, EnvStopStages, PastRepair,
              PastHealth, Bootstrapping
<1>4. PassFits'
  BY <1>1 DEF PassFits, At, EnvJobs, Alone, NoPlan, Full
<1>5. NetsFit' /\ ClusterFits'
  BY <1>1 DEF NetsFit, At, Idle, Runs, ClusterFits, Exists
<1>6. ProxyFits' /\ HomeFits'
  BY <1>1 DEF ProxyFits, At, Runs, StartStages, EnvStages, PastRepair, PastHealth, Bootstrapping,
              HomeFits, Exists
<1>7. StartFits'
  BY <1>1 DEF StartFits, At, Runs, Reachable, Whole, PastRepair, PastHealth, Bootstrapping
<1>8. ASSUME "unasked" \notin Faults, ServiceInv
      PROVE  ServiceInv' /\ FailsStep /\ PortStep
  <2>1. ServedFits /\ RoutesFit /\ EnvFits /\ RefreshFits
    BY <1>8 DEF ServiceInv
  <2>2. ServedFits' /\ RoutesFit'
    BY <1>1, <2>1 DEF ServedFits, At, Runs, Reachable, Whole, EnvStages, RoutesFit
  <2>3. RefreshFits' /\ FailsStep /\ PortStep
    BY <1>1, <2>1 DEF RefreshFits, At, Runs, Reachable, Whole, Full, EnvStages, FailsStep, PortStep
  <2>4. EnvFits'
    BY <1>1, <2>1 DEF EnvFits, At, EnvJobs, Alone, Exists, Runs, Full, ClusterRuns, ClusterComes, Todo,
                      Landed, EnvStages, StagesFit
  <2> QED
    BY <2>2, <2>3, <2>4 DEF ServiceInv
<1> QED
  BY <1>2, <1>3, <1>4, <1>5, <1>6, <1>7, <1>8 DEF StepFits, PlatformInv

\* A start takes the lock.
LEMMA BeginKeeps ==
  ASSUME Typed, StagesFit, PassFits, NetsFit, ProxyFits, HomeFits, ClusterFits, StartFits,
         NEW p \in Procs, Begin(p), UNCHANGED envVars
  PROVE  StepFits
<1>1. /\ At(p) = "lock" /\ proc[p].job \in {"start", "env-start"} /\ substrate = {} /\ substrate' = {p}
      /\ Rewrites(disk.frag \cup {"floci"}) /\ Walks(p, "ports", "no")
      /\ UNCHANGED <<box, floci, loaded, foreign, image, troubled, scars, left, events, declared, landed,
                     pods, plan>>
  BY LockingUp
<1>2. Typed'
  BY <1>1, EachFits DEF Typed, Rewrites, Walks
<1>3. StagesFit' /\ PassFits'
  BY <1>1 DEF StagesFit, At, Walks, StopStages, EnvStages, EnvStopStages, PassFits, Full
<1>4. NetsFit'
  BY <1>1 DEF NetsFit, At, Walks, InHand, Runs
<1>5. ProxyFits'
  BY <1>1 DEF ProxyFits, Rewrites, Runs
<1>6. HomeFits' /\ ClusterFits'
  BY <1>1 DEF HomeFits, At, Rewrites, Walks, Exists, EnvStages, Bootstrapping, ClusterFits
<1>7. StartFits'
  BY <1>1 DEF StartFits, At, Walks, StartStages, PastRepair, PastHealth, Bootstrapping, StagesFit
<1>8. ASSUME "unasked" \notin Faults, ServiceInv
      PROVE  ServiceInv' /\ FailsStep /\ PortStep
  <2>1. ServedFits /\ RoutesFit /\ EnvFits /\ RefreshFits
    BY <1>8 DEF ServiceInv
  <2>2. ServedFits' /\ RoutesFit' /\ RefreshFits' /\ FailsStep /\ PortStep
    BY <1>1, <2>1 DEF ServedFits, At, Rewrites, Walks, Runs, Reachable, Whole, EnvStages, RoutesFit,
                      RefreshFits, Full, FailsStep, PortStep
  <2>3. EnvFits'
    BY <1>1, <2>1 DEF EnvFits, At, Walks, Exists, Runs, Full, ClusterRuns, ClusterComes, Todo, Landed,
                      EnvStages
  <2> QED
    BY <2>2, <2>3 DEF ServiceInv
<1> QED
  BY <1>2, <1>3, <1>4, <1>5, <1>6, <1>7, <1>8 DEF StepFits, PlatformInv

\* It chooses the ports.
LEMMA ChoosePortsKeeps ==
  ASSUME Typed, StagesFit, PassFits, NetsFit, ProxyFits, HomeFits, ClusterFits, StartFits,
         NEW p \in Procs, ChoosePorts(p), UNCHANGED envVars
  PROVE  StepFits
<1>1. /\ At(p) = "ports" /\ (PortChosen(p) \/ PortRefused(p))
      /\ UNCHANGED <<box, floci, loaded, foreign, image, troubled, scars, left, events, declared, landed,
                     pods, plan>>
  BY Porting DEF envVars
<1>2. Typed'
  BY <1>1, EachFits DEF Typed, PortChosen, PortRefused, Walks, Choose, Free, Ours
<1>3. StagesFit'
  BY <1>1 DEF StagesFit, At, PortChosen, PortRefused, Walks, Choose, StartStages, StopStages, EnvStages,
              EnvStopStages, Free, PastRepair, Ours, PastHealth, Bootstrapping
<1>4. PassFits'
  BY <1>1 DEF PassFits, At, PortChosen, PortRefused, Walks, Choose, Full, StartStages, Free, Ours
<1>5. NetsFit'
  BY <1>1 DEF NetsFit, At, PortChosen, PortRefused, Walks, Choose, InHand, Runs, Free, Ours
<1>6. ProxyFits'
  BY <1>1 DEF ProxyFits, PortChosen, PortRefused, Choose, Runs, StartStages, Free, Ours
<1>7. HomeFits'
  BY <1>1 DEF HomeFits, At, PortChosen, PortRefused, Walks, Choose, Exists, EnvStages, Bootstrapping,
              Free, Ours
<1>8. ClusterFits'
  BY <1>1 DEF ClusterFits, At, PortChosen, PortRefused, Walks, Choose, Exists, Free, Ours
<1>9. StartFits'
  BY <1>1 DEF StartFits, At, PortChosen, PortRefused, Walks, Choose, PastRepair, PastHealth,
              Bootstrapping, StartStages, Free, Ours, StagesFit
<1>10. ASSUME "unasked" \notin Faults, ServiceInv
      PROVE  ServiceInv' /\ FailsStep /\ PortStep
  <2>1. ServedFits /\ RoutesFit /\ EnvFits /\ RefreshFits
    BY <1>10 DEF ServiceInv
  <2>2. ServedFits'
    BY <1>1, <2>1, <1>10, PortsServed
  <2>3. RoutesFit'
    BY <1>1, <2>1 DEF RoutesFit, At, PortChosen, PortRefused, Walks, Choose, EnvStages, Free, Ours
  <2>4. EnvFits'
    BY <1>1, <2>1 DEF EnvFits, At, PortChosen, PortRefused, Walks, Choose, EnvStages, Exists, Landed,
                      Todo, ClusterRuns, Full, ClusterComes, Runs, Free, Ours
  <2>5. RefreshFits'
    BY <1>1, <2>1 DEF RefreshFits, At, PortChosen, PortRefused, Walks, Choose, EnvStages, Whole, Full,
                      Runs, Free, Reachable, Ours
  <2>6. FailsStep
    BY <1>1, <2>1, <1>10, PortsCaused
  <2>7. PortStep
    BY <1>1, <1>10, PortsCaused
  <2> QED
    BY <2>2, <2>3, <2>4, <2>5, <2>6, <2>7 DEF ServiceInv
<1> QED
  BY <1>2, <1>3, <1>4, <1>5, <1>6, <1>7, <1>8, <1>9, <1>10 DEF StepFits, PlatformInv

\* It brings Floci up.
LEMMA UpFlociKeeps ==
  ASSUME Typed, StagesFit, PassFits, NetsFit, ProxyFits, HomeFits, ClusterFits, StartFits,
         NEW p \in Procs, UpFloci(p), UNCHANGED envVars
  PROVE  StepFits
<1>1. /\ At(p) = "up-floci" /\ Up(p, "floci", image, "up-proxy")
      /\ UNCHANGED <<declared, landed, pods, plan>>
  BY Ups DEF envVars
<1>2. Typed'
  BY <1>1, Shapes, EachFits DEF Typed, Up, Touches, worldVars, budgetVars, UpLeft, UpRemoved, UpFailed,
                                UpBooted, Walks
<1>3. StagesFit'
  BY <1>1 DEF StagesFit, At, Up, UpLeft, UpRemoved, UpFailed, UpBooted, Walks, StartStages, StopStages,
              EnvStages, EnvStopStages
<1>4. PassFits'
  BY <1>1 DEF PassFits, At, Up, UpLeft, UpRemoved, UpFailed, UpBooted, Walks, Full, StartStages
<1>5. NetsFit'
  BY <1>1 DEF NetsFit, At, Up, Touches, UpLeft, UpRemoved, UpFailed, UpBooted, Walks, Absent, Runs,
              InHand, Databases, Graphs
<1>6. ProxyFits'
  BY <1>1 DEF ProxyFits, Up, Touches, worldVars, UpLeft, UpRemoved, UpFailed, UpBooted, Boxes, Runs,
              StartStages, Composed
<1>7. HomeFits'
  BY <1>1 DEF HomeFits, At, Up, Touches, UpLeft, UpRemoved, UpFailed, UpBooted, Exists, Databases, Graphs,
              EnvStages, Bootstrapping, Boxes, Walks, Absent, NewFloci, Spawned
<1>8. ClusterFits'
  BY <1>1 DEF At, Up, HomeFits, Touches, UpLeft, UpRemoved, UpFailed, UpBooted, Exists, Boxes, Walks,
              Spawned, ClusterFits
<1>9. StartFits'
  BY <1>1, FlociStarts
<1>10. ASSUME "unasked" \notin Faults, ServiceInv
      PROVE  ServiceInv' /\ FailsStep /\ PortStep
  <2>1. ServedFits /\ RoutesFit /\ EnvFits /\ RefreshFits
    BY <1>10 DEF ServiceInv
  <2>2. ServedFits'
    BY <1>1, <2>1 DEF ServedFits, At, Up, worldVars, UpLeft, UpRemoved, UpFailed, UpBooted, EnvStages,
                      Runs, Whole, Walks, Reachable
  <2>3. RoutesFit'
    BY <1>1, <2>1 DEF RoutesFit, At, Up, Touches, UpLeft, UpRemoved, UpFailed, UpBooted, EnvStages, Boxes,
                      Walks, NewFloci, Composed
  <2>4. EnvFits'
    BY <1>1, <2>1 DEF At, Up, ServedFits, UpLeft, UpRemoved, UpFailed, UpBooted, EnvStages, Exists,
                      Landed, Todo, ClusterRuns, Full, ClusterComes, Runs, Walks, EnvFits
  <2>5. RefreshFits'
    BY <1>1, <2>1 DEF RefreshFits, At, Up, Touches, UpLeft, UpRemoved, UpFailed, UpBooted, Walks, Runs,
                      Reachable, Whole, Full, Boxes, Composed, Spawned, Databases, Graphs, EnvStages
  <2>6. FailsStep /\ PortStep
    BY <1>1, <2>1 DEF FailsStep, At, Up, UpLeft, UpRemoved, UpFailed, UpBooted, Walks, PortStep
  <2> QED
    BY <2>2, <2>3, <2>4, <2>5, <2>6 DEF ServiceInv
<1> QED
  BY <1>2, <1>3, <1>4, <1>5, <1>6, <1>7, <1>8, <1>9, <1>10 DEF StepFits, PlatformInv

\* And the proxy.
LEMMA UpProxyKeeps ==
  ASSUME Typed, StagesFit, PassFits, NetsFit, ProxyFits, HomeFits, ClusterFits, StartFits,
         NEW p \in Procs, UpProxy(p), UNCHANGED envVars
  PROVE  StepFits
<1>1. /\ At(p) = "up-proxy" /\ Up(p, "proxy", disk.port, "repair")
      /\ UNCHANGED <<declared, landed, pods, plan>>
  BY Ups DEF envVars
<1>2. Typed'
  BY <1>1, Shapes, EachFits DEF Typed, Up, Touches, worldVars, budgetVars, UpLeft, UpRemoved, UpFailed,
                                UpBooted, Walks
<1>3. StagesFit'
  BY <1>1 DEF StagesFit, At, Up, UpLeft, UpRemoved, UpFailed, UpBooted, Walks, StartStages, StopStages,
              EnvStages, EnvStopStages, PastRepair, PastHealth, Bootstrapping
<1>4. PassFits'
  BY <1>1 DEF PassFits, At, Up, UpLeft, UpRemoved, UpFailed, UpBooted, Walks, Full, StartStages
<1>5. NetsFit'
  BY <1>1 DEF NetsFit, At, Up, Touches, UpLeft, UpRemoved, UpFailed, UpBooted, Walks, Absent, Made, Runs,
              InHand, Databases, Graphs
<1>6. ProxyFits'
  BY <1>1 DEF ProxyFits, Up, Touches, worldVars, UpLeft, UpRemoved, UpFailed, UpBooted, Boxes, Runs,
              StartStages, Absent, Made
<1>7. HomeFits'
  BY <1>1 DEF HomeFits, At, Up, Touches, UpLeft, UpRemoved, UpFailed, UpBooted, Walks, Exists, Boxes,
              Composed, Spawned, Databases, Graphs, EnvStages, Bootstrapping
<1>8. ClusterFits'
  BY <1>1 DEF ClusterFits, At, Up, Touches, UpLeft, UpRemoved, UpFailed, UpBooted, Walks, Exists, Boxes,
              Spawned
<1>9. StartFits'
  BY <1>1, ProxyStarts
<1>10. ASSUME "unasked" \notin Faults, ServiceInv
      PROVE  ServiceInv' /\ FailsStep /\ PortStep
  <2>1. ServedFits /\ RoutesFit /\ EnvFits /\ RefreshFits
    BY <1>10 DEF ServiceInv
  <2>2. ServedFits'
    BY <1>1, <2>1 DEF ServedFits, At, Up, worldVars, UpLeft, UpRemoved, UpFailed, UpBooted, EnvStages,
                      Runs, Whole, Walks, Reachable
  <2>3. RoutesFit'
    BY <1>1, <2>1 DEF At, Up, ServedFits, UpLeft, UpRemoved, UpFailed, UpBooted, EnvStages, Walks, Absent,
                      Made, RoutesFit
  <2>4. EnvFits'
    BY <1>1, <2>1 DEF EnvFits, At, Up, Touches, UpLeft, UpRemoved, UpFailed, UpBooted, Walks, Exists,
                      Runs, Full, ClusterRuns, ClusterComes, Todo, Landed, Boxes, Composed, Spawned,
                      Databases, EnvStages
  <2>5. RefreshFits'
    BY <1>1, <2>1 DEF At, Up, ServedFits, UpLeft, UpRemoved, UpFailed, UpBooted, EnvStages, Whole, Full,
                      Runs, Walks, Reachable, RefreshFits
  <2>6. FailsStep /\ PortStep
    BY <1>1, <2>1 DEF FailsStep, At, Up, UpLeft, UpRemoved, UpFailed, UpBooted, Walks, PortStep
  <2> QED
    BY <2>2, <2>3, <2>4, <2>5, <2>6 DEF ServiceInv
<1> QED
  BY <1>2, <1>3, <1>4, <1>5, <1>6, <1>7, <1>8, <1>9, <1>10 DEF StepFits, PlatformInv

\* And Floci again.
LEMMA RecreateKeeps ==
  ASSUME Typed, StagesFit, PassFits, NetsFit, ProxyFits, HomeFits, ClusterFits, StartFits,
         NEW p \in Procs, Recreate(p), UNCHANGED envVars
  PROVE  StepFits
<1>1. /\ At(p) = "recreate" /\ Up(p, "floci", image, "health")
      /\ UNCHANGED <<declared, landed, pods, plan>>
  BY Ups DEF envVars
<1>2. Typed'
  BY <1>1, Shapes, EachFits DEF Typed, Up, Touches, worldVars, budgetVars, UpLeft, UpRemoved, UpFailed,
                                UpBooted, Walks
<1>3. StagesFit'
  BY <1>1 DEF StagesFit, At, Up, UpLeft, UpRemoved, UpFailed, UpBooted, Walks, StartStages, StopStages,
              EnvStages, EnvStopStages
<1>4. PassFits'
  BY <1>1 DEF PassFits, At, Up, UpLeft, UpRemoved, UpFailed, UpBooted, Walks, Full, StartStages
<1>5. NetsFit'
  BY <1>1 DEF NetsFit, At, Up, Touches, UpLeft, UpRemoved, UpFailed, UpBooted, Walks, Absent, Runs,
              InHand, Databases, Graphs
<1>6. ProxyFits'
  BY <1>1 DEF ProxyFits, Up, Touches, worldVars, UpLeft, UpRemoved, UpFailed, UpBooted, Boxes, Runs,
              StartStages, Composed
<1>7. HomeFits'
  BY <1>1 DEF HomeFits, At, Up, Touches, UpLeft, UpRemoved, UpFailed, UpBooted, Walks, Absent, Exists,
              Boxes, Spawned, Databases, Graphs, EnvStages, Bootstrapping
<1>8. ClusterFits'
  BY <1>1 DEF At, Up, HomeFits, Touches, UpLeft, UpRemoved, UpFailed, UpBooted, Exists, Boxes, Walks,
              Spawned, ClusterFits
<1>9. StartFits'
  BY <1>1 DEF At, Up, HomeFits, Touches, worldVars, UpLeft, UpRemoved, UpFailed, UpBooted, Runs,
              PastRepair, PastHealth, Bootstrapping, Whole, Boxes, Walks, Reachable, Composed, StartFits
<1>10. ASSUME "unasked" \notin Faults, ServiceInv
      PROVE  ServiceInv' /\ FailsStep /\ PortStep
  <2>1. ServedFits /\ RoutesFit /\ EnvFits /\ RefreshFits
    BY <1>10 DEF ServiceInv
  <2>2. ServedFits'
    BY <1>1, <2>1 DEF ServedFits, At, Up, worldVars, UpLeft, UpRemoved, UpFailed, UpBooted, EnvStages,
                      Runs, Whole, Walks, Reachable
  <2>3. RoutesFit'
    BY <1>1, <2>1 DEF RoutesFit, At, Up, Touches, UpLeft, UpRemoved, UpFailed, UpBooted, EnvStages, Boxes,
                      Walks, NewFloci, Composed
  <2>4. EnvFits'
    BY <1>1, <2>1 DEF At, Up, ServedFits, UpLeft, UpRemoved, UpFailed, UpBooted, EnvStages, Exists,
                      Landed, Todo, ClusterRuns, Full, ClusterComes, Runs, Walks, EnvFits
  <2>5. RefreshFits'
    BY <1>1, <2>1 DEF RefreshFits, At, Up, Touches, UpLeft, UpRemoved, UpFailed, UpBooted, Walks, Runs,
                      Reachable, Whole, Full, Boxes, Composed, Spawned, Databases, Graphs, EnvStages
  <2>6. FailsStep /\ PortStep
    BY <1>1, <2>1 DEF FailsStep, At, Up, UpLeft, UpRemoved, UpFailed, UpBooted, Walks, PortStep
  <2> QED
    BY <2>2, <2>3, <2>4, <2>5, <2>6 DEF ServiceInv
<1> QED
  BY <1>2, <1>3, <1>4, <1>5, <1>6, <1>7, <1>8, <1>9, <1>10 DEF StepFits, PlatformInv

\* A Floci of a deleted directory is removed.
LEMMA RepairKeeps ==
  ASSUME Typed, StagesFit, PassFits, NetsFit, ProxyFits, HomeFits, ClusterFits, StartFits,
         NEW p \in Procs, Repair(p), UNCHANGED envVars
  PROVE  StepFits
<1>1. /\ At(p) = "repair" /\ UNCHANGED <<disk, substrate, foreign, image, troubled, left, events,
                                         declared, landed, pods, plan>>
      /\ \/ /\ proc[p].found /\ Runs("floci") /\ box["floci"].cut
            /\ Touches({"floci"}) /\ box'["floci"] = Absent /\ floci' = NewFloci
            /\ UNCHANGED <<loaded, scars>> /\ Walks(p, "recreate", "no")
         \/ /\ ~(proc[p].found /\ Runs("floci") /\ box["floci"].cut)
            /\ UNCHANGED <<box, floci, loaded, scars>> /\ Walks(p, "health", "no")
  BY Repairing DEF worldVars, budgetVars, envVars
<1>2. Typed'
  BY <1>1, EachFits DEF Typed, Touches, Walks
<1>3. StagesFit'
  BY <1>1 DEF StagesFit, At, Walks, StartStages, StopStages, EnvStages, EnvStopStages
<1>4. PassFits' /\ ClusterFits'
  BY <1>1 DEF PassFits, At, Walks, Full, StartStages, HomeFits, Exists, ClusterFits
<1>5. NetsFit'
  BY <1>1 DEF NetsFit, At, Runs, Touches, Absent, Walks, InHand, Databases, Graphs
<1>6. ProxyFits'
  BY <1>1 DEF ProxyFits, Runs, Touches, Boxes, Composed, StartStages
<1>7. HomeFits'
  BY <1>1 DEF HomeFits, At, Touches, Absent, NewFloci, Walks, Exists, Boxes, Spawned, Databases, Graphs,
              EnvStages, Bootstrapping
<1>8. StartFits'
  BY <1>1 DEF StartFits, At, Runs, Touches, Walks, Boxes, Composed, StartStages, PastRepair, PastHealth,
              Bootstrapping, StagesFit
<1>9. ASSUME "unasked" \notin Faults, ServiceInv
      PROVE  ServiceInv' /\ FailsStep /\ PortStep
  <2>1. ServedFits /\ RoutesFit /\ EnvFits /\ RefreshFits
    BY <1>9 DEF ServiceInv
  <2>2. ServedFits' /\ FailsStep /\ PortStep
    BY <1>1, <2>1 DEF ServedFits, At, Runs, Walks, Reachable, Whole, EnvStages, FailsStep, PortStep
  <2>3. RoutesFit'
    BY <1>1, <2>1 DEF RoutesFit, At, Touches, NewFloci, Walks, Boxes, Composed, EnvStages
  <2>4. EnvFits'
    BY <1>1, <2>1 DEF At, Runs, Walks, ServedFits, EnvStages, Exists, Landed, Todo, ClusterRuns, Full,
                      ClusterComes, EnvFits
  <2>5. RefreshFits'
    BY <1>1, <2>1 DEF RefreshFits, At, Runs, Touches, Walks, Reachable, Whole, Full, Boxes, Composed,
                      Spawned, Databases, Graphs, EnvStages
  <2> QED
    BY <2>2, <2>3, <2>4, <2>5 DEF ServiceInv
<1> QED
  BY <1>2, <1>3, <1>4, <1>5, <1>6, <1>7, <1>8, <1>9 DEF StepFits, PlatformInv

\* It waits for Floci.
LEMMA WaitForHealthKeeps ==
  ASSUME Typed, StagesFit, PassFits, NetsFit, ProxyFits, HomeFits, ClusterFits, StartFits,
         NEW p \in Procs, WaitForHealth(p), UNCHANGED envVars
  PROVE  StepFits
<1>1. /\ At(p) = "health" /\ ~BeingMoved
      /\ IF FlociAnswers THEN Walks(p, "db", "no") /\ UNCHANGED substrate
         ELSE Walks(p, "failed", "no") /\ substrate' = substrate \ {p}
      /\ UNCHANGED <<box, disk, floci, loaded, foreign, image, troubled, scars, left, events, declared,
                     landed, pods, plan>>
  BY GoesWalks DEF WaitForHealth, Refuses, Releases, Same, platformVars, worldVars, historyVars, budgetVars, envVars
<1>2. Typed'
  BY <1>1, EachFits DEF Typed, Walks
<1>3. StagesFit'
  BY <1>1 DEF StagesFit, At, Walks, StartStages, StopStages, EnvStages, EnvStopStages, PastRepair,
              PastHealth, Bootstrapping
<1>4. PassFits'
  BY <1>1 DEF PassFits, At, Walks, Full, StartStages, PastRepair
<1>5. NetsFit' /\ ProxyFits'
  BY <1>1 DEF NetsFit, At, Walks, Runs, InHand, ProxyFits, StartStages, PastRepair
<1>6. HomeFits' /\ ClusterFits'
  BY <1>1 DEF HomeFits, At, Walks, Exists, EnvStages, Bootstrapping, ClusterFits
<1>7. StartFits'
  BY <1>1 DEF StartFits, At, FlociAnswers, Walks, Runs, Reachable, Whole, PastRepair, PastHealth,
              Bootstrapping
<1>8. ASSUME "unasked" \notin Faults, ServiceInv
      PROVE  ServiceInv' /\ FailsStep /\ PortStep
  <2>1. ServedFits /\ RoutesFit /\ EnvFits /\ RefreshFits
    BY <1>8 DEF ServiceInv
  <2>2. ServedFits' /\ RoutesFit' /\ RefreshFits' /\ PortStep
    BY <1>1, <2>1 DEF ServedFits, At, Walks, Runs, Reachable, Whole, EnvStages, RoutesFit, RefreshFits,
                      Full, PortStep
  <2>3. EnvFits'
    BY <1>1, <2>1 DEF EnvFits, At, Walks, Exists, Runs, Full, ClusterRuns, ClusterComes, Todo, Landed,
                      EnvStages
  <2>4. FailsStep
    BY <1>1, <2>1, HealthCaused
  <2> QED
    BY <2>2, <2>3, <2>4 DEF ServiceInv
<1> QED
  BY <1>2, <1>3, <1>4, <1>5, <1>6, <1>7, <1>8 DEF StepFits, PlatformInv

\* It has the database on the network.
LEMMA EnsureDBKeeps ==
  ASSUME Typed, StagesFit, PassFits, NetsFit, ProxyFits, HomeFits, ClusterFits, StartFits,
         NEW p \in Procs, EnsureDB(p), UNCHANGED envVars
  PROVE  StepFits
<1>1. PICK next \in {"graph", "storage"} :
        /\ At(p) = "db" /\ next = (IF disk.boot THEN "graph" ELSE "storage") /\ Net(p, "db", next, next)
        /\ UNCHANGED <<declared, landed, pods, plan>>
  BY Nets DEF envVars
<1>2. /\ At(p) \in InHand("db") /\ "db" \in Databases \cup Graphs /\ "db" \in Boxes
      /\ Looks(p, "db", next, next)
  BY <1>1, NetLooks DEF InHand, Databases, Boxes, Spawned, Databases, Graphs
<1>3. Typed'
  BY <1>1, EachFits DEF Typed, Net, Touches, worldVars, budgetVars, NetJoined, NetStarted, NetLeft,
                        NetFound, Walks
<1>4. StagesFit'
  BY <1>1 DEF StagesFit, At, Net, NetJoined, NetStarted, NetLeft, NetFound, Walks, StartStages,
              StopStages, EnvStages, EnvStopStages, PastRepair, PastHealth
<1>5. PassFits'
  BY <1>1 DEF PassFits, At, Net, NetJoined, NetStarted, NetLeft, NetFound, Walks, Full, StartStages,
              PastRepair, PastHealth
<1>6. NetsFit'
  BY <1>1, <1>2, NetKeepsNets
<1>7. ProxyFits'
  BY <1>1, <1>2 DEF ProxyFits, At, Looks, Touches, Runs, StartStages, EnvStages, Boxes, Composed, Databases,
                    Graphs, PastRepair, PastHealth, Bootstrapping
<1>8. HomeFits'
  BY <1>1, <1>2 DEF HomeFits, At, Looks, Touches, Exists, Boxes, Composed, Spawned, Graphs, Databases,
                    EnvStages, Bootstrapping
<1>9. ClusterFits'
  BY <1>1 DEF ClusterFits, At, Net, Touches, NetJoined, NetStarted, NetLeft, NetFound, Walks, Exists,
              Boxes, Spawned
<1>10. StartFits'
  <2>1. p \notin troubled /\ At(p)' = next /\ disk.boot => Whole("db")'
    BY <1>1, <1>2, NetMakesWhole DEF HomeFits, Bootstrapping
  <2> QED
    BY <1>1, <1>2, <2>1 DEF StartFits, At, Looks, Touches, Runs, Whole, Reachable, PastRepair, PastHealth,
                            Bootstrapping, Boxes, Composed, Spawned, Databases, Graphs
<1>11. ASSUME "unasked" \notin Faults, ServiceInv
      PROVE  ServiceInv' /\ FailsStep /\ PortStep
  <2>1. ServedFits /\ RoutesFit /\ EnvFits /\ RefreshFits
    BY <1>11 DEF ServiceInv
  <2>2. ServedFits'
    BY <1>1, <2>1, NetServed DEF EnvStages
  <2>3. RoutesFit'
    BY <1>1, <2>1 DEF RoutesFit, At, Net, Touches, NetJoined, NetStarted, NetLeft, NetFound, Walks, Boxes,
                      Composed, EnvStages
  <2>4. EnvFits'
    BY <1>1, <1>2, <2>1 DEF EnvFits, At, Looks, Touches, Exists, Runs, Full, ClusterRuns, ClusterComes, Todo,
                      Landed, Boxes, Composed, Spawned, Databases, Graphs, EnvStages
  <2>5. RefreshFits'
    BY <1>1, <1>2, <2>1 DEF RefreshFits, At, Looks, Touches, Runs, Reachable, Whole, Full, Boxes, Composed,
                            Spawned, Databases, Graphs, EnvStages
  <2>6. FailsStep /\ PortStep
    BY <1>1, <2>1 DEF FailsStep, At, Net, NetJoined, NetStarted, NetLeft, NetFound, Walks, PortStep
  <2> QED
    BY <2>2, <2>3, <2>4, <2>5, <2>6 DEF ServiceInv
<1> QED
  BY <1>3, <1>4, <1>5, <1>6, <1>7, <1>8, <1>9, <1>10, <1>11 DEF StepFits, PlatformInv

\* And the graph.
LEMMA EnsureGraphKeeps ==
  ASSUME Typed, StagesFit, PassFits, NetsFit, ProxyFits, HomeFits, ClusterFits, StartFits,
         NEW p \in Procs, EnsureGraph(p), UNCHANGED envVars
  PROVE  StepFits
<1>1. /\ At(p) = "graph" /\ Net(p, "graph", "storage", "storage")
      /\ UNCHANGED <<declared, landed, pods, plan>>
  BY Nets DEF envVars
<1>2. /\ At(p) \in InHand("graph") /\ "graph" \in Databases \cup Graphs /\ "graph" \in Boxes
      /\ Looks(p, "graph", "storage", "storage")
  BY <1>1, NetLooks DEF InHand, Graphs, Boxes, Spawned, Databases, Graphs
<1>3. Typed'
  BY <1>1, EachFits DEF Typed, Net, Touches, worldVars, budgetVars, NetJoined, NetStarted, NetLeft,
                        NetFound, Walks
<1>4. StagesFit'
  BY <1>1 DEF StagesFit, At, Net, NetJoined, NetStarted, NetLeft, NetFound, Walks, StartStages,
              StopStages, EnvStages, EnvStopStages, PastRepair, PastHealth
<1>5. PassFits'
  BY <1>1 DEF PassFits, At, Net, NetJoined, NetStarted, NetLeft, NetFound, Walks, Full, StartStages,
              PastRepair, PastHealth
<1>6. NetsFit'
  BY <1>1, <1>2, NetKeepsNets
<1>7. ProxyFits'
  BY <1>1, <1>2 DEF ProxyFits, At, Looks, Touches, Runs, StartStages, EnvStages, Boxes, Composed, Databases,
                    Graphs, PastRepair, PastHealth, Bootstrapping
<1>8. HomeFits'
  BY <1>1, <1>2 DEF HomeFits, At, Looks, Touches, Exists, Boxes, Composed, Spawned, Graphs, Databases,
                    EnvStages, Bootstrapping
<1>9. ClusterFits'
  BY <1>1 DEF ClusterFits, At, Net, Touches, NetJoined, NetStarted, NetLeft, NetFound, Walks, Exists,
              Boxes, Spawned
<1>10. StartFits'
  <2>1. p \notin troubled /\ At(p)' = "storage" => Whole("graph")'
    BY <1>1, <1>2, NetMakesWhole DEF HomeFits, Bootstrapping
  <2> QED
    BY <1>1, <1>2, <2>1 DEF StartFits, At, Looks, Touches, Runs, Whole, Reachable, PastRepair, PastHealth,
                            Bootstrapping, Boxes, Composed, Spawned, Databases, Graphs
<1>11. ASSUME "unasked" \notin Faults, ServiceInv
      PROVE  ServiceInv' /\ FailsStep /\ PortStep
  <2>1. ServedFits /\ RoutesFit /\ EnvFits /\ RefreshFits
    BY <1>11 DEF ServiceInv
  <2>2. ServedFits'
    BY <1>1, <2>1, NetServed DEF EnvStages
  <2>3. RoutesFit'
    BY <1>1, <2>1 DEF RoutesFit, At, Net, Touches, NetJoined, NetStarted, NetLeft, NetFound, Walks, Boxes,
                      Composed, EnvStages
  <2>4. EnvFits'
    BY <1>1, <1>2, <2>1 DEF EnvFits, At, Looks, Touches, Exists, Runs, Full, ClusterRuns, ClusterComes, Todo,
                      Landed, Boxes, Composed, Spawned, Databases, Graphs, EnvStages
  <2>5. RefreshFits'
    BY <1>1, <1>2, <2>1 DEF RefreshFits, At, Looks, Touches, Runs, Reachable, Whole, Full, Boxes, Composed,
                            Spawned, Databases, Graphs, EnvStages
  <2>6. FailsStep /\ PortStep
    BY <1>1, <2>1 DEF FailsStep, At, Net, NetJoined, NetStarted, NetLeft, NetFound, Walks, PortStep
  <2> QED
    BY <2>2, <2>3, <2>4, <2>5, <2>6 DEF ServiceInv
<1> QED
  BY <1>3, <1>4, <1>5, <1>6, <1>7, <1>8, <1>9, <1>10, <1>11 DEF StepFits, PlatformInv

\* It looks at the storage.
LEMMA CheckStorageKeeps ==
  ASSUME Typed, StagesFit, PassFits, NetsFit, ProxyFits, HomeFits, ClusterFits, StartFits,
         NEW p \in Procs, CheckStorage(p), UNCHANGED envVars
  PROVE  StepFits
<1>1. /\ At(p) = "storage"
      /\ IF FlociAnswers /\ ~box["floci"].cut
         THEN Walks(p, IF disk.boot THEN "routes" ELSE "deploy-db", "no") /\ UNCHANGED substrate
         ELSE Walks(p, "failed", "no") /\ substrate' = substrate \ {p}
      /\ UNCHANGED <<box, disk, floci, loaded, foreign, image, troubled, scars, left, events, declared,
                     landed, pods, plan>>
  BY GoesWalks DEF CheckStorage, Refuses, Releases, Same, platformVars, worldVars, historyVars, budgetVars, envVars
<1>2. Typed'
  BY <1>1, EachFits DEF Typed, Walks
<1>3. StagesFit'
  BY <1>1 DEF StagesFit, At, Walks, StartStages, StopStages, EnvStages, EnvStopStages, PastRepair,
              PastHealth, Bootstrapping
<1>4. PassFits'
  BY <1>1 DEF PassFits, At, Walks, Full, StartStages, PastRepair, PastHealth
<1>5. NetsFit'
  BY <1>1 DEF NetsFit, At, Walks, Runs, InHand
<1>6. ProxyFits'
  BY <1>1 DEF ProxyFits, Runs, StartStages, PastRepair, PastHealth
<1>7. HomeFits' /\ ClusterFits'
  BY <1>1 DEF HomeFits, At, Walks, Exists, EnvStages, Bootstrapping, ClusterFits
<1>8. StartFits'
  BY <1>1 DEF StartFits, At, Walks, Runs, Reachable, Whole, PastRepair, PastHealth, Bootstrapping
<1>9. ASSUME "unasked" \notin Faults, ServiceInv
      PROVE  ServiceInv' /\ FailsStep /\ PortStep
  <2>1. ServedFits /\ RoutesFit /\ EnvFits /\ RefreshFits
    BY <1>9 DEF ServiceInv
  <2>2. ServedFits' /\ RoutesFit' /\ RefreshFits' /\ PortStep
    BY <1>1, <2>1 DEF ServedFits, At, Walks, Runs, Reachable, Whole, EnvStages, RoutesFit, RefreshFits,
                      Full, PortStep
  <2>3. EnvFits'
    BY <1>1, <2>1 DEF EnvFits, At, Walks, Exists, Runs, Full, ClusterRuns, ClusterComes, Todo, Landed,
                      EnvStages
  <2>4. FailsStep
    BY <1>1, <2>1 DEF At, FlociAnswers, Walks, FailsStep, ProxyFits, StartFits, PastRepair, PastHealth
  <2> QED
    BY <2>2, <2>3, <2>4 DEF ServiceInv
<1> QED
  BY <1>2, <1>3, <1>4, <1>5, <1>6, <1>7, <1>8, <1>9 DEF StepFits, PlatformInv

\* It bootstraps a new home: the nodes.
LEMMA BootDeploysKeeps ==
  ASSUME Typed, StagesFit, PassFits, NetsFit, ProxyFits, HomeFits, ClusterFits, StartFits,
         NEW p \in Procs, BootDeploys(p), UNCHANGED envVars
  PROVE  StepFits
<1>1. /\ BootDeploys(p) /\ UNCHANGED <<declared, landed, pods, plan>>
  BY DEF envVars
<1>2. Typed'
  BY <1>1, EachFits DEF Typed, BootDeploys, Deployed, Touches, worldVars, budgetVars, Built, Walks
<1>3. StagesFit'
  BY <1>1 DEF StagesFit, At, BootDeploys, Deployed, Walks, StartStages, StopStages, EnvStages,
              EnvStopStages, PastRepair, PastHealth, Bootstrapping
<1>4. PassFits'
  BY <1>1 DEF PassFits, At, BootDeploys, Deployed, Walks, Full, StartStages, PastRepair, PastHealth,
              Bootstrapping
<1>5. NetsFit'
  <2>1. CASE At(p) = "deploy-db" /\ Deployed(p, "db", "alias-db")
    BY <1>1, <2>1 DEF NetsFit, StagesFit, At, Deployed, Touches, Built, Walks, InHand, Runs,
                      StartStages, PastRepair, PastHealth, Bootstrapping
  <2>2. CASE At(p) = "deploy-graph" /\ Deployed(p, "graph", "alias-graph")
    BY <1>1, <2>2 DEF NetsFit, StagesFit, At, Deployed, Touches, Built, Walks, InHand, Runs,
                      StartStages, PastRepair, PastHealth, Bootstrapping
  <2>3. CASE At(p) = "deploy-services" /\ Deployed(p, "services", "mark")
    BY <1>1, <2>3 DEF NetsFit, StagesFit, At, Deployed, Touches, Built, Walks, InHand, Runs,
                      StartStages, PastRepair, PastHealth, Bootstrapping
  <2> QED
    BY <1>1, <2>1, <2>2, <2>3 DEF BootDeploys
<1>6. ProxyFits'
  BY <1>1 DEF ProxyFits, BootDeploys, Deployed, Boxes, Runs, StartStages, Touches, worldVars, Built,
              Composed, PastRepair, PastHealth, Bootstrapping
<1>7. HomeFits'
  <2>1. CASE At(p) = "deploy-db" /\ Deployed(p, "db", "alias-db")
    BY <1>1, <2>1 DEF HomeFits, At, Deployed, Touches, Built, Walks, Exists, Boxes, Composed, Spawned,
                      Databases, Graphs, EnvStages, Bootstrapping
  <2>2. CASE At(p) = "deploy-graph" /\ Deployed(p, "graph", "alias-graph")
    BY <1>1, <2>2 DEF HomeFits, At, Deployed, Touches, Built, Walks, Exists, Boxes, Composed, Spawned,
                      Databases, Graphs, EnvStages, Bootstrapping
  <2>3. CASE At(p) = "deploy-services" /\ Deployed(p, "services", "mark")
    BY <1>1, <2>3 DEF HomeFits, At, Deployed, Touches, Built, Walks, Exists, Boxes, Composed, Spawned,
                      Databases, Graphs, EnvStages, Bootstrapping
  <2> QED
    BY <1>1, <2>1, <2>2, <2>3 DEF BootDeploys
<1>8. ClusterFits'
  BY <1>1 DEF ClusterFits, At, BootDeploys, Deployed, Touches, Built, Walks, Exists, Boxes, Spawned
<1>9. StartFits'
  BY <1>1 DEF StartFits, At, BootDeploys, Deployed, Runs, PastRepair, PastHealth, Bootstrapping, Whole,
              StartStages, Boxes, Graphs, Databases, Touches, worldVars, Walks, Reachable, Composed,
              Spawned, StagesFit
<1>10. ASSUME "unasked" \notin Faults, ServiceInv
      PROVE  ServiceInv' /\ FailsStep /\ PortStep
  <2>1. ServedFits /\ RoutesFit /\ EnvFits /\ RefreshFits
    BY <1>10 DEF ServiceInv
  <2>2. ServedFits' /\ PortStep
    BY <1>1, <2>1 DEF BootDeploys, HomeFits, At, Deployed, EnvStages, Bootstrapping, Walks, ServedFits,
                      PortStep
  <2>3. RoutesFit'
    BY <1>1, <2>1 DEF RoutesFit, At, BootDeploys, Deployed, Touches, Built, Walks, Boxes, Composed,
                      EnvStages
  <2>4. EnvFits'
    <3>1. CASE At(p) = "deploy-db" /\ Deployed(p, "db", "alias-db")
      BY <1>1, <2>1, <3>1 DEF EnvFits, At, Deployed, Touches, Built, Walks, Exists, Runs, Full,
                              ClusterRuns, ClusterComes, Todo, Landed, Boxes, Composed, Spawned,
                              Databases, Graphs, EnvStages
    <3>2. CASE At(p) = "deploy-graph" /\ Deployed(p, "graph", "alias-graph")
      BY <1>1, <2>1, <3>2 DEF EnvFits, At, Deployed, Touches, Built, Walks, Exists, Runs, Full,
                              ClusterRuns, ClusterComes, Todo, Landed, Boxes, Composed, Spawned,
                              Databases, Graphs, EnvStages
    <3>3. CASE At(p) = "deploy-services" /\ Deployed(p, "services", "mark")
      BY <1>1, <2>1, <3>3 DEF EnvFits, At, Deployed, Touches, Built, Walks, Exists, Runs, Full,
                              ClusterRuns, ClusterComes, Todo, Landed, Boxes, Composed, Spawned,
                              Databases, Graphs, EnvStages
    <3> QED
      BY <1>1, <3>1, <3>2, <3>3 DEF BootDeploys
  <2>5. RefreshFits'
    BY <1>1, <2>1 DEF RefreshFits, At, BootDeploys, Deployed, Touches, Walks, Runs, Reachable, Whole,
                      Full, Boxes, Composed, Spawned, Databases, Graphs, EnvStages
  <2>6. FailsStep
    BY <1>1, <2>1 DEF BootDeploys, FailsStep, ProxyFits, StartFits, At, Deployed, Bootstrapping,
                      PastRepair, PastHealth, FlociAnswers, Walks
  <2> QED
    BY <2>2, <2>3, <2>4, <2>5, <2>6 DEF ServiceInv
<1> QED
  BY <1>2, <1>3, <1>4, <1>5, <1>6, <1>7, <1>8, <1>9, <1>10 DEF StepFits, PlatformInv

\* The home is marked as bootstrapped.
LEMMA MarkKeeps ==
  ASSUME Typed, StagesFit, PassFits, NetsFit, ProxyFits, HomeFits, ClusterFits, StartFits,
         NEW p \in Procs, MarkBootstrapped(p), UNCHANGED envVars
  PROVE  StepFits
<1>1. /\ At(p) = "mark" /\ Walks(p, "routes", "no")
      /\ disk' \in Homes /\ disk'.boot = TRUE /\ disk'.port = disk.port /\ disk'.frag = disk.frag
      /\ UNCHANGED <<box, floci, loaded, substrate, foreign, image, troubled, scars, left, events,
                     declared, landed, pods, plan>>
  BY Marking
<1>2. Typed'
  BY <1>1, EachFits DEF Typed, Walks
<1>3. StagesFit'
  BY <1>1 DEF StagesFit, At, Walks, StartStages, StopStages, EnvStages, EnvStopStages, PastRepair,
              PastHealth, Bootstrapping
<1>4. PassFits'
  BY <1>1 DEF PassFits, At, Walks, Full, StartStages, PastRepair, PastHealth, Bootstrapping
<1>5. NetsFit' /\ ProxyFits'
  BY <1>1 DEF NetsFit, At, Walks, InHand, Runs, ProxyFits, StartStages, PastRepair, PastHealth,
              Bootstrapping
<1>6. HomeFits' /\ ClusterFits'
  BY <1>1 DEF HomeFits, At, Walks, Exists, StartStages, PastRepair, PastHealth, Bootstrapping, StagesFit,
              ClusterFits
<1>7. StartFits'
  BY <1>1 DEF StartFits, At, Walks, Runs, Reachable, Whole, StartStages, PastRepair, PastHealth,
              Bootstrapping, StagesFit
<1>8. ASSUME "unasked" \notin Faults, ServiceInv
      PROVE  ServiceInv' /\ FailsStep /\ PortStep
  <2>1. ServedFits /\ RoutesFit /\ EnvFits /\ RefreshFits
    BY <1>8 DEF ServiceInv
  <2>2. ServedFits' /\ RoutesFit'
    BY <1>1, <2>1 DEF ServedFits, At, Walks, Runs, Reachable, Whole, EnvStages, RoutesFit
  <2>3. RefreshFits' /\ FailsStep /\ PortStep
    BY <1>1, <2>1 DEF RefreshFits, At, Walks, Runs, Reachable, Whole, Full, EnvStages, FailsStep, PortStep
  <2>4. EnvFits'
    BY <1>1, <2>1 DEF EnvFits, At, Walks, Exists, Runs, Full, ClusterRuns, ClusterComes, Todo, Landed,
                      EnvStages
  <2> QED
    BY <2>2, <2>3, <2>4 DEF ServiceInv
<1> QED
  BY <1>2, <1>3, <1>4, <1>5, <1>6, <1>7, <1>8 DEF StepFits, PlatformInv

\* The routes are written.
LEMMA WriteRoutesKeeps ==
  ASSUME Typed, StagesFit, PassFits, NetsFit, ProxyFits, HomeFits, ClusterFits, StartFits,
         NEW p \in Procs, WriteRoutes(p), UNCHANGED envVars
  PROVE  StepFits
<1>1. /\ At(p) = "routes" /\ UNCHANGED <<box, floci, foreign, image, troubled, scars, left, events,
                                         declared, landed, pods, plan>>
      /\ IF FlociAnswers
         THEN /\ Rewrites((disk.frag \ {"services"}) \cup (floci.built \cap {"services"}))
              /\ Reloads /\ Walks(p, "ready", "no") /\ UNCHANGED substrate
         ELSE /\ Walks(p, "failed", "no") /\ substrate' = substrate \ {p}
              /\ UNCHANGED <<disk, loaded>>
  BY WritingRoutes DEF worldVars, historyVars, budgetVars, envVars
<1>2. Typed'
  BY <1>1, Shapes, EachFits DEF Typed, Rewrites, Reloads, Walks, Served
<1>3. StagesFit'
  BY <1>1 DEF StagesFit, At, Walks, StartStages, StopStages, EnvStages, EnvStopStages, PastRepair,
              PastHealth, Bootstrapping
<1>4. PassFits'
  BY <1>1 DEF PassFits, At, Walks, Full, StartStages, PastRepair, PastHealth
<1>5. NetsFit'
  BY <1>1 DEF NetsFit, At, Walks, Runs, InHand
<1>6. ProxyFits'
  BY <1>1 DEF ProxyFits, Rewrites, Reloads, Runs, Served, StartStages, PastRepair, PastHealth
<1>7. HomeFits' /\ ClusterFits'
  BY <1>1 DEF HomeFits, At, Rewrites, Walks, Exists, Bootstrapping, ClusterFits
<1>8. StartFits'
  BY <1>1 DEF At, Rewrites, Reloads, Walks, ProxyFits, HomeFits, Runs, Served, PastRepair, PastHealth,
              Whole, Reachable, StartFits
<1>9. ASSUME "unasked" \notin Faults, ServiceInv
      PROVE  ServiceInv' /\ FailsStep /\ PortStep
  <2>1. ServedFits /\ RoutesFit /\ EnvFits /\ RefreshFits
    BY <1>9 DEF ServiceInv
  <2>2. ServedFits'
    BY <1>1, <2>1 DEF At, Rewrites, Reloads, Walks, ProxyFits, HomeFits, Runs, Served, EnvStages, Whole,
                      Reachable, ServedFits
  <2>3. RoutesFit'
    BY <1>1, <2>1, RoutesServed
  <2>4. EnvFits'
    BY <1>1, <2>1 DEF EnvFits, At, Walks, Exists, Runs, Full, ClusterRuns, ClusterComes, Todo, Landed,
                      EnvStages
  <2>5. RefreshFits' /\ PortStep
    BY <1>1, <2>1 DEF RefreshFits, At, Walks, Runs, Reachable, Whole, Full, EnvStages, PortStep, Rewrites
  <2>6. FailsStep
    BY <1>1, <2>1 DEF At, FlociAnswers, Walks, FailsStep, ProxyFits, StartFits, PastRepair, PastHealth
  <2> QED
    BY <2>2, <2>3, <2>4, <2>5, <2>6 DEF ServiceInv
<1> QED
  BY <1>2, <1>3, <1>4, <1>5, <1>6, <1>7, <1>8, <1>9 DEF StepFits, PlatformInv

\* A stop takes the lock.
LEMMA BeginStopKeeps ==
  ASSUME Typed, StagesFit, PassFits, NetsFit, ProxyFits, HomeFits, ClusterFits, StartFits,
         NEW p \in Procs, BeginStop(p), UNCHANGED envVars
  PROVE  StepFits
<1>1. /\ At(p) = "lock" /\ proc[p].job = "stop" /\ substrate = {} /\ substrate' = {p}
      /\ Walks(p, "stop-spawned", "no") /\ troubled' = troubled \cup Unlocked(p)
      /\ UNCHANGED <<box, disk, floci, loaded, foreign, image, scars, left, events, declared, landed,
                     pods, plan>>
  BY GoesWalks DEF BeginStop, platformVars, worldVars, budgetVars, envVars
<1>2. Typed'
  BY <1>1, EachFits DEF Typed, Walks, Unlocked
<1>3. StagesFit'
  BY <1>1 DEF StagesFit, At, Walks, Unlocked, StartStages, EnvStages, EnvStopStages, PastRepair,
              PastHealth, Bootstrapping
<1>4. StartFits'
  BY <1>1 DEF StartFits, At, Walks, Unlocked, PastRepair, PastHealth, Bootstrapping
<1>5. PassFits' /\ NetsFit'
  BY <1>1 DEF PassFits, At, Walks, Full, NetsFit, InHand, Runs
<1>6. ProxyFits' /\ HomeFits' /\ ClusterFits'
  BY <1>1 DEF ProxyFits, At, Walks, Runs, StartStages, EnvStages, PastRepair, PastHealth, Bootstrapping,
              HomeFits, Exists, ClusterFits
<1>7. ASSUME "unasked" \notin Faults, ServiceInv
      PROVE  ServiceInv' /\ FailsStep /\ PortStep
  <2>1. ServedFits /\ RoutesFit /\ EnvFits /\ RefreshFits
    BY <1>7 DEF ServiceInv
  <2>2. ServedFits' /\ RoutesFit' /\ EnvFits' /\ RefreshFits' /\ FailsStep /\ PortStep
    BY <1>1, <2>1 DEF ServedFits, At, Walks, Unlocked, EnvStages, RoutesFit, EnvFits, RefreshFits,
                      FailsStep, PortStep
  <2> QED
    BY <2>2 DEF ServiceInv
<1> QED
  BY <1>2, <1>3, <1>4, <1>5, <1>6, <1>7 DEF StepFits, PlatformInv

\* It stops what Floci spawned.
LEMMA StopSpawnedKeeps ==
  ASSUME Typed, StagesFit, PassFits, NetsFit, ProxyFits, HomeFits, ClusterFits, StartFits,
         NEW p \in Procs, StopSpawned(p), UNCHANGED envVars
  PROVE  StepFits
<1>1. /\ At(p) = "stop-spawned" /\ Walks(p, "stop-composed", "no") /\ Stops(Spawned)
      /\ UNCHANGED <<disk, floci, loaded, substrate, foreign, image, troubled, scars, left, events,
                     declared, landed, pods, plan>>
  BY GoesWalks, Stopping DEF StopSpawned, Same, worldVars, historyVars, budgetVars, envVars
<1>2. Typed'
  BY <1>1, EachFits DEF Typed, Walks, Stops
<1>3. StagesFit'
  BY <1>1 DEF StagesFit, At, Walks, StartStages, StopStages, EnvStages, EnvStopStages, PastRepair,
              PastHealth, Bootstrapping
<1>4. StartFits'
  BY <1>1 DEF StartFits, At, Walks, StartStages, StopStages, PastRepair, PastHealth, Bootstrapping,
              StagesFit
<1>5. PassFits'
  BY <1>1 DEF PassFits, At, Walks, Full, StartStages, PastRepair, PastHealth, Bootstrapping
<1>6. NetsFit'
  BY <1>1 DEF NetsFit, At, Walks, Stops, InHand, StartStages, StopStages, EnvStages, PastRepair,
              PastHealth, Bootstrapping, StagesFit
<1>7. ProxyFits'
  BY <1>1 DEF ProxyFits, At, Walks, Stops, Runs, Boxes, Composed, StartStages, EnvStages, PastRepair,
              PastHealth, Bootstrapping
<1>8. HomeFits'
  BY <1>1 DEF HomeFits, At, Walks, Stops, Exists, Boxes, Composed, Spawned, Databases, Graphs, EnvStages,
              Bootstrapping
<1>9. ClusterFits'
  BY <1>1 DEF ClusterFits, At, Walks, Stops, Exists, Runs, Boxes, Spawned
<1>10. ASSUME "unasked" \notin Faults, ServiceInv
      PROVE  ServiceInv' /\ FailsStep /\ PortStep
  <2>1. ServedFits /\ RoutesFit /\ EnvFits /\ RefreshFits
    BY <1>10 DEF ServiceInv
  <2>2. ServedFits' /\ EnvFits' /\ RefreshFits' /\ FailsStep /\ PortStep
    BY <1>1, <2>1 DEF ServedFits, At, Walks, StopStages, EnvStages, StagesFit, EnvFits, RefreshFits,
                      FailsStep, PortStep
  <2>3. RoutesFit'
    BY <1>1, <2>1 DEF RoutesFit, At, Walks, StartStages, StopStages, EnvStages, PastRepair, PastHealth,
                      StagesFit
  <2> QED
    BY <2>2, <2>3 DEF ServiceInv
<1> QED
  BY <1>2, <1>3, <1>4, <1>5, <1>6, <1>7, <1>8, <1>9, <1>10 DEF StepFits, PlatformInv

\* And what compose did.
LEMMA StopComposedKeeps ==
  ASSUME Typed, StagesFit, PassFits, NetsFit, ProxyFits, HomeFits, ClusterFits, StartFits,
         NEW p \in Procs, StopComposed(p), UNCHANGED envVars
  PROVE  StepFits
<1>1. /\ At(p) = "stop-composed" /\ Leaves(p) /\ Stops(Composed)
      /\ substrate' = substrate \ {p} /\ troubled' = troubled \ {p}
      /\ UNCHANGED <<disk, floci, loaded, foreign, image, scars, left, events, declared, landed, pods,
                     plan>>
  BY StopComposedEnds, Stopping DEF envVars
<1>2. Typed'
  BY <1>1 DEF Typed, Leaves, Stops
<1>3. StagesFit'
  BY <1>1 DEF StagesFit, At, Leaves, EnvJobs, StartStages, StopStages, EnvStages, EnvStopStages,
              PastRepair, PastHealth, Bootstrapping
<1>4. PassFits'
  BY <1>1 DEF PassFits, At, Leaves, Full
<1>5. ClusterFits'
  BY <1>1 DEF ClusterFits, At, Leaves, Stops, Exists, Boxes, Composed, Spawned
<1>6. NetsFit'
  BY <1>1 DEF NetsFit, At, Leaves, Stops, InHand, StartStages, StopStages, EnvStages, PastRepair,
              PastHealth, Bootstrapping, StagesFit
<1>7. ProxyFits'
  BY <1>1 DEF ProxyFits, At, Leaves, Stops, Runs, Boxes, Composed, StartStages, EnvStages, PastRepair,
              PastHealth, Bootstrapping
<1>8. HomeFits'
  BY <1>1 DEF HomeFits, At, Leaves, Stops, Exists, Boxes, Composed, Spawned, Databases, Graphs, EnvStages,
              Bootstrapping
<1>9. StartFits'
  BY <1>1 DEF StartFits, At, Leaves, StartStages, StopStages, PastRepair, PastHealth, Bootstrapping,
              StagesFit
<1>10. ASSUME "unasked" \notin Faults, ServiceInv
      PROVE  ServiceInv' /\ FailsStep /\ PortStep
  <2>1. ServedFits /\ RoutesFit /\ EnvFits /\ RefreshFits
    BY <1>10 DEF ServiceInv
  <2>2. ServedFits' /\ EnvFits' /\ RefreshFits' /\ FailsStep /\ PortStep
    BY <1>1, <2>1 DEF ServedFits, At, Leaves, StopStages, EnvStages, StagesFit, EnvFits, RefreshFits,
                      FailsStep, PortStep
  <2>3. RoutesFit'
    BY <1>1, <2>1 DEF RoutesFit, At, Leaves, StartStages, StopStages, EnvStages, PastRepair, PastHealth,
                      StagesFit
  <2> QED
    BY <2>2, <2>3 DEF ServiceInv
<1> QED
  BY <1>2, <1>3, <1>4, <1>5, <1>6, <1>7, <1>8, <1>9, <1>10 DEF StepFits, PlatformInv

\* A call of a start fails, and it warns and goes on.
LEMMA StartWarnsKeeps ==
  ASSUME Typed, StagesFit, PassFits, NetsFit, ProxyFits, HomeFits, ClusterFits, StartFits,
         NEW p \in Procs, StartWarns(p), UNCHANGED envVars
  PROVE  StepFits
<1>1. PICK to \in StartStages :
        /\ \/ At(p) = "repair" /\ to = "health"
           \/ At(p) = "db" /\ to = (IF disk.boot THEN "graph" ELSE "storage")
           \/ At(p) = "graph" /\ to = "storage"
           \/ At(p) = "alias-graph" /\ to = "deploy-services"
        /\ Warned(p, to) /\ UNCHANGED <<declared, landed, pods, plan>>
  BY WarnsEnds DEF StartWarns, envVars, StartStages, PastRepair, PastHealth, Bootstrapping
<1>2. Typed'
  BY <1>1, EachFits, PlatformAssumption DEF Typed, Warned, Walks, Wounds, platformVars, worldVars
<1>3. StagesFit'
  BY <1>1 DEF StagesFit, At, Warned, Walks, StartStages, StopStages, EnvStages, EnvStopStages, PastRepair,
              PastHealth, Bootstrapping
<1>4. PassFits' /\ StartFits'
  BY <1>1 DEF PassFits, At, Warned, Walks, Full, StartStages, PastRepair, PastHealth, Bootstrapping,
              StartFits, StagesFit
<1>5. NetsFit'
  BY <1>1 DEF NetsFit, At, Warned, Walks, Wounds, platformVars, Runs
<1>6. HomeFits' /\ ClusterFits'
  BY <1>1 DEF HomeFits, At, Warned, Walks, platformVars, Exists, EnvStages, Bootstrapping, ClusterFits
<1>7. ProxyFits'
  BY <1>1 DEF ProxyFits, Warned, platformVars, worldVars, Runs, StartStages, PastRepair, PastHealth,
              Bootstrapping
<1>8. ASSUME "unasked" \notin Faults, ServiceInv
      PROVE  ServiceInv' /\ FailsStep /\ PortStep
  <2>1. ServedFits /\ RoutesFit /\ EnvFits /\ RefreshFits
    BY <1>8 DEF ServiceInv
  <2>2. ServedFits' /\ RoutesFit' /\ RefreshFits' /\ FailsStep /\ PortStep
    BY <1>1, <2>1 DEF ServedFits, At, Warned, Walks, platformVars, worldVars, Runs, Whole, Reachable,
                      RoutesFit, RefreshFits, Full, FailsStep, PortStep
  <2>3. EnvFits'
    BY <1>1, <2>1 DEF EnvFits, At, Warned, Walks, platformVars, Exists, Landed, Todo, ClusterRuns, Full,
                      ClusterComes, Runs
  <2> QED
    BY <2>2, <2>3 DEF ServiceInv
<1> QED
  BY <1>2, <1>3, <1>4, <1>5, <1>6, <1>7, <1>8 DEF StepFits, PlatformInv

\* A start of the control plane is done.
LEMMA ReadyKeeps ==
  ASSUME Typed, StagesFit, PassFits, NetsFit, ProxyFits, HomeFits, ClusterFits, StartFits,
         NEW p \in Procs, Ready(p)
  PROVE  StepFits
<1>1. /\ At(p) = "ready" /\ substrate' = substrate \ {p}
      /\ \/ /\ proc[p].job = "env-start" /\ Walks(p, "env-health", "no") /\ UNCHANGED <<plan, troubled>>
         \/ /\ proc[p].job # "env-start" /\ Leaves(p) /\ troubled' = troubled \ {p}
            /\ plan' = IF proc[p].job \in EnvJobs THEN NoPlan ELSE plan
      /\ UNCHANGED <<box, disk, floci, loaded, foreign, image, scars, left, events, declared, landed,
                     pods>>
  BY GoesWalks, EndsLeaves DEF Ready, Releases, platformVars, worldVars, budgetVars
<1>2. Typed'
  BY <1>1, EachFits DEF Typed, Walks, Leaves
<1>3. StagesFit'
  BY <1>1 DEF StagesFit, At, Walks, Leaves, EnvJobs, StartStages, StopStages, EnvStages, EnvStopStages,
              PastRepair, PastHealth, Bootstrapping
<1>4. PassFits'
  BY <1>1 DEF PassFits, At, Walks, Leaves, EnvJobs, Full, StartStages, PastRepair, PastHealth, StagesFit
<1>5. NetsFit' /\ ProxyFits'
  BY <1>1 DEF NetsFit, At, Walks, Leaves, InHand, Runs, ProxyFits, StartStages, PastRepair, PastHealth
<1>6. HomeFits' /\ ClusterFits'
  BY <1>1 DEF HomeFits, At, Walks, Leaves, Exists, Bootstrapping, ClusterFits
<1>7. StartFits'
  BY <1>1 DEF StartFits, At, Walks, Leaves, StartStages, PastRepair, PastHealth, Bootstrapping, StagesFit
<1>8. ASSUME "unasked" \notin Faults, ServiceInv
      PROVE  ServiceInv' /\ FailsStep /\ PortStep
  <2>1. ServedFits /\ RoutesFit /\ EnvFits /\ RefreshFits
    BY <1>8 DEF ServiceInv
  <2>2. ServedFits'
    BY <1>1, <2>1 DEF At, Walks, Leaves, StartFits, EnvStages, Runs, Whole, PastRepair, PastHealth,
                      Reachable, ServedFits
  <2>3. RoutesFit' /\ FailsStep /\ PortStep
    BY <1>1, <2>1 DEF RoutesFit, At, Walks, Leaves, FailsStep, PortStep
  <2>4. EnvFits'
    BY <1>1, <2>1, ReadyGoesOn
  <2>5. RefreshFits'
    BY <1>1, <2>1 DEF RefreshFits, At, Leaves, NoPlan, PassFits, EnvStages, Whole, Full, Runs,
                      StartStages, Reachable, PastRepair, PastHealth
  <2> QED
    BY <2>2, <2>3, <2>4, <2>5 DEF ServiceInv
<1> QED
  BY <1>2, <1>3, <1>4, <1>5, <1>6, <1>7, <1>8 DEF StepFits, PlatformInv

\* A command is done.
LEMMA GoneKeeps ==
  ASSUME Typed, StagesFit, PassFits, NetsFit, ProxyFits, HomeFits, ClusterFits, StartFits,
         NEW p \in Procs, Gone(p)
  PROVE  StepFits
<1>1. /\ At(p) \in {"failed", "env-ready"} /\ Leaves(p) /\ troubled' = troubled \ {p}
      /\ plan' = IF proc[p].job \in EnvJobs THEN NoPlan ELSE plan
      /\ UNCHANGED <<box, disk, floci, loaded, substrate, foreign, image, scars, left, events, declared,
                     landed, pods>>
  BY EndsLeaves DEF Gone, platformVars, worldVars, budgetVars
<1>2. Typed'
  BY <1>1, EachFits DEF Typed, Leaves
<1>3. StagesFit'
  BY <1>1 DEF StagesFit, At, Leaves, EnvJobs, StartStages, StopStages, EnvStages, EnvStopStages,
              PastRepair, PastHealth, Bootstrapping
<1>4. PassFits'
  BY <1>1 DEF PassFits, At, Leaves, EnvJobs, NoPlan, Full, StagesFit
<1>5. NetsFit'
  BY <1>1 DEF NetsFit, At, Leaves, InHand, Runs
<1>6. ProxyFits' /\ HomeFits' /\ ClusterFits'
  BY <1>1 DEF ProxyFits, At, Leaves, Runs, StartStages, EnvStages, PastRepair, PastHealth, Bootstrapping,
              HomeFits, Exists, ClusterFits
<1>7. StartFits'
  BY <1>1 DEF StartFits, At, Leaves, Runs, Reachable, Whole, PastRepair, PastHealth, Bootstrapping
<1>8. ASSUME "unasked" \notin Faults, ServiceInv
      PROVE  ServiceInv' /\ FailsStep /\ PortStep
  <2>1. ServedFits /\ RoutesFit /\ EnvFits /\ RefreshFits
    BY <1>8 DEF ServiceInv
  <2>2. ServedFits' /\ RoutesFit' /\ RefreshFits' /\ FailsStep /\ PortStep
    BY <1>1, <2>1 DEF ServedFits, At, Leaves, Runs, Reachable, Whole, EnvStages, RoutesFit, RefreshFits,
                      NoPlan, Full, FailsStep, PortStep
  <2>3. EnvFits'
    BY <1>1, <2>1 DEF EnvFits, At, Leaves, EnvJobs, Exists, Runs, Full, ClusterRuns, ClusterComes, Todo,
                      Landed, EnvStages, StagesFit
  <2> QED
    BY <2>2, <2>3 DEF ServiceInv
<1> QED
  BY <1>2, <1>3, <1>4, <1>5, <1>6, <1>7, <1>8 DEF StepFits, PlatformInv

\* A start of the environment waits for Floci.
LEMMA EnvHealthKeeps ==
  ASSUME Typed, StagesFit, PassFits, NetsFit, ProxyFits, HomeFits, ClusterFits, StartFits,
         NEW p \in Procs, EnvHealth(p)
  PROVE  StepFits
<1>1. /\ At(p) = "env-health" /\ Walks(p, IF FlociAnswers
           /\ ~box["floci"].cut THEN "env-db" ELSE "failed", "no")
      /\ UNCHANGED <<box, disk, floci, loaded, substrate, foreign, image, troubled, scars, left, events,
                     declared, landed, pods, plan>>
  BY GoesWalks DEF EnvHealth, Moves, EnvSame, platformVars, worldVars, historyVars, budgetVars
<1>2. Typed'
  BY <1>1, EachFits DEF Typed, Walks
<1>3. StagesFit'
  BY <1>1 DEF StagesFit, At, Walks, StartStages, StopStages, EnvStages, EnvStopStages, PastRepair,
              PastHealth, Bootstrapping
<1>4. PassFits'
  BY <1>1 DEF PassFits, At, Walks, Full
<1>5. NetsFit'
  BY <1>1 DEF NetsFit, At, Walks, Runs, InHand
<1>6. ProxyFits' /\ HomeFits' /\ ClusterFits'
  BY <1>1 DEF ProxyFits, Runs, EnvStages, HomeFits, At, Walks, Exists, Bootstrapping, ClusterFits
<1>7. StartFits'
  BY <1>1 DEF StartFits, At, Walks, Runs, Reachable, Whole, PastRepair, PastHealth, Bootstrapping
<1>8. ASSUME "unasked" \notin Faults, ServiceInv
      PROVE  ServiceInv' /\ FailsStep /\ PortStep
  <2>1. ServedFits /\ RoutesFit /\ EnvFits /\ RefreshFits
    BY <1>8 DEF ServiceInv
  <2>2. ServedFits' /\ RoutesFit' /\ RefreshFits' /\ FailsStep /\ PortStep
    BY <1>1, <2>1 DEF ServedFits, At, Walks, Runs, Reachable, Whole, EnvStages, RoutesFit, FlociAnswers,
                      RefreshFits, Full, FailsStep, ProxyFits, PortStep
  <2>3. EnvFits'
    BY <1>1, <2>1 DEF EnvFits, At, Walks, Exists, Runs, Full, ClusterRuns, ClusterComes, Todo, Landed,
                      EnvStages
  <2> QED
    BY <2>2, <2>3 DEF ServiceInv
<1> QED
  BY <1>2, <1>3, <1>4, <1>5, <1>6, <1>7, <1>8 DEF StepFits, PlatformInv

\* It has the environment's database on the network.
LEMMA EnsureEnvDBKeeps ==
  ASSUME Typed, StagesFit, PassFits, NetsFit, ProxyFits, HomeFits, ClusterFits, StartFits,
         NEW p \in Procs, EnsureEnvDB(p)
  PROVE  StepFits
<1>1. /\ At(p) = "env-db" /\ Net(p, "env-db", "env-graph", "env-graph") /\ UNCHANGED <<declared, landed,
                                                                                       pods>>
      /\ Planned(plan.pass, IF plan.pass = "start" /\ ~Exists("env-db") /\ "env-db" \notin floci.built
                            THEN plan.marked \cup {"env-db"} ELSE plan.marked, plan.res, plan.fatal)
  BY Nets
<1>2. /\ At(p) \in InHand("env-db") /\ "env-db" \in Databases \cup Graphs /\ "env-db" \in Boxes
      /\ Looks(p, "env-db", "env-graph", "env-graph")
  BY <1>1, NetLooks DEF InHand, Databases, Boxes, Spawned, Databases, Graphs
<1>3. Typed'
  BY <1>1, EachFits DEF Typed, Net, Planned, Touches, worldVars, budgetVars, NetJoined, NetStarted,
                        NetLeft, NetFound, Walks
<1>4. StagesFit'
  BY <1>1 DEF StagesFit, At, Net, NetJoined, NetStarted, NetLeft, NetFound, Walks, StartStages,
              StopStages, EnvStages, EnvStopStages, PastRepair, PastHealth, Bootstrapping
<1>5. PassFits'
  BY <1>1, EnvDBSteps, EnvDBPasses
<1>6. NetsFit'
  BY <1>1, <1>2, NetKeepsNets
<1>7. ProxyFits'
  BY <1>1, <1>2 DEF ProxyFits, At, Looks, Touches, Runs, StartStages, EnvStages, Boxes, Composed, Databases,
                    Graphs, PastRepair, PastHealth, Bootstrapping
<1>8. HomeFits'
  BY <1>1, <1>2 DEF HomeFits, At, Looks, Touches, Exists, Boxes, Composed, Spawned, Graphs, Databases,
                    EnvStages, Bootstrapping
<1>9. ClusterFits'
  BY <1>1 DEF ClusterFits, At, Net, Exists, Touches, NetJoined, NetStarted, NetLeft, NetFound, Walks,
              Boxes, Spawned
<1>10. StartFits'
  BY <1>1 DEF StartFits, At, Net, Touches, worldVars, NetJoined, NetStarted, NetLeft, NetFound, Runs,
              PastRepair, PastHealth, Bootstrapping, Whole, Boxes, Graphs, Databases, Walks, Reachable,
              Composed, Spawned
<1>11. ASSUME "unasked" \notin Faults, ServiceInv
      PROVE  ServiceInv' /\ FailsStep /\ PortStep
  <2>1. ServedFits /\ RoutesFit /\ EnvFits /\ RefreshFits
    BY <1>11 DEF ServiceInv
  <2>2. ServedFits'
    BY <1>1, <2>1 DEF ServedFits, At, Net, Touches, worldVars, NetJoined, NetStarted, NetLeft, NetFound,
                      EnvStages, Runs, Whole, Boxes, Graphs, Databases, Walks, Reachable, Composed,
                      Spawned
  <2>3. RoutesFit'
    BY <1>1, <2>1 DEF RoutesFit, At, Net, Touches, NetJoined, NetStarted, NetLeft, NetFound, Walks, Boxes,
                      Composed, EnvStages
  <2>4. EnvFits'
    BY <1>1, <2>1, EnvDBExists
  <2>5. RefreshFits'
    BY <1>1, <2>1, EnvDBWhole
  <2>6. FailsStep /\ PortStep
    BY <1>1, <2>1 DEF FailsStep, At, Net, NetJoined, NetStarted, NetLeft, NetFound, Walks, PortStep
  <2> QED
    BY <2>2, <2>3, <2>4, <2>5, <2>6 DEF ServiceInv
<1> QED
  BY <1>3, <1>4, <1>5, <1>6, <1>7, <1>8, <1>9, <1>10, <1>11 DEF StepFits, PlatformInv

\* And the graph.
LEMMA EnsureEnvGraphKeeps ==
  ASSUME Typed, StagesFit, PassFits, NetsFit, ProxyFits, HomeFits, ClusterFits, StartFits,
         NEW p \in Procs, EnsureEnvGraph(p)
  PROVE  StepFits
<1>1. /\ At(p) = "env-graph" /\ Net(p, "env-graph", AfterGraph, AfterGraph)
      /\ UNCHANGED <<declared, landed, pods, plan>>
  BY Nets DEF envVars
<1>2. /\ At(p) \in InHand("env-graph") /\ "env-graph" \in Databases \cup Graphs /\ "env-graph" \in Boxes
      /\ Looks(p, "env-graph", AfterGraph, AfterGraph)
  BY <1>1, NetLooks DEF InHand, Graphs, Boxes, Spawned, Databases, Graphs
<1>3. Typed'
  BY <1>1, EachFits DEF Typed, Net, AfterGraph, Touches, worldVars, budgetVars, NetJoined, NetStarted,
                        NetLeft, NetFound, Walks
<1>4. StagesFit'
  BY <1>1 DEF StagesFit, At, Net, AfterGraph, NetJoined, NetStarted, NetLeft, NetFound, Walks,
              StartStages, StopStages, EnvStages, EnvStopStages, PastRepair, PastHealth, Bootstrapping
<1>5. PassFits'
  BY <1>1 DEF PassFits, At, Net, AfterGraph, NetJoined, NetStarted, NetLeft, NetFound, Walks, Full,
              StartStages, PastRepair, PastHealth, Bootstrapping
<1>6. NetsFit'
  BY <1>1, <1>2, NetKeepsNets
<1>7. ProxyFits'
  BY <1>1, <1>2 DEF ProxyFits, At, Looks, Touches, Runs, StartStages, EnvStages, Boxes, Composed, Databases,
                    Graphs, PastRepair, PastHealth, Bootstrapping
<1>8. HomeFits'
  BY <1>1 DEF HomeFits, At, Net, AfterGraph, Touches, NetJoined, NetStarted, NetLeft, NetFound, Joins,
              Walks, Restarts, Exists, Boxes, Composed, Spawned, Databases, Graphs, EnvStages,
              Bootstrapping
<1>9. ClusterFits'
  BY <1>1 DEF ClusterFits, At, Net, Touches, NetJoined, NetStarted, NetLeft, NetFound, Walks, Exists,
              Boxes, Spawned
<1>10. StartFits'
  BY <1>1 DEF StartFits, At, Net, AfterGraph, Touches, worldVars, NetJoined, NetStarted, NetLeft,
              NetFound, Runs, PastRepair, PastHealth, Bootstrapping, Whole, Boxes, Graphs, Databases,
              Walks, Reachable, Composed, Spawned
<1>11. ASSUME "unasked" \notin Faults, ServiceInv
      PROVE  ServiceInv' /\ FailsStep /\ PortStep
  <2>1. ServedFits /\ RoutesFit /\ EnvFits /\ RefreshFits
    BY <1>11 DEF ServiceInv
  <2>2. ServedFits'
    BY <1>1, <2>1 DEF ServedFits, At, Net, Touches, worldVars, NetJoined, NetStarted, NetLeft, NetFound,
                      EnvStages, Runs, Whole, Boxes, Graphs, Databases, Walks, Reachable, Composed,
                      Spawned
  <2>3. RoutesFit'
    BY <1>1, <2>1 DEF RoutesFit, At, Net, AfterGraph, Touches, NetJoined, NetStarted, NetLeft, NetFound,
                      Walks, Boxes, Composed, EnvStages
  <2>4. EnvFits'
    BY <1>1, <2>1 DEF EnvFits, At, Net, AfterGraph, Touches, NetJoined, NetStarted, NetLeft, NetFound,
                      Walks, Exists, Runs, Full, ClusterRuns, ClusterComes, Todo, Landed, Boxes, Composed,
                      Spawned, Databases, EnvStages
  <2>5. RefreshFits'
    <3>1. p \notin troubled /\ At(p)' # At(p) /\ plan.pass = "refresh" /\ "env-graph" \in declared
            => Whole("env-graph")'
      BY <1>1, <1>2, <2>1, NetMakesWhole DEF EnvFits, Landed, HomeFits, EnvStages
    <3> QED
      BY <1>1, <1>2, <2>1, <3>1 DEF RefreshFits, At, Looks, Touches, Runs, Reachable, Whole, Full, Boxes,
                                    AfterGraph, Composed, Spawned, Databases, Graphs, EnvStages
  <2>6. FailsStep /\ PortStep
    BY <1>1, <2>1 DEF FailsStep, At, Net, AfterGraph, NetJoined, NetStarted, NetLeft, NetFound, Walks,
                      PortStep
  <2> QED
    BY <2>2, <2>3, <2>4, <2>5, <2>6 DEF ServiceInv
<1> QED
  BY <1>3, <1>4, <1>5, <1>6, <1>7, <1>8, <1>9, <1>10, <1>11 DEF StepFits, PlatformInv

\* The cluster is looked at.
LEMMA ReconcileKeeps ==
  ASSUME Typed, StagesFit, PassFits, NetsFit, ProxyFits, HomeFits, ClusterFits, StartFits,
         NEW p \in Procs, Reconcile(p)
  PROVE  StepFits
<1>1. /\ At(p) = "reconcile" /\ UNCHANGED <<box, disk, loaded, plan, substrate, foreign, image, troubled,
                                            scars, left, events, declared, landed, pods>>
      /\ \/ /\ FlociAnswers /\ "cluster" \in floci.built
            /\ ~Exists("cluster") \/ box["cluster"].config # box["floci"].config
            /\ floci'.built = floci.built \ {"cluster"} /\ floci'.gateways = floci.gateways
            /\ floci' \in Flocis /\ Walks(p, "clear", "no")
         \/ /\ UNCHANGED floci /\ Walks(p, "k3s", "no")
            /\ ~FlociAnswers \/ "cluster" \notin floci.built
                 \/ (Exists("cluster") /\ box["cluster"].config = box["floci"].config)
  BY Reconciling DEF EnvSame, worldVars, historyVars, budgetVars
<1>2. Typed'
  BY <1>1, EachFits DEF Typed, Walks
<1>3. StagesFit'
  BY <1>1 DEF StagesFit, At, Walks, StartStages, StopStages, EnvStages, EnvStopStages, PastRepair,
              PastHealth, Bootstrapping
<1>4. PassFits'
  BY <1>1 DEF PassFits, At, Walks, Full, StartStages, PastRepair, PastHealth, Bootstrapping
<1>5. NetsFit'
  BY <1>1 DEF NetsFit, At, Walks, Runs, InHand
<1>6. ProxyFits' /\ HomeFits' /\ ClusterFits'
  BY <1>1 DEF ProxyFits, Runs, EnvStages, HomeFits, At, Exists, Walks, Bootstrapping, ClusterFits
<1>7. StartFits'
  BY <1>1 DEF StartFits, At, Walks, Runs, Reachable, Whole, PastRepair, PastHealth, Bootstrapping
<1>8. ASSUME "unasked" \notin Faults, ServiceInv
      PROVE  ServiceInv' /\ FailsStep /\ PortStep
  <2>1. ServedFits /\ RoutesFit /\ EnvFits /\ RefreshFits
    BY <1>8 DEF ServiceInv
  <2>2. ServedFits' /\ RoutesFit'
    BY <1>1, <2>1 DEF ServedFits, At, Walks, Runs, Reachable, Whole, EnvStages, RoutesFit
  <2>3. RefreshFits' /\ FailsStep /\ PortStep
    BY <1>1, <2>1 DEF RefreshFits, At, Walks, Runs, Reachable, Whole, Full, EnvStages, FailsStep, PortStep
  <2>4. EnvFits'
    BY <1>1, <2>1 DEF At, FlociAnswers, Exists, Walks, StagesFit, ServedFits, RoutesFit, Runs, EnvStages,
                      Landed, Todo, ClusterRuns, Full, ClusterComes, EnvFits
  <2> QED
    BY <2>2, <2>3, <2>4 DEF ServiceInv
<1> QED
  BY <1>2, <1>3, <1>4, <1>5, <1>6, <1>7, <1>8 DEF StepFits, PlatformInv

\* It is removed.
LEMMA ClearKeeps ==
  ASSUME Typed, StagesFit, PassFits, NetsFit, ProxyFits, HomeFits, ClusterFits, StartFits,
         NEW p \in Procs, Clear(p)
  PROVE  StepFits
<1>1. /\ At(p) = "clear" /\ Walks(p, "k3s", "no") /\ Touches({"cluster"}) /\ box'["cluster"] = Absent
      /\ Planned(plan.pass, plan.marked \cup {"cluster"}, plan.res, plan.fatal)
      /\ UNCHANGED <<floci, loaded, disk, substrate, foreign, image, troubled, scars, left, events,
                     declared, landed, pods>>
  BY Clearing
<1>2. Typed'
  BY <1>1, EachFits DEF Typed, Walks, Touches, Planned
<1>3. StagesFit'
  BY <1>1 DEF StagesFit, At, Walks, StartStages, StopStages, EnvStages, EnvStopStages, PastRepair,
              PastHealth, Bootstrapping
<1>4. PassFits'
  BY <1>1 DEF PassFits, At, Walks, Planned, Full, StartStages, PastRepair, PastHealth, Bootstrapping
<1>5. NetsFit'
  BY <1>1 DEF NetsFit, At, Walks, Touches, Absent, Runs, InHand, Databases, Graphs
<1>6. ClusterFits'
  BY <1>1 DEF ClusterFits, Absent, Exists
<1>7. ProxyFits'
  BY <1>1 DEF ProxyFits, Touches, Absent, Runs, Boxes, Composed, EnvStages
<1>8. HomeFits'
  BY <1>1 DEF HomeFits, At, Walks, Touches, Exists, Boxes, Composed, Spawned, Databases, Graphs,
              EnvStages, Bootstrapping
<1>9. StartFits'
  BY <1>1 DEF StartFits, At, Walks, Touches, Runs, Reachable, Whole, Boxes, Composed, Spawned, Databases,
              Graphs, PastRepair, PastHealth, Bootstrapping
<1>10. ASSUME "unasked" \notin Faults, ServiceInv
      PROVE  ServiceInv' /\ FailsStep /\ PortStep
  <2>1. ServedFits /\ RoutesFit /\ EnvFits /\ RefreshFits
    BY <1>10 DEF ServiceInv
  <2>2. ServedFits'
    BY <1>1, <2>1 DEF ServedFits, At, Walks, Touches, Runs, Reachable, Whole, Boxes, Composed, Spawned,
                      Databases, Graphs, EnvStages
  <2>3. RoutesFit' /\ FailsStep /\ PortStep
    BY <1>1, <2>1 DEF RoutesFit, At, Walks, Touches, Boxes, Composed, EnvStages, FailsStep, PortStep
  <2>4. EnvFits'
    BY <1>1, <2>1 DEF EnvFits, At, Walks, Touches, Planned, StagesFit, PassFits, Boxes, EnvStages, Exists,
                      Landed, EnvJobs, Databases, Spawned
  <2>5. RefreshFits'
    BY <1>1, <2>1 DEF RefreshFits, At, Walks, Touches, Planned, Runs, Reachable, Whole, Full, Boxes,
                      Composed, Spawned, Databases, Graphs, EnvStages
  <2> QED
    BY <2>2, <2>3, <2>4, <2>5 DEF ServiceInv
<1> QED
  BY <1>2, <1>3, <1>4, <1>5, <1>6, <1>7, <1>8, <1>9, <1>10 DEF StepFits, PlatformInv

\* It is started.
LEMMA EnsureK3sKeeps ==
  ASSUME Typed, StagesFit, PassFits, NetsFit, ProxyFits, HomeFits, ClusterFits, StartFits,
         NEW p \in Procs, EnsureK3s(p)
  PROVE  StepFits
<1>1. /\ At(p) = "k3s" /\ Touches({"cluster"}) /\ (K3sUp(p) \/ K3sStale(p) \/ K3sMissing(p))
      /\ UNCHANGED <<disk, floci, loaded, substrate, foreign, image, troubled, scars, left, events,
                     declared, landed, pods>>
  BY StartingK3s DEF EnvSame, worldVars, historyVars, budgetVars
<1>2. Typed'
  BY <1>1, EachFits DEF Typed, Touches, K3sUp, K3sStale, K3sMissing, Walks, Planned
<1>3. StagesFit'
  BY <1>1 DEF StagesFit, At, K3sUp, K3sStale, K3sMissing, Walks, Planned, StartStages, StopStages,
              EnvStages, EnvStopStages, PastRepair, PastHealth, Bootstrapping
<1>4. PassFits'
  BY <1>1 DEF PassFits, K3sUp, K3sStale, K3sMissing, Walks, Planned, Full, EnvJobs, StartStages,
              EnvStages, PastRepair, PastHealth, Bootstrapping, StagesFit
<1>5. NetsFit'
  BY <1>1 DEF NetsFit, At, Touches, K3sUp, K3sStale, K3sMissing, Walks, Planned, InHand, Runs
<1>6. ProxyFits'
  BY <1>1 DEF ProxyFits, Touches, K3sUp, K3sStale, K3sMissing, Planned, Runs, Boxes, Composed, EnvStages
<1>7. HomeFits'
  BY <1>1 DEF HomeFits, At, Touches, K3sUp, K3sStale, K3sMissing, Walks, Planned, Exists, Boxes, Composed,
              Spawned, Databases, Graphs, EnvStages, Bootstrapping
<1>8. ClusterFits'
  BY <1>1 DEF ClusterFits, At, K3sUp, K3sStale, K3sMissing, Walks, Planned, Exists
<1>9. StartFits'
  BY <1>1 DEF StartFits, At, Touches, K3sUp, K3sStale, K3sMissing, Walks, Planned, Runs, Reachable, Whole,
              Boxes, Composed, Spawned, Databases, Graphs, PastRepair, PastHealth, Bootstrapping
<1>10. ASSUME "unasked" \notin Faults, ServiceInv
      PROVE  ServiceInv' /\ FailsStep /\ PortStep
  <2>1. ServedFits /\ RoutesFit /\ EnvFits /\ RefreshFits
    BY <1>10 DEF ServiceInv
  <2>2. ServedFits'
    BY <1>1, <2>1 DEF ServedFits, At, Touches, K3sUp, K3sStale, K3sMissing, Walks, Planned, Runs,
                      Reachable, Whole, Boxes, Composed, Spawned, Databases, Graphs, EnvStages
  <2>3. RoutesFit'
    BY <1>1, <2>1 DEF RoutesFit, At, Touches, K3sUp, K3sStale, K3sMissing, Walks, Planned, Boxes,
                      Composed, EnvStages
  <2>4. EnvFits'
    BY <1>1, <2>1 DEF At, Touches, K3sUp, K3sStale, K3sMissing, StagesFit, PassFits, ClusterFits, Boxes,
                      Exists, Walks, Planned, EnvStages, Landed, Todo, ClusterRuns, Full, ClusterComes,
                      EnvJobs, Databases, Runs, Composed, Spawned, EnvFits
  <2>5. RefreshFits'
    BY <1>1, <2>1 DEF RefreshFits, At, Touches, K3sUp, K3sStale, K3sMissing, Walks, Planned, Runs,
                      Reachable, Whole, EnvJobs, Boxes, Spawned, Databases, Graphs, EnvStages, StagesFit
  <2>6. FailsStep /\ PortStep
    BY <1>1, <2>1 DEF FailsStep, At, K3sUp, K3sStale, K3sMissing, Walks, Planned, PortStep
  <2> QED
    BY <2>2, <2>3, <2>4, <2>5, <2>6 DEF ServiceInv
<1> QED
  BY <1>2, <1>3, <1>4, <1>5, <1>6, <1>7, <1>8, <1>9, <1>10 DEF StepFits, PlatformInv

\* Its router is brought up to date.
LEMMA StartClusterKeeps ==
  ASSUME Typed, StagesFit, PassFits, NetsFit, ProxyFits, HomeFits, ClusterFits, StartFits,
         NEW p \in Procs, StartCluster(p)
  PROVE  StepFits
<1>1. /\ At(p) = "router"
      /\ \/ Runs("cluster") /\ Routed(p, RouterPorts(FALSE), "expose")
         \/ /\ ~Runs("cluster") /\ Walks(p, "verify", "no")
            /\ UNCHANGED <<box, disk, floci, loaded, plan, substrate, foreign, image, troubled, scars,
                           left, events, declared, landed, pods>>
  BY Routs DEF EnvSame, platformVars, worldVars, historyVars, budgetVars
<1>2. Typed'
  BY <1>1, EachFits DEF Typed, Routed, RouterPorts, Walks, Touches, worldVars, budgetVars, envVars
<1>3. StagesFit'
  BY <1>1 DEF StagesFit, At, Routed, RouterPorts, Walks, StartStages, StopStages, EnvStages,
              EnvStopStages, PastRepair, PastHealth, Bootstrapping
<1>4. PassFits'
  BY <1>1 DEF PassFits, At, Routed, RouterPorts, Walks, envVars, Full, StartStages, PastRepair,
              PastHealth, Bootstrapping
<1>5. NetsFit'
  BY <1>1 DEF NetsFit, At, Runs, Routed, RouterPorts, Walks, Touches, Absent, Made, InHand, Databases,
              Graphs
<1>6. ProxyFits'
  BY <1>1 DEF ProxyFits, Runs, Routed, RouterPorts, Touches, worldVars, Absent, Made, Boxes, EnvStages,
              Composed
<1>7. HomeFits'
  BY <1>1 DEF HomeFits, At, Routed, RouterPorts, Walks, Touches, envVars, Exists, Databases, Graphs,
              EnvStages, Bootstrapping, Boxes, Composed, Spawned
<1>8. ClusterFits'
  BY <1>1 DEF ClusterFits, At, Runs, Routed, RouterPorts, Walks, envVars, Exists
<1>9. StartFits'
  BY <1>1 DEF StartFits, At, Runs, Routed, RouterPorts, Walks, Touches, worldVars, PastRepair, PastHealth,
              Bootstrapping, Whole, Boxes, Graphs, Databases, Reachable, Composed, Spawned
<1>10. ASSUME "unasked" \notin Faults, ServiceInv
      PROVE  ServiceInv' /\ FailsStep /\ PortStep
  <2>1. ServedFits /\ RoutesFit /\ EnvFits /\ RefreshFits
    BY <1>10 DEF ServiceInv
  <2>2. ServedFits'
    BY <1>1, <2>1 DEF ServedFits, At, Runs, Routed, RouterPorts, Walks, Touches, worldVars, EnvStages,
                      Whole, Boxes, Graphs, Databases, Reachable, Composed, Spawned
  <2>3. RoutesFit' /\ FailsStep /\ PortStep
    BY <1>1, <2>1 DEF RoutesFit, At, Routed, RouterPorts, Walks, Touches, Boxes, Composed, EnvStages,
                      FailsStep, PortStep
  <2>4. EnvFits'
    BY <1>1, <2>1 DEF EnvFits, At, Runs, Routed, RouterPorts, Walks, StagesFit, PassFits, Touches,
                      envVars, Exists, EnvStages, Landed, Todo, ClusterRuns, ClusterComes, Boxes,
                      Databases, Composed, Spawned
  <2>5. RefreshFits'
    BY <1>1, <2>1 DEF RefreshFits, At, Runs, Routed, RouterPorts, Walks, Touches, envVars, EnvStages,
                      Whole, EnvJobs, Boxes, Graphs, Databases, Reachable, Spawned, StagesFit
  <2> QED
    BY <2>2, <2>3, <2>4, <2>5 DEF ServiceInv
<1> QED
  BY <1>2, <1>3, <1>4, <1>5, <1>6, <1>7, <1>8, <1>9, <1>10 DEF StepFits, PlatformInv

\* Again, with what was deployed.
LEMMA ExposeKeeps ==
  ASSUME Typed, StagesFit, PassFits, NetsFit, ProxyFits, HomeFits, ClusterFits, StartFits,
         NEW p \in Procs, Expose(p)
  PROVE  StepFits
<1>1. /\ At(p) = "expose"
      /\ \/ Runs("cluster") /\ Routed(p, RouterPorts(pods), "alias")
         \/ /\ ~Runs("cluster") /\ Walks(p, "alias", "no")
            /\ UNCHANGED <<box, disk, floci, loaded, plan, substrate, foreign, image, troubled, scars,
                           left, events, declared, landed, pods>>
  BY Routs DEF EnvSame, platformVars, worldVars, historyVars, budgetVars
<1>2. Typed'
  BY <1>1, EachFits DEF Typed, Routed, Walks, Touches, worldVars, budgetVars, envVars
<1>3. StagesFit'
  BY <1>1 DEF StagesFit, At, Routed, Walks, StartStages, StopStages, EnvStages, EnvStopStages, PastRepair,
              PastHealth, Bootstrapping
<1>4. PassFits'
  BY <1>1 DEF PassFits, At, Routed, Walks, envVars, Full, StartStages, PastRepair, PastHealth,
              Bootstrapping
<1>5. NetsFit'
  BY <1>1 DEF NetsFit, At, Runs, Routed, Walks, Touches, Absent, Made, InHand, Databases, Graphs
<1>6. ProxyFits'
  BY <1>1 DEF ProxyFits, Runs, Routed, Touches, worldVars, Absent, Made, Boxes, EnvStages, Composed
<1>7. HomeFits'
  BY <1>1 DEF HomeFits, At, Routed, Walks, Touches, envVars, Exists, Databases, Graphs, EnvStages,
              Bootstrapping, Boxes, Composed, Spawned
<1>8. ClusterFits'
  BY <1>1 DEF ClusterFits, At, Runs, Routed, Walks, envVars, Exists
<1>9. StartFits'
  BY <1>1 DEF StartFits, At, Runs, Routed, Walks, Touches, worldVars, PastRepair, PastHealth,
              Bootstrapping, Whole, Boxes, Graphs, Databases, Reachable, Composed, Spawned
<1>10. ASSUME "unasked" \notin Faults, ServiceInv
      PROVE  ServiceInv' /\ FailsStep /\ PortStep
  <2>1. ServedFits /\ RoutesFit /\ EnvFits /\ RefreshFits
    BY <1>10 DEF ServiceInv
  <2>2. ServedFits'
    BY <1>1, <2>1 DEF ServedFits, At, Runs, Routed, Walks, Touches, worldVars, EnvStages, Whole, Boxes,
                      Graphs, Databases, Reachable, Composed, Spawned
  <2>3. RoutesFit' /\ FailsStep /\ PortStep
    BY <1>1, <2>1 DEF RoutesFit, At, Routed, Walks, Touches, Boxes, Composed, EnvStages, FailsStep,
                      PortStep
  <2>4. EnvFits'
    BY <1>1, <2>1 DEF EnvFits, At, Runs, Routed, Walks, Touches, envVars, Exists, EnvStages, Landed, Todo,
                      ClusterRuns, Full, ClusterComes, Boxes, Databases, Composed, Spawned
  <2>5. RefreshFits'
    BY <1>1, <2>1 DEF At, Runs, Routed, Walks, StagesFit, EnvFits, Touches, envVars, Made, EnvStages,
                      Whole, Full, EnvJobs, Boxes, Graphs, Databases, Landed, ClusterRuns, ClusterComes,
                      Reachable, Spawned, RefreshFits
  <2> QED
    BY <2>2, <2>3, <2>4, <2>5 DEF ServiceInv
<1> QED
  BY <1>2, <1>3, <1>4, <1>5, <1>6, <1>7, <1>8, <1>9, <1>10 DEF StepFits, PlatformInv

\* The proxy is given the cluster's names.
LEMMA AliasKeeps ==
  ASSUME Typed, StagesFit, PassFits, NetsFit, ProxyFits, HomeFits, ClusterFits, StartFits,
         NEW p \in Procs, Alias(p)
  PROVE  StepFits
<1>1. /\ At(p) = "alias" /\ Touches({"proxy"})
      /\ UNCHANGED <<disk, floci, loaded, substrate, foreign, image, scars, left, events, declared,
                     landed, pods, plan>>
      /\ \/ /\ pods /\ Runs("cluster") /\ proc[p].half = "no" /\ box["proxy"].net = "bare"
            /\ Exists("proxy") /\ Joins("proxy", "off") /\ Walks(p, "alias", "off")
            /\ troubled' = troubled \cup (Working \ {p})
         \/ /\ proc[p].half = "off" /\ Joins("proxy", "aliased") /\ Walks(p, AfterAlias, "no")
            /\ UNCHANGED troubled
         \/ /\ proc[p].half = "no" /\ Walks(p, AfterAlias, "no") /\ UNCHANGED <<box, troubled>>
            /\ ~(pods /\ Runs("cluster") /\ box["proxy"].net = "bare" /\ Exists("proxy"))
  BY Aliasing DEF worldVars, budgetVars, envVars
<1>2. Typed'
  BY <1>1, EachFits DEF Typed, Touches, Walks, Working, AfterAlias
<1>3. StagesFit'
  BY <1>1 DEF StagesFit, At, Walks, AfterAlias, StartStages, StopStages, EnvStages, EnvStopStages,
              PastRepair, PastHealth, Bootstrapping
<1>4. PassFits'
  BY <1>1, AliasPasses
<1>5. NetsFit'
  BY <1>1 DEF NetsFit, At, Touches, Runs, Joins, Walks, InHand, Boxes, Composed, Databases, Graphs
<1>6. ProxyFits' /\ ClusterFits'
  BY <1>1 DEF ProxyFits, Touches, Runs, Joins, Boxes, EnvStages, ClusterFits, At, Exists, Walks, Spawned
<1>7. HomeFits'
  BY <1>1 DEF HomeFits, At, Touches, Exists, Walks, AfterAlias, Boxes, Composed, Spawned, Databases,
              Graphs, EnvStages, Bootstrapping
<1>8. StartFits'
  BY <1>1 DEF StartFits, At, Touches, Runs, Joins, Walks, Working, AfterAlias, Reachable, Whole, Boxes,
              Composed, Spawned, Databases, Graphs, PastRepair, PastHealth, Bootstrapping
<1>9. ASSUME "unasked" \notin Faults, ServiceInv
      PROVE  ServiceInv' /\ FailsStep /\ PortStep
  <2>1. ServedFits /\ RoutesFit /\ EnvFits /\ RefreshFits
    BY <1>9 DEF ServiceInv
  <2>2. ServedFits'
    BY <1>1, <2>1 DEF ServedFits, At, Touches, Runs, Joins, Walks, Working, Reachable, Whole, Boxes,
                      Composed, Spawned, Databases, Graphs, EnvStages
  <2>3. RoutesFit' /\ FailsStep /\ PortStep
    BY <1>1, <2>1 DEF RoutesFit, At, Joins, Walks, AfterAlias, EnvStages, FailsStep, PortStep
  <2>4. EnvFits'
    BY <1>1, <2>1 DEF EnvFits, At, Touches, Runs, Exists, Walks, AfterAlias, Full, ClusterRuns,
                      ClusterComes, Todo, Landed, Boxes, Composed, Spawned, Databases, EnvStages
  <2>5. RefreshFits'
    BY <1>1, <2>1, AliasNames
  <2> QED
    BY <2>2, <2>3, <2>4, <2>5 DEF ServiceInv
<1> QED
  BY <1>2, <1>3, <1>4, <1>5, <1>6, <1>7, <1>8, <1>9 DEF StepFits, PlatformInv

\* The cluster is looked at again.
LEMMA VerifyKeeps ==
  ASSUME Typed, StagesFit, PassFits, NetsFit, ProxyFits, HomeFits, ClusterFits, StartFits,
         NEW p \in Procs, Verify(p)
  PROVE  StepFits
<1>1. /\ At(p) = "verify" /\ Walks(p, IF plan.pass = "again" THEN "env-db" ELSE "dbaccount", "no")
      /\ Planned(IF plan.pass = "again" THEN "refresh" ELSE plan.pass, plan.marked, plan.res, ~Runs("cluster"))
      /\ UNCHANGED <<box, disk, floci, loaded, substrate, foreign, image, troubled, scars, left, events,
                     declared, landed, pods>>
  BY Planning DEF EnvSame, worldVars, historyVars, budgetVars
<1>2. Typed'
  BY <1>1, EachFits DEF Typed, Walks, Planned
<1>3. StagesFit'
  BY <1>1 DEF StagesFit, At, Walks, StartStages, StopStages, EnvStages, EnvStopStages, PastRepair,
              PastHealth, Bootstrapping
<1>4. PassFits'
  BY <1>1 DEF PassFits, Walks, Planned, Full, EnvJobs, StartStages, EnvStages, PastRepair, PastHealth,
              Bootstrapping, StagesFit
<1>5. NetsFit' /\ ProxyFits'
  BY <1>1 DEF NetsFit, At, Walks, Runs, InHand, ProxyFits, EnvStages
<1>6. HomeFits' /\ ClusterFits'
  BY <1>1 DEF HomeFits, At, Walks, Exists, EnvStages, Bootstrapping, ClusterFits
<1>7. StartFits'
  BY <1>1 DEF StartFits, At, Walks, Runs, Reachable, Whole, PastRepair, PastHealth, Bootstrapping
<1>8. ASSUME "unasked" \notin Faults, ServiceInv
      PROVE  ServiceInv' /\ FailsStep /\ PortStep
  <2>1. ServedFits /\ RoutesFit /\ EnvFits /\ RefreshFits
    BY <1>8 DEF ServiceInv
  <2>2. ServedFits' /\ RoutesFit' /\ FailsStep /\ PortStep
    BY <1>1, <2>1 DEF ServedFits, At, Walks, Runs, Reachable, Whole, EnvStages, RoutesFit, FailsStep,
                      PortStep
  <2>3. EnvFits'
    BY <1>1, <2>1 DEF EnvFits, At, Walks, Planned, Runs, StagesFit, PassFits, EnvStages, Exists, Landed,
                      Todo, ClusterRuns, ClusterComes, EnvJobs
  <2>4. RefreshFits'
    BY <1>1, <2>1 DEF RefreshFits, At, Walks, Planned, Runs, Reachable, Whole, EnvJobs, EnvStages,
                      StagesFit
  <2> QED
    BY <2>2, <2>3, <2>4 DEF ServiceInv
<1> QED
  BY <1>2, <1>3, <1>4, <1>5, <1>6, <1>7, <1>8 DEF StepFits, PlatformInv

\* The account service is made.
LEMMA EnsureDBAccountKeeps ==
  ASSUME Typed, StagesFit, PassFits, NetsFit, ProxyFits, HomeFits, ClusterFits, StartFits,
         NEW p \in Procs, EnsureDBAccount(p)
  PROVE  StepFits
<1>1. /\ At(p) = "dbaccount" /\ Walks(p, "splice", "no") /\ UNCHANGED <<box, plan, substrate, foreign,
                                                                        image, troubled, scars, left,
                                                                        events, declared, landed, pods>>
      /\ IF FlociAnswers
         THEN /\ floci'.gateways = floci.gateways \cup {"dbaccount"}
              /\ floci'.built = floci.built /\ floci' \in Flocis
              /\ Rewrites((disk.frag \ {"deployed"}) \cup {"dbaccount"})
              /\ loaded' = loaded \ {"dbaccount"}
         ELSE UNCHANGED <<disk, floci, loaded>>
  BY MakingAccount DEF EnvSame, worldVars, historyVars, budgetVars
<1>2. Typed'
  BY <1>1, EachFits DEF Typed, Walks, Rewrites
<1>3. StagesFit'
  BY <1>1 DEF StagesFit, At, Walks, StartStages, StopStages, EnvStages, EnvStopStages, PastRepair,
              PastHealth, Bootstrapping
<1>4. PassFits'
  BY <1>1 DEF PassFits, At, Walks, Full, StartStages, PastRepair, PastHealth, Bootstrapping
<1>5. NetsFit'
  BY <1>1 DEF NetsFit, At, Walks, Runs, InHand
<1>6. ProxyFits' /\ HomeFits' /\ ClusterFits'
  BY <1>1 DEF ProxyFits, Rewrites, Runs, EnvStages, HomeFits, At, Walks, Exists, Bootstrapping,
              ClusterFits
<1>7. StartFits'
  BY <1>1 DEF StartFits, At, Walks, Rewrites, Runs, Reachable, Whole, PastRepair, PastHealth,
              Bootstrapping
<1>8. ASSUME "unasked" \notin Faults, ServiceInv
      PROVE  ServiceInv' /\ FailsStep /\ PortStep
  <2>1. ServedFits /\ RoutesFit /\ EnvFits /\ RefreshFits
    BY <1>8 DEF ServiceInv
  <2>2. ServedFits' /\ RoutesFit' /\ FailsStep /\ PortStep
    BY <1>1, <2>1 DEF ServedFits, At, Walks, Rewrites, Runs, Reachable, Whole, EnvStages, RoutesFit,
                      EnvJobs, StagesFit, FailsStep, PortStep
  <2>3. EnvFits'
    BY <1>1, <2>1 DEF EnvFits, At, Walks, StagesFit, PassFits, Runs, EnvStages, Exists, Landed, Todo,
                      ClusterRuns, Full, ClusterComes
  <2>4. RefreshFits'
    BY <1>1, <2>1 DEF RefreshFits, StagesFit, PassFits, EnvStages
  <2> QED
    BY <2>2, <2>3, <2>4 DEF ServiceInv
<1> QED
  BY <1>2, <1>3, <1>4, <1>5, <1>6, <1>7, <1>8 DEF StepFits, PlatformInv

\* The routes are spliced.
LEMMA RefreshRoutesKeeps ==
  ASSUME Typed, StagesFit, PassFits, NetsFit, ProxyFits, HomeFits, ClusterFits, StartFits,
         NEW p \in Procs, RefreshRoutes(p)
  PROVE  StepFits
<1>1. /\ At(p) = "splice" /\ Walks(p, AfterRoutes, "no") /\ UNCHANGED <<box, floci, substrate, foreign,
                                                                        image, troubled, scars, left,
                                                                        events, declared, landed, pods>>
      /\ Rewrites(IF FlociAnswers THEN disk.frag \cup floci.gateways ELSE disk.frag) /\ Reloads
      /\ Planned(NextPass, plan.marked, plan.res, plan.fatal)
  BY Splicing DEF EnvSame, worldVars, historyVars, budgetVars
<1>2. Typed'
  BY <1>1, Shapes, EachFits DEF Typed, Walks, AfterRoutes, Rewrites, Reloads, Planned, Served
<1>3. StagesFit'
  BY <1>1 DEF StagesFit, At, Walks, AfterRoutes, StartStages, StopStages, EnvStages, EnvStopStages,
              PastRepair, PastHealth, Bootstrapping
<1>4. PassFits'
  BY <1>1 DEF PassFits, At, Walks, AfterRoutes, Planned, NextPass, Full, EnvJobs, StartStages, EnvStages,
              PastRepair, PastHealth, Bootstrapping, StagesFit
<1>5. NetsFit'
  BY <1>1 DEF NetsFit, At, Walks, Runs, InHand
<1>6. ProxyFits'
  BY <1>1 DEF ProxyFits, Rewrites, Reloads, Runs, Served, EnvStages
<1>7. HomeFits' /\ ClusterFits'
  BY <1>1 DEF HomeFits, At, Walks, AfterRoutes, Rewrites, Exists, EnvStages, Bootstrapping, ClusterFits
<1>8. StartFits'
  BY <1>1 DEF At, Walks, AfterRoutes, Rewrites, Reloads, ProxyFits, Runs, Served, PastRepair, PastHealth,
              Bootstrapping, Whole, Reachable, StartFits
<1>9. ASSUME "unasked" \notin Faults, ServiceInv
      PROVE  ServiceInv' /\ FailsStep /\ PortStep
  <2>1. ServedFits /\ RoutesFit /\ EnvFits /\ RefreshFits
    BY <1>9 DEF ServiceInv
  <2>2. ServedFits'
    BY <1>1, <2>1 DEF At, Walks, Rewrites, Reloads, ProxyFits, Runs, Served, EnvStages, Whole, Reachable,
                      ServedFits
  <2>3. RoutesFit'
    BY <1>1, <2>1 DEF Walks, Rewrites, FlociAnswers, Reloads, StagesFit, ProxyFits, ServedFits, Served,
                      EnvStages, EnvJobs, RoutesFit
  <2>4. EnvFits'
    BY <1>1, <2>1 DEF EnvFits, At, Walks, AfterRoutes, Planned, NextPass, Exists, Runs, Full, ClusterRuns,
                      ClusterComes, Todo, Landed, EnvJobs, EnvStages, StagesFit
  <2>5. RefreshFits'
    BY <1>1, <2>1 DEF RefreshFits, At, Walks, AfterRoutes, Planned, NextPass, Runs, Reachable, Whole,
                      Full, EnvJobs, EnvStages, StagesFit
  <2>6. FailsStep /\ PortStep
    BY <1>1, <2>1 DEF At, Walks, AfterRoutes, FailsStep, EnvFits, EnvStages, PortStep, Rewrites
  <2> QED
    BY <2>2, <2>3, <2>4, <2>5, <2>6 DEF ServiceInv
<1> QED
  BY <1>2, <1>3, <1>4, <1>5, <1>6, <1>7, <1>8, <1>9 DEF StepFits, PlatformInv

\* All are.
LEMMA AppliedKeeps ==
  ASSUME Typed, StagesFit, PassFits, NetsFit, ProxyFits, HomeFits, ClusterFits, StartFits,
         NEW p \in Procs, Applied(p)
  PROVE  StepFits
<1>1. /\ At(p) = "apply" /\ Todo = {} /\ UNCHANGED <<box, disk, floci, loaded, substrate, foreign, image,
                                                     troubled, scars, left, events, declared, landed,
                                                     pods>>
      /\ \/ Full /\ Runs("cluster") /\ Walks(p, "expose", "no") /\ plan' = plan
         \/ /\ ~Full \/ ~Runs("cluster")
            /\ Walks(p, IF plan.res = "missing" THEN "k3s" ELSE "env-db", "no")
            /\ Planned(NextPass, plan.marked, plan.res, plan.fatal)
  BY Planning DEF EnvSame, worldVars, historyVars, budgetVars
<1>2. Typed'
  BY <1>1, EachFits DEF Typed, Walks, Planned
<1>3. StagesFit'
  BY <1>1 DEF StagesFit, At, Walks, StartStages, StopStages, EnvStages, EnvStopStages, PastRepair,
              PastHealth, Bootstrapping
<1>4. PassFits'
  BY <1>1 DEF PassFits, At, Full, Walks, Planned, NextPass, EnvJobs, StartStages, EnvStages, PastRepair,
              PastHealth, Bootstrapping, StagesFit
<1>5. NetsFit' /\ ProxyFits'
  BY <1>1 DEF NetsFit, At, Runs, Walks, InHand, ProxyFits, EnvStages
<1>6. HomeFits' /\ ClusterFits'
  BY <1>1 DEF HomeFits, At, Walks, Exists, EnvStages, Bootstrapping, ClusterFits
<1>7. StartFits'
  BY <1>1 DEF StartFits, At, Runs, Walks, Reachable, Whole, PastRepair, PastHealth, Bootstrapping
<1>8. ASSUME "unasked" \notin Faults, ServiceInv
      PROVE  ServiceInv' /\ FailsStep /\ PortStep
  <2>1. ServedFits /\ RoutesFit /\ EnvFits /\ RefreshFits
    BY <1>8 DEF ServiceInv
  <2>2. ServedFits' /\ RoutesFit' /\ FailsStep /\ PortStep
    BY <1>1, <2>1 DEF ServedFits, At, Runs, Walks, Reachable, Whole, EnvStages, RoutesFit, FailsStep,
                      PortStep
  <2>3. EnvFits'
    BY <1>1, <2>1 DEF EnvFits, At, Todo, Full, Runs, Walks, Planned, NextPass, StagesFit, PassFits,
                      EnvStages, Exists, ClusterRuns, ClusterComes
  <2>4. RefreshFits'
    BY <1>1, <2>1 DEF RefreshFits, At, Runs, Walks, Planned, NextPass, Reachable, Whole, EnvJobs,
                      EnvStages, StagesFit
  <2> QED
    BY <2>2, <2>3, <2>4 DEF ServiceInv
<1> QED
  BY <1>2, <1>3, <1>4, <1>5, <1>6, <1>7, <1>8 DEF StepFits, PlatformInv

\* A container of the environment is stopped.
LEMMA StopBoxKeeps ==
  ASSUME Typed, StagesFit, PassFits, NetsFit, ProxyFits, HomeFits, ClusterFits, StartFits,
         NEW p \in Procs, NEW b \in DOMAIN AfterStop, StopBox(p, b)
  PROVE  StepFits
<1>1. /\ b \in {"router", "cluster", "env-db", "env-graph"} /\ Stops({b}) /\ At(p) \in EnvStopStages
      /\ \E to \in EnvStopStages : Walks(p, to, "no")
      /\ UNCHANGED <<disk, floci, loaded, plan, substrate, foreign, image, troubled, scars, left, events,
                     declared, landed, pods>>
  BY StoppingBox DEF EnvSame, worldVars, historyVars, budgetVars
<1>2. Typed'
  BY <1>1, EachFits DEF Typed, Stops, Walks
<1>3. StagesFit'
  BY <1>1 DEF StagesFit, At, Walks, StartStages, StopStages, EnvStages, EnvStopStages, PastRepair,
              PastHealth, Bootstrapping
<1>4. PassFits'
  BY <1>1 DEF PassFits, At, Walks, Full, StartStages, EnvStopStages, PastRepair, PastHealth, Bootstrapping
<1>5. NetsFit'
  BY <1>1 DEF NetsFit, At, Stops, Walks, Runs, InHand, EnvJobs, EnvStages, EnvStopStages, StagesFit
<1>6. ProxyFits'
  BY <1>1 DEF ProxyFits, At, Stops, Walks, Runs, Boxes, Composed, Graphs, StartStages, StopStages,
              EnvStages, EnvStopStages, PastRepair, PastHealth, Bootstrapping
<1>7. HomeFits'
  BY <1>1 DEF HomeFits, At, Stops, Walks, Exists, Boxes, Composed, Spawned, Databases, Graphs, EnvStages,
              EnvStopStages, Bootstrapping
<1>8. ClusterFits'
  BY <1>1 DEF ClusterFits, At, Stops, Walks, Exists, Runs, Boxes, Spawned, EnvStopStages
<1>9. StartFits'
  BY <1>1 DEF StartFits, At, Stops, Walks, Runs, Reachable, Whole, Boxes, Composed, Spawned, Databases,
              Graphs, EnvStopStages, PastRepair, PastHealth, Bootstrapping
<1>10. ASSUME "unasked" \notin Faults, ServiceInv
      PROVE  ServiceInv' /\ FailsStep /\ PortStep
  <2>1. ServedFits /\ RoutesFit /\ EnvFits /\ RefreshFits
    BY <1>10 DEF ServiceInv
  <2>2. ServedFits' /\ RoutesFit' /\ EnvFits'
    BY <1>1, <2>1 DEF ServedFits, At, Walks, EnvJobs, EnvStages, EnvStopStages, StagesFit, RoutesFit,
                      EnvFits
  <2>3. RefreshFits' /\ FailsStep /\ PortStep
    BY <1>1, <2>1 DEF RefreshFits, At, Walks, EnvJobs, EnvStages, EnvStopStages, StagesFit, FailsStep,
                      PortStep
  <2> QED
    BY <2>2, <2>3 DEF ServiceInv
<1> QED
  BY <1>2, <1>3, <1>4, <1>5, <1>6, <1>7, <1>8, <1>9, <1>10 DEF StepFits, PlatformInv

\* Its routes are removed.
LEMMA UnrouteKeeps ==
  ASSUME Typed, StagesFit, PassFits, NetsFit, ProxyFits, HomeFits, ClusterFits, StartFits,
         NEW p \in Procs, Unroute(p)
  PROVE  StepFits
<1>1. /\ At(p) = "unroute" /\ Leaves(p) /\ Cuts({"router"}) /\ troubled' = troubled \ {p}
      /\ scars' = scars \cup (IF Runs("router") THEN {"router"} ELSE {})
      /\ Rewrites(disk.frag \ {"dbaccount", "deployed"}) /\ Reloads
      /\ plan' = IF proc[p].job \in EnvJobs THEN NoPlan ELSE plan
      /\ UNCHANGED <<floci, substrate, foreign, image, left, events, declared, landed, pods>>
  BY Unrouting
<1>2. Typed'
  BY <1>1, Shapes, EachFits DEF Typed, Leaves, Cuts, Rewrites, Reloads, Served, Boxes
<1>3. StagesFit'
  BY <1>1 DEF StagesFit, At, Leaves, EnvJobs, StartStages, StopStages, EnvStages, EnvStopStages,
              PastRepair, PastHealth, Bootstrapping
<1>4. PassFits'
  BY <1>1 DEF PassFits, At, Leaves, EnvJobs, NoPlan, Full, StagesFit
<1>5. NetsFit'
  BY <1>1 DEF NetsFit, At, Leaves, Cuts, Runs, InHand, Boxes, Composed, Spawned, Databases, Graphs
<1>6. ProxyFits'
  BY <1>1, UnrouteServes
<1>7. HomeFits'
  BY <1>1 DEF HomeFits, At, Leaves, Cuts, Rewrites, Exists, Boxes, Composed, Spawned, Databases, Graphs,
              EnvStages, Bootstrapping
<1>8. ClusterFits'
  BY <1>1 DEF ClusterFits, At, Leaves, Cuts, Exists, Boxes, Composed, Spawned, Databases, Graphs
<1>9. StartFits'
  BY <1>1 DEF At, Leaves, Cuts, Runs, Rewrites, Reloads, ProxyFits, Boxes, Served, PastRepair, PastHealth,
              Bootstrapping, Whole, Graphs, Databases, Composed, Spawned, Reachable, StartFits
<1>10. ASSUME "unasked" \notin Faults, ServiceInv
      PROVE  ServiceInv' /\ FailsStep /\ PortStep
  <2>1. ServedFits /\ RoutesFit /\ EnvFits /\ RefreshFits
    BY <1>10 DEF ServiceInv
  <2>2. ServedFits' /\ RoutesFit' /\ EnvFits' /\ RefreshFits' /\ FailsStep /\ PortStep
    BY <1>1, <2>1 DEF ServedFits, At, Leaves, EnvJobs, EnvStages, EnvStopStages, StagesFit, RoutesFit,
                      EnvFits, RefreshFits, NoPlan, FailsStep, PortStep, Rewrites
  <2> QED
    BY <2>2 DEF ServiceInv
<1> QED
  BY <1>2, <1>3, <1>4, <1>5, <1>6, <1>7, <1>8, <1>9, <1>10 DEF StepFits, PlatformInv

\* A call of an environment's command fails, and it warns and goes on.
LEMMA EnvWarnsKeeps ==
  ASSUME Typed, StagesFit, PassFits, NetsFit, ProxyFits, HomeFits, ClusterFits, StartFits,
         NEW p \in Procs, EnvWarns(p)
  PROVE  StepFits
<1>1. PICK to :
        /\ Warned(p, to) /\ UNCHANGED <<declared, landed, pods, plan>>
        /\ \/ At(p) = "env-db" /\ to = "env-graph"
           \/ At(p) = "env-graph" /\ to = AfterGraph
           \/ At(p) \in {"reconcile", "clear"} /\ to = "k3s"
           \/ At(p) = "router" /\ to = "verify"
           \/ At(p) = "expose" /\ to = "alias"
           \/ At(p) = "alias" /\ to = AfterAlias
           \/ At(p) = "dbaccount" /\ to = "splice"
           \/ At(p) \in EnvStopStages /\ to \in EnvStopStages
  BY EnvWarning DEF envVars
<1>2. Typed'
  BY <1>1, EachFits, PlatformAssumption DEF Typed, Warned, AfterGraph, AfterAlias, Walks, Wounds,
                                            platformVars, worldVars, Boxes, Spawned
<1>3. StagesFit'
  BY <1>1 DEF StagesFit, At, Warned, AfterGraph, AfterAlias, Walks, StartStages, StopStages, EnvStages,
              EnvStopStages, PastRepair, PastHealth, Bootstrapping
<1>4. PassFits'
  BY <1>1, WarnedPasses
<1>5. NetsFit'
  BY <1>1 DEF NetsFit, At, Warned, Walks, Wounds, platformVars, InHand, Runs, Databases, Graphs
<1>6. ProxyFits'
  BY <1>1 DEF ProxyFits, At, Warned, EnvStopStages, Walks, platformVars, worldVars, Runs, StartStages,
              EnvStages, PastRepair, PastHealth, Bootstrapping
<1>7. HomeFits'
  BY <1>1 DEF HomeFits, At, Warned, AfterGraph, AfterAlias, EnvStopStages, Walks, platformVars, Exists,
              EnvStages, Bootstrapping
<1>8. ClusterFits'
  BY <1>1 DEF ClusterFits, At, Warned, Walks, Wounds, platformVars, Exists
<1>9. StartFits'
  BY <1>1 DEF StartFits, At, Warned, Walks, platformVars, worldVars, Runs, Whole, Reachable
<1>10. ASSUME "unasked" \notin Faults, ServiceInv
      PROVE  ServiceInv' /\ FailsStep /\ PortStep
  <2>1. ServedFits /\ RoutesFit /\ EnvFits /\ RefreshFits
    BY <1>10 DEF ServiceInv
  <2>2. ServedFits' /\ RoutesFit' /\ EnvFits' /\ RefreshFits' /\ FailsStep
    BY <1>1, <2>1 DEF ServedFits, At, Warned, Walks, EnvJobs, EnvStages, StagesFit, RoutesFit, EnvFits,
                      RefreshFits, FailsStep, AfterGraph, AfterAlias, EnvStopStages
  <2>3. PortStep
    BY <1>1 DEF PortStep, Warned, platformVars
  <2> QED
    BY <2>2, <2>3 DEF ServiceInv
<1> QED
  BY <1>2, <1>3, <1>4, <1>5, <1>6, <1>7, <1>8, <1>9, <1>10 DEF StepFits, PlatformInv

\* A command is cut off.
LEMMA EnvCutOffKeeps ==
  ASSUME Typed, StagesFit, PassFits, NetsFit, ProxyFits, HomeFits, ClusterFits, StartFits,
         NEW p \in Procs, EnvCutOff(p)
  PROVE  StepFits
<1>1. /\ At(p) \notin {"idle", "lock", "failed", "ready"} /\ Leaves(p) /\ troubled' = troubled \ {p}
      /\ scars' = scars \cup Wounds(p) /\ substrate' = substrate \ {p}
      /\ events \in Nat /\ events < MaxEvents /\ events' = events + 1
      /\ plan' = IF proc[p].job \in EnvJobs THEN NoPlan ELSE plan
      /\ UNCHANGED <<box, disk, floci, loaded, foreign, image, left, declared, landed, pods>>
  BY CutOffEnds DEF EnvCutOff
<1>2. Typed'
  BY <1>1, EachFits, PlatformAssumption DEF Typed, Leaves, Wounds, Boxes, Spawned
<1>3. StagesFit'
  BY <1>1 DEF StagesFit, At, Leaves, EnvJobs, StartStages, StopStages, EnvStages, EnvStopStages,
              PastRepair, PastHealth, Bootstrapping
<1>4. PassFits'
  BY <1>1 DEF PassFits, At, Leaves, EnvJobs, NoPlan, Full, StagesFit
<1>5. NetsFit' /\ ClusterFits'
  BY <1>1 DEF NetsFit, At, Leaves, Wounds, Runs, InHand, Databases, Graphs, ClusterFits, Exists
<1>6. ProxyFits' /\ HomeFits'
  BY <1>1 DEF ProxyFits, At, Leaves, Runs, StartStages, EnvStages, PastRepair, PastHealth, Bootstrapping,
              HomeFits, Exists
<1>7. StartFits'
  BY <1>1 DEF StartFits, At, Leaves, Runs, Reachable, Whole, PastRepair, PastHealth, Bootstrapping
<1>8. ASSUME "unasked" \notin Faults, ServiceInv
      PROVE  ServiceInv' /\ FailsStep /\ PortStep
  <2>1. ServedFits /\ RoutesFit /\ EnvFits /\ RefreshFits
    BY <1>8 DEF ServiceInv
  <2>2. ServedFits' /\ RoutesFit' /\ RefreshFits' /\ FailsStep /\ PortStep
    BY <1>1, <2>1 DEF ServedFits, At, Leaves, Runs, Reachable, Whole, EnvStages, RoutesFit, RefreshFits,
                      NoPlan, Full, FailsStep, PortStep
  <2>3. EnvFits'
    BY <1>1, <2>1 DEF EnvFits, At, Leaves, EnvJobs, Exists, Runs, Full, ClusterRuns, ClusterComes, Todo,
                      Landed, EnvStages, StagesFit
  <2> QED
    BY <2>2, <2>3 DEF ServiceInv
<1> QED
  BY <1>2, <1>3, <1>4, <1>5, <1>6, <1>7, <1>8 DEF StepFits, PlatformInv

\* The home is deleted.
LEMMA EnvWipeKeeps ==
  ASSUME Typed, StagesFit, PassFits, NetsFit, ProxyFits, HomeFits, ClusterFits, StartFits,
         EnvWipe
  PROVE  StepFits
<1>1. /\ Working = {} /\ Cuts({"floci", "proxy", "router"})
      /\ events \in Nat /\ events < MaxEvents /\ events' = events + 1
      /\ disk' \in Homes /\ disk'.boot = FALSE /\ disk'.port = Min(Ports) /\ disk'.frag = {}
      /\ floci' = Kept /\ landed' = {}
      /\ scars' = (scars \ {"home"}) \cup {b \in {"proxy", "router"} : Runs(b)}
      /\ UNCHANGED <<loaded, proc, substrate, foreign, image, troubled, left, declared, pods, plan>>
  BY Wiping
<1>2. Typed'
  BY <1>1, EachFits, PlatformAssumption DEF Typed, Cuts, Kept, Boxes, Composed
<1>3. StagesFit' /\ PassFits' /\ ClusterFits' /\ StartFits'
  BY <1>1 DEF StagesFit, At, PassFits, Full, ClusterFits, StartFits, Working, PastRepair, PastHealth,
              Bootstrapping
<1>4. NetsFit'
  BY <1>1 DEF NetsFit, Working, Cuts, InHand, Boxes, Composed, Spawned, Databases, Graphs
<1>5. ProxyFits'
  BY <1>1, WipeScars
<1>6. HomeFits'
  BY <1>1 DEF HomeFits, At, Working, Cuts, Kept, Boxes, NewFloci, Exists, Databases, Graphs, EnvStages,
              Bootstrapping, Composed, Spawned
<1>7. ASSUME "unasked" \notin Faults, ServiceInv
      PROVE  ServiceInv' /\ FailsStep /\ PortStep
  <2>1. ServedFits /\ RoutesFit /\ EnvFits /\ RefreshFits
    BY <1>7 DEF ServiceInv
  <2>2. ServedFits' /\ RoutesFit' /\ EnvFits' /\ RefreshFits' /\ FailsStep /\ PortStep
    BY <1>1, <2>1 DEF ServedFits, At, Working, EnvStages, RoutesFit, EnvFits, RefreshFits, FailsStep,
                      PortStep
  <2> QED
    BY <2>2 DEF ServiceInv
<1> QED
  BY <1>2, <1>3, <1>4, <1>5, <1>6, <1>7 DEF StepFits, PlatformInv

\* A container dies.
LEMMA KillKeeps ==
  ASSUME Typed, StagesFit, PassFits, NetsFit, ProxyFits, HomeFits, ClusterFits, StartFits,
         NEW b \in Boxes, Kill(b), UNCHANGED envVars
  PROVE  StepFits
<1>1. /\ Runs(b) /\ Stops({b}) /\ troubled' = troubled \cup Working
      /\ events \in Nat /\ events < MaxEvents /\ events' = events + 1
      /\ UNCHANGED <<disk, floci, loaded, proc, substrate, foreign, image, scars, left, declared, landed,
                     pods, plan>>
  BY Stopping DEF Typed, Kill, Happens, worldVars, envVars
<1>2. Typed'
  BY <1>1, PlatformAssumption DEF Typed, Stops, Working
<1>3. StagesFit' /\ PassFits' /\ NetsFit' /\ ProxyFits'
  BY <1>1 DEF StagesFit, At, PassFits, Full, NetsFit, Stops, Working, InHand, ProxyFits, Runs, Boxes,
              Composed
<1>4. HomeFits' /\ ClusterFits'
  BY <1>1 DEF HomeFits, At, Stops, Exists, Boxes, Composed, Spawned, Databases, Graphs, ClusterFits, Runs
<1>5. StartFits'
  BY <1>1 DEF StartFits, At, Working, PastRepair, PastHealth, Bootstrapping
<1>6. ASSUME "unasked" \notin Faults, ServiceInv
      PROVE  ServiceInv' /\ FailsStep /\ PortStep
  <2>1. ServedFits /\ RoutesFit /\ EnvFits /\ RefreshFits
    BY <1>6 DEF ServiceInv
  <2>2. ServedFits' /\ RoutesFit' /\ EnvFits' /\ RefreshFits' /\ FailsStep /\ PortStep
    BY <1>1, <2>1 DEF ServedFits, At, Working, EnvStages, RoutesFit, EnvFits, RefreshFits, FailsStep,
                      PortStep
  <2> QED
    BY <2>2 DEF ServiceInv
<1> QED
  BY <1>2, <1>3, <1>4, <1>5, <1>6 DEF StepFits, PlatformInv

\* Floci's data is deleted.
LEMMA WipeDataKeeps ==
  ASSUME Typed, StagesFit, PassFits, NetsFit, ProxyFits, HomeFits, ClusterFits, StartFits,
         WipeData, UNCHANGED envVars
  PROVE  StepFits
<1>1. /\ Working = {} /\ Cuts({"floci"}) /\ floci' = Kept
      /\ events \in Nat /\ events < MaxEvents /\ events' = events + 1
      /\ scars' = scars \cup (IF disk.boot THEN {"home"} ELSE {})
      /\ UNCHANGED <<disk, loaded, proc, substrate, foreign, image, troubled, left, declared, landed,
                     pods, plan>>
  BY Stopping DEF Typed, WipeData, Happens, worldVars, envVars
<1>2. Typed'
  BY <1>1, EachFits, PlatformAssumption DEF Typed, Cuts, Kept
<1>3. StagesFit' /\ PassFits' /\ ClusterFits' /\ StartFits'
  BY <1>1 DEF StagesFit, At, PassFits, Full, HomeFits, ClusterFits, StartFits, Working, PastRepair,
              PastHealth, Bootstrapping
<1>4. NetsFit'
  BY <1>1 DEF NetsFit, Working, Cuts, InHand, Boxes, Composed, Spawned, Databases, Graphs
<1>5. ProxyFits'
  BY <1>1 DEF ProxyFits, At, Cuts, Runs, Boxes, Composed, Spawned, Databases, Graphs
<1>6. HomeFits'
  BY <1>1 DEF HomeFits, At, Working, Cuts, Kept, Boxes, NewFloci, Exists, Databases, Graphs,
              Bootstrapping, Composed, Spawned
<1>7. ASSUME "unasked" \notin Faults, ServiceInv
      PROVE  ServiceInv' /\ FailsStep /\ PortStep
  <2>1. ServedFits /\ RoutesFit /\ EnvFits /\ RefreshFits
    BY <1>7 DEF ServiceInv
  <2>2. ServedFits' /\ RoutesFit' /\ EnvFits' /\ RefreshFits' /\ FailsStep /\ PortStep
    BY <1>1, <2>1 DEF ServedFits, At, Working, EnvStages, RoutesFit, EnvFits, RefreshFits, FailsStep,
                      PortStep
  <2> QED
    BY <2>2 DEF ServiceInv
<1> QED
  BY <1>2, <1>3, <1>4, <1>5, <1>6, <1>7 DEF StepFits, PlatformInv

\* Another program takes a port.
LEMMA TakenKeeps ==
  ASSUME Typed, StagesFit, PassFits, NetsFit, ProxyFits, HomeFits, ClusterFits, StartFits,
         NEW q \in Ports, Taken(q), UNCHANGED envVars
  PROVE  StepFits
<1>1. /\ q \notin Busy /\ foreign' = foreign \cup {q} /\ troubled' = troubled \cup Working
      /\ events \in Nat /\ events < MaxEvents /\ events' = events + 1
      /\ UNCHANGED <<box, disk, floci, loaded, proc, substrate, image, scars, left, declared, landed,
                     pods, plan>>
  BY DEF Typed, Taken, Happens, platformVars, envVars
<1>2. Typed'
  BY <1>1, PlatformAssumption DEF Typed, Working
<1>3. StagesFit' /\ PassFits' /\ NetsFit' /\ ProxyFits' /\ HomeFits' /\ ClusterFits' /\ StartFits'
  BY <1>1 DEF StagesFit, At, PassFits, Full, NetsFit, Runs, ProxyFits, Busy, HomeFits, Exists,
              ClusterFits, StartFits, Working, PastRepair, PastHealth, Bootstrapping
<1>4. ASSUME "unasked" \notin Faults, ServiceInv
      PROVE  ServiceInv' /\ FailsStep /\ PortStep
  <2>1. ServedFits /\ RoutesFit /\ EnvFits /\ RefreshFits
    BY <1>4 DEF ServiceInv
  <2>2. ServedFits' /\ RoutesFit' /\ EnvFits' /\ RefreshFits' /\ FailsStep /\ PortStep
    BY <1>1, <2>1 DEF ServedFits, At, Working, EnvStages, RoutesFit, EnvFits, RefreshFits, FailsStep,
                      PortStep
  <2> QED
    BY <2>2 DEF ServiceInv
<1> QED
  BY <1>2, <1>3, <1>4 DEF StepFits, PlatformInv

\* Another image is configured.
LEMMA BumpKeeps ==
  ASSUME Typed, StagesFit, PassFits, NetsFit, ProxyFits, HomeFits, ClusterFits, StartFits,
         Bump, UNCHANGED envVars
  PROVE  StepFits
<1>1. /\ image' = image + 1 /\ troubled' = troubled \cup Working
      /\ events \in Nat /\ events < MaxEvents /\ events' = events + 1
      /\ UNCHANGED <<box, disk, floci, loaded, proc, substrate, foreign, scars, left, declared, landed,
                     pods, plan>>
  BY DEF Typed, Bump, Happens, platformVars, envVars
<1>2. Typed'
  BY <1>1, PlatformAssumption DEF Typed, Working
<1>3. StagesFit' /\ PassFits' /\ NetsFit' /\ ProxyFits' /\ HomeFits' /\ ClusterFits' /\ StartFits'
  BY <1>1 DEF StagesFit, At, PassFits, Full, NetsFit, Runs, ProxyFits, HomeFits, Exists, ClusterFits,
              StartFits, Working, PastRepair, PastHealth, Bootstrapping
<1>4. ASSUME "unasked" \notin Faults, ServiceInv
      PROVE  ServiceInv' /\ FailsStep /\ PortStep
  <2>1. ServedFits /\ RoutesFit /\ EnvFits /\ RefreshFits
    BY <1>4 DEF ServiceInv
  <2>2. ServedFits' /\ RoutesFit' /\ EnvFits' /\ RefreshFits' /\ FailsStep /\ PortStep
    BY <1>1, <2>1 DEF ServedFits, At, Working, EnvStages, RoutesFit, EnvFits, RefreshFits, FailsStep,
                      PortStep
  <2> QED
    BY <2>2 DEF ServiceInv
<1> QED
  BY <1>2, <1>3, <1>4 DEF StepFits, PlatformInv

\* A node of the substrate lands.
LEMMA LandsBoxKeeps ==
  ASSUME Typed, StagesFit, PassFits, NetsFit, ProxyFits, HomeFits, ClusterFits, StartFits,
         NEW p \in Procs, NEW n \in Nodes, n \in Todo, n \in Substrate \/ Todo \cap Substrate = {},
         LandsBox(p, n)
  PROVE  StepFits
<1>1. Typed'
  BY DEF Typed, LandsBox, Lands, Built, Touches, Planned, Todo, PassFits
<1>2. StagesFit' /\ PassFits'
  BY DEF StagesFit, At, LandsBox, Lands, PassFits, Planned, Full
<1>3. NetsFit'
  BY DEF NetsFit, At, LandsBox, Substrate, Lands, Built, Touches, InHand, Runs, EnvJobs, EnvStages,
         StagesFit
<1>4. ProxyFits'
  BY DEF ProxyFits, At, LandsBox, Lands, Built, Touches, Runs, Boxes, Composed, Spawned, Databases, Graphs
<1>5. HomeFits'
  BY DEF HomeFits, At, LandsBox, Lands, Built, Touches, Exists, Boxes, Composed, Spawned, Databases,
         Graphs, EnvStages
<1>6. ClusterFits'
  BY DEF ClusterFits, At, LandsBox, Lands, Built, Touches, Exists, Boxes, Spawned, Databases, Graphs
<1>7. StartFits'
  BY DEF StartFits, At, LandsBox, Substrate, Lands, Touches, Runs, Whole, Reachable, Boxes, Composed,
         Spawned, Databases, Graphs
<1>8. ASSUME "unasked" \notin Faults, ServiceInv
      PROVE  ServiceInv' /\ FailsStep /\ PortStep
  <2>1. ServedFits /\ RoutesFit /\ EnvFits /\ RefreshFits
    BY <1>8 DEF ServiceInv
  <2>2. ServedFits'
    BY <2>1 DEF ServedFits, At, LandsBox, Substrate, Lands, Touches, Runs, Whole, Reachable, Boxes,
                Composed, Spawned, Databases, Graphs
  <2>3. RoutesFit' /\ FailsStep /\ PortStep
    BY <2>1 DEF RoutesFit, At, LandsBox, Lands, Built, Touches, Boxes, Composed, FailsStep, PortStep
  <2>4. EnvFits'
    BY <2>1 DEF EnvFits, At, LandsBox, Lands, Built, Touches, Planned, Exists, Runs, Full, ClusterRuns,
                ClusterComes, Todo, Landed, EnvJobs, Boxes, Composed, Spawned, Databases, Graphs,
                EnvStages, StagesFit
  <2>5. RefreshFits'
    BY <2>1 DEF RefreshFits, LandsBox, StagesFit, PassFits, Lands, EnvStages, Planned
  <2> QED
    BY <2>2, <2>3, <2>4, <2>5 DEF ServiceInv
<1> QED
  BY <1>1, <1>2, <1>3, <1>4, <1>5, <1>6, <1>7, <1>8 DEF StepFits, PlatformInv

\* Another node lands.
LEMMA LandsRestKeeps ==
  ASSUME Typed, StagesFit, PassFits, NetsFit, ProxyFits, HomeFits, ClusterFits, StartFits,
         NEW p \in Procs, NEW n \in Nodes, n \in Todo, n \in Substrate \/ Todo \cap Substrate = {},
         LandsRest(p, n)
  PROVE  StepFits
<1>1. Typed'
  BY LandsTyped
<1>2. StagesFit' /\ PassFits' /\ NetsFit' /\ ProxyFits' /\ StartFits'
  BY DEF StagesFit, At, LandsRest, Lands, PassFits, Planned, Full, NetsFit, Runs, ProxyFits, StartFits,
         Reachable, Whole
<1>3. HomeFits' /\ ClusterFits'
  BY DEF HomeFits, At, LandsRest, Lands, Exists, Databases, Graphs, EnvStages, ClusterFits
<1>4. ASSUME "unasked" \notin Faults, ServiceInv
      PROVE  ServiceInv' /\ FailsStep /\ PortStep
  <2>1. ServedFits /\ RoutesFit /\ EnvFits /\ RefreshFits
    BY <1>4 DEF ServiceInv
  <2>2. ServedFits' /\ RoutesFit' /\ FailsStep /\ PortStep
    BY <2>1 DEF ServedFits, At, LandsRest, Lands, Runs, Reachable, Whole, RoutesFit, EnvJobs, EnvStages,
                StagesFit, FailsStep, PortStep
  <2>3. EnvFits'
    BY <2>1 DEF EnvFits, At, LandsRest, Lands, Planned, Exists, Runs, Full, ClusterRuns, ClusterComes,
                Todo, Landed
  <2>4. RefreshFits'
    BY <2>1 DEF RefreshFits, At, LandsRest, Lands, EnvStages, Whole, Runs, RouterPorts, EnvJobs, Planned,
                Reachable, StagesFit
  <2> QED
    BY <2>2, <2>3, <2>4 DEF ServiceInv
<1> QED
  BY <1>1, <1>2, <1>3, <1>4 DEF StepFits, PlatformInv

\* A node cannot be deployed.
LEMMA LandsNotKeeps ==
  ASSUME Typed, StagesFit, PassFits, NetsFit, ProxyFits, HomeFits, ClusterFits, StartFits,
         NEW p \in Procs, NEW n \in Nodes, n \in Todo, n \in Substrate \/ Todo \cap Substrate = {},
         LandsNot(p, n)
  PROVE  StepFits
<1>1. Typed'
  BY EachFits DEF Typed, LandsNot, Walks
<1>2. StagesFit'
  BY DEF StagesFit, At, LandsNot, Walks, StartStages, StopStages, EnvStages, EnvStopStages, PastRepair,
         PastHealth, Bootstrapping
<1>3. PassFits'
  BY DEF PassFits, At, LandsNot, Walks, Full, StartStages, PastRepair, PastHealth, Bootstrapping
<1>4. NetsFit' /\ ProxyFits'
  BY DEF NetsFit, At, LandsNot, Walks, InHand, Runs, ProxyFits, EnvStages
<1>5. HomeFits' /\ ClusterFits'
  BY DEF HomeFits, At, LandsNot, Walks, Exists, EnvStages, Bootstrapping, ClusterFits
<1>6. StartFits'
  BY DEF StartFits, At, LandsNot, Walks, Runs, Reachable, Whole, PastRepair, PastHealth, Bootstrapping
<1>7. ASSUME "unasked" \notin Faults, ServiceInv
      PROVE  ServiceInv' /\ FailsStep /\ PortStep
  <2>1. ServedFits /\ RoutesFit /\ EnvFits /\ RefreshFits
    BY <1>7 DEF ServiceInv
  <2>2. ServedFits' /\ RoutesFit' /\ EnvFits' /\ RefreshFits' /\ PortStep
    BY <2>1 DEF ServedFits, At, LandsNot, Walks, EnvJobs, EnvStages, StagesFit, RoutesFit, EnvFits,
                RefreshFits, PortStep
  <2>3. FailsStep
    BY <2>1, LandsCaused
  <2> QED
    BY <2>2, <2>3 DEF ServiceInv
<1> QED
  BY <1>1, <1>2, <1>3, <1>4, <1>5, <1>6, <1>7 DEF StepFits, PlatformInv

\* A new home's database is had on the network.
LEMMA AliasDBKeeps ==
  ASSUME Typed, StagesFit, PassFits, NetsFit, ProxyFits, HomeFits, ClusterFits, StartFits,
         NEW p \in Procs, At(p) = "alias-db", Net(p, "db", "deploy-graph", "failed"), UNCHANGED envVars
  PROVE  StepFits
<1>1. /\ At(p) = "alias-db" /\ Net(p, "db", "deploy-graph", "failed")
      /\ UNCHANGED <<declared, landed, pods, plan>>
  BY DEF envVars
<1>2. /\ At(p) \in InHand("db") /\ "db" \in Databases \cup Graphs /\ "db" \in Boxes
      /\ Looks(p, "db", "deploy-graph", "failed")
  BY <1>1, NetLooks DEF InHand, Databases, Boxes, Spawned, Databases, Graphs
<1>3. Typed'
  BY <1>1, EachFits DEF Typed, Net, Touches, worldVars, budgetVars, NetJoined, NetStarted, NetLeft,
                        NetFound, Walks
<1>4. StagesFit'
  BY <1>1 DEF StagesFit, At, Net, NetJoined, NetStarted, NetLeft, NetFound, Walks, StartStages,
              StopStages, EnvStages, EnvStopStages, PastRepair, PastHealth, Bootstrapping
<1>5. PassFits'
  BY <1>1 DEF PassFits, At, Net, NetJoined, NetStarted, NetLeft, NetFound, Walks, Full, StartStages,
              PastRepair, PastHealth, Bootstrapping
<1>6. NetsFit'
  BY <1>1, <1>2, NetKeepsNets
<1>7. ProxyFits'
  BY <1>1 DEF ProxyFits, Net, Touches, worldVars, NetJoined, NetStarted, NetLeft, NetFound, Boxes, Runs,
              StartStages, Joins, Restarts, Composed, PastRepair, PastHealth, Bootstrapping
<1>8. HomeFits'
  BY <1>1, <1>2 DEF HomeFits, At, Looks, Touches, Exists, Boxes, Composed, Spawned, Graphs, Databases,
                    EnvStages, Bootstrapping
<1>9. ClusterFits'
  BY <1>1 DEF ClusterFits, At, Net, Touches, NetJoined, NetStarted, NetLeft, NetFound, Walks, Exists,
              Boxes, Spawned
<1>10. StartFits'
  <2>1. p \notin troubled /\ At(p)' = "deploy-graph" => Whole("db")'
    BY <1>1, <1>2, NetMakesWhole DEF HomeFits, Bootstrapping
  <2> QED
    BY <1>1, <1>2, <2>1 DEF StartFits, At, Looks, Touches, Runs, Whole, Reachable, PastRepair, PastHealth,
                            Bootstrapping, Boxes, Composed, Spawned, Databases, Graphs
<1>11. ASSUME "unasked" \notin Faults, ServiceInv
      PROVE  ServiceInv' /\ FailsStep /\ PortStep
  <2>1. ServedFits /\ RoutesFit /\ EnvFits /\ RefreshFits
    BY <1>11 DEF ServiceInv
  <2>2. ServedFits'
    BY <1>1, <2>1 DEF At, Net, HomeFits, NetJoined, NetStarted, NetLeft, NetFound, EnvStages,
                      Bootstrapping, Walks, ServedFits
  <2>3. RoutesFit'
    BY <1>1, <2>1 DEF RoutesFit, At, Net, Touches, NetJoined, NetStarted, NetLeft, NetFound, Walks, Boxes,
                      Composed, EnvStages
  <2>4. EnvFits'
    BY <1>1, <1>2, <2>1 DEF EnvFits, At, Looks, Touches, Exists, Runs, Full, ClusterRuns, ClusterComes, Todo,
                      Landed, Boxes, Composed, Spawned, Databases, EnvStages
  <2>5. RefreshFits'
    BY <1>1, <2>1 DEF RefreshFits, At, Net, Touches, NetJoined, NetStarted, NetLeft, NetFound, Walks,
                      Runs, Reachable, Whole, Full, Boxes, Composed, Spawned, Databases, Graphs, EnvStages
  <2>6. FailsStep
    BY <1>1, AliasCaused
  <2>7. PortStep
    BY <1>1 DEF PortStep, Net
  <2> QED
    BY <2>2, <2>3, <2>4, <2>5, <2>6, <2>7 DEF ServiceInv
<1> QED
  BY <1>3, <1>4, <1>5, <1>6, <1>7, <1>8, <1>9, <1>10, <1>11 DEF StepFits, PlatformInv

\* And its graph.
LEMMA AliasGraphKeeps ==
  ASSUME Typed, StagesFit, PassFits, NetsFit, ProxyFits, HomeFits, ClusterFits, StartFits,
         NEW p \in Procs, At(p) = "alias-graph", Net(p, "graph", "deploy-services", "deploy-services"),
         UNCHANGED envVars
  PROVE  StepFits
<1>1. /\ At(p) = "alias-graph" /\ Net(p, "graph", "deploy-services", "deploy-services")
      /\ UNCHANGED <<declared, landed, pods, plan>>
  BY DEF envVars
<1>2. /\ At(p) \in InHand("graph") /\ "graph" \in Databases \cup Graphs /\ "graph" \in Boxes
      /\ Looks(p, "graph", "deploy-services", "deploy-services")
  BY <1>1, NetLooks DEF InHand, Graphs, Boxes, Spawned, Databases, Graphs
<1>3. Typed'
  BY <1>1, EachFits DEF Typed, Net, Touches, worldVars, budgetVars, NetJoined, NetStarted, NetLeft,
                        NetFound, Walks
<1>4. StagesFit'
  BY <1>1 DEF StagesFit, At, Net, NetJoined, NetStarted, NetLeft, NetFound, Walks, StartStages,
              StopStages, EnvStages, EnvStopStages, PastRepair, PastHealth, Bootstrapping
<1>5. PassFits'
  BY <1>1 DEF PassFits, At, Net, NetJoined, NetStarted, NetLeft, NetFound, Walks, Full, StartStages,
              PastRepair, PastHealth, Bootstrapping
<1>6. NetsFit'
  BY <1>1, <1>2, NetKeepsNets
<1>7. ProxyFits'
  BY <1>1, <1>2 DEF ProxyFits, At, Looks, Touches, Runs, StartStages, EnvStages, Boxes, Composed, Databases,
                    Graphs, PastRepair, PastHealth, Bootstrapping
<1>8. HomeFits'
  BY <1>1, <1>2 DEF HomeFits, At, Looks, Touches, Exists, Boxes, Composed, Spawned, Graphs, Databases,
                    EnvStages, Bootstrapping
<1>9. ClusterFits'
  BY <1>1 DEF ClusterFits, At, Net, Touches, NetJoined, NetStarted, NetLeft, NetFound, Walks, Exists,
              Boxes, Spawned
<1>10. StartFits'
  <2>1. p \notin troubled /\ At(p)' = "deploy-services" => Whole("graph")'
    BY <1>1, <1>2, NetMakesWhole DEF HomeFits, Bootstrapping
  <2> QED
    BY <1>1, <1>2, <2>1 DEF StartFits, At, Looks, Touches, Runs, Whole, Reachable, PastRepair, PastHealth,
                            Bootstrapping, Boxes, Composed, Spawned, Databases, Graphs
<1>11. ASSUME "unasked" \notin Faults, ServiceInv
      PROVE  ServiceInv' /\ FailsStep /\ PortStep
  <2>1. ServedFits /\ RoutesFit /\ EnvFits /\ RefreshFits
    BY <1>11 DEF ServiceInv
  <2>2. ServedFits'
    BY <1>1, <2>1 DEF At, Net, HomeFits, NetJoined, NetStarted, NetLeft, NetFound, EnvStages,
                      Bootstrapping, Walks, ServedFits
  <2>3. RoutesFit'
    BY <1>1, <2>1 DEF RoutesFit, At, Net, Touches, NetJoined, NetStarted, NetLeft, NetFound, Walks, Boxes,
                      Composed, EnvStages
  <2>4. EnvFits'
    BY <1>1, <1>2, <2>1 DEF EnvFits, At, Looks, Touches, Exists, Runs, Full, ClusterRuns, ClusterComes, Todo,
                      Landed, Boxes, Composed, Spawned, Databases, Graphs, EnvStages
  <2>5. RefreshFits'
    BY <1>1, <1>2, <2>1 DEF RefreshFits, At, Looks, Touches, Runs, Reachable, Whole, Full, Boxes, Composed,
                            Spawned, Databases, Graphs, EnvStages
  <2>6. FailsStep /\ PortStep
    BY <1>1, <2>1 DEF FailsStep, At, Net, NetJoined, NetStarted, NetLeft, NetFound, Walks, PortStep
  <2> QED
    BY <2>2, <2>3, <2>4, <2>5, <2>6 DEF ServiceInv
<1> QED
  BY <1>3, <1>4, <1>5, <1>6, <1>7, <1>8, <1>9, <1>10, <1>11 DEF StepFits, PlatformInv
-----------------------------------------------------------------------------
(* The first state, and a step that changes nothing *)

\* The first state is of the invariant: no command is given, and every container, route and
\* record of the home is as an earlier start or stop left it.
LEMMA InitFits == Init => IInv
<1> SUFFICES ASSUME Init PROVE IInv
  OBVIOUS
<1>1. PICK w \in {"absent", "exited", "running"} :
        /\ landed = IF w = "absent" THEN {} ELSE declared
        /\ box = [b \in Boxes |-> IF w = "absent" THEN Absent ELSE World(b, w)]
        /\ disk = [boot |-> w # "absent", port |-> Min(Ports),
                   frag |-> CASE w = "absent" -> {} [] w = "exited" -> {"floci", "services"}
                              [] OTHER -> Routes]
        /\ floci = IF w = "absent" THEN NewFloci
                   ELSE [built |-> {"db", "graph", "services"} \cup (declared \cap Spawned),
                         gateways |-> {"dbaccount", "deployed"}]
  BY DEF Init
<1>2. /\ \A p \in Procs : At(p) = "idle" /\ proc[p].job = "none" /\ proc[p].half = "no"
      /\ substrate = {} /\ troubled = {} /\ scars = {} /\ foreign = {} /\ loaded = disk.frag
      /\ plan = NoPlan /\ Typed
  BY InitTyped DEF Init, Idle, At
<1>3. ASSUME NEW b \in Boxes
      PROVE  /\ ~box[b].cut
             /\ w = "absent" => ~Exists(b) /\ box[b].net = "bare"
             /\ w # "absent" => box[b].st \in {w, "absent"}
             /\ box[b].net \in {"bare", "aliased"}
             /\ box[b].net = "aliased" => b \in Databases \cup Graphs \cup {"proxy"}
             /\ w # "absent" /\ b \in {"db", "graph", "env-db"} => Exists(b)
             /\ w # "absent" /\ b = "env-graph" /\ b \in declared => Exists(b)
  <2>1. box[b] = IF w = "absent" THEN Absent ELSE World(b, w)
    BY <1>1
  <2>2. b \in {"floci", "proxy", "db", "env-db", "graph", "env-graph", "cluster", "router"}
    BY DEF Boxes, Composed, Spawned, Databases, Graphs
  <2> QED
    BY <2>1, <2>2 DEF World, Made, Absent, Exists, Databases, Graphs
<1>4. StagesFit
  BY <1>2 DEF StagesFit, EnvJobs, StartStages, StopStages, EnvStages, EnvStopStages, PastRepair,
              PastHealth, Bootstrapping
<1>5. PassFits
  BY <1>2 DEF PassFits, NoPlan
<1>6. NetsFit
  BY <1>2, <1>3 DEF NetsFit
<1>7. ProxyFits
  <2>1. Runs("proxy") => "floci" \in disk.frag
    BY <1>1, <1>3 DEF Runs, Exists, Boxes, Composed, Routes
  <2> QED
    BY <1>2, <1>3, <2>1 DEF ProxyFits, StartStages, EnvStages, PastRepair, PastHealth, Bootstrapping,
                            Boxes, Composed, Spawned
<1>8. HomeFits
  <2>1. disk.boot <=> w # "absent"
    BY <1>1
  <2>2. /\ disk.boot => Exists("db") /\ Exists("graph") /\ "services" \in floci.built
        /\ ~disk.boot => landed = {} /\ floci.built = {}
    BY <1>1, <1>3, <2>1 DEF NewFloci, Boxes, Spawned, Databases, Graphs
  <2>3. \A b \in Databases \cup Graphs : b \in floci.built \cup landed => Exists(b)
    <3>1. CASE w = "absent"
      BY <2>1, <2>2, <3>1
    <3>2. CASE w # "absent"
      <4>1. floci.built = {"db", "graph", "services"} \cup (declared \cap Spawned) /\ landed = declared
        BY <1>1, <3>2
      <4> QED
        BY <1>3, <3>2, <4>1 DEF Boxes, Spawned, Databases, Graphs
    <3> QED
      BY <3>1, <3>2
  <2> QED
    BY <1>2, <1>3, <2>2, <2>3 DEF HomeFits, EnvStages, Bootstrapping, Boxes, Composed
<1>9. ClusterFits
  BY <1>1 DEF ClusterFits, Spawned
<1>10. StartFits
  BY <1>2 DEF StartFits, PastRepair, PastHealth, Bootstrapping
<1>11. ServiceInv
  BY <1>2 DEF ServiceInv, ServedFits, RoutesFit, EnvFits, RefreshFits, EnvStages
<1> QED
  BY <1>2, <1>4, <1>5, <1>6, <1>7, <1>8, <1>9, <1>10, <1>11 DEF IInv, PlatformInv

\* A step that changes nothing changes none of it.
LEMMA Stutters ==
  ASSUME Typed, StagesFit, PassFits, NetsFit, ProxyFits, HomeFits, ClusterFits, StartFits, UNCHANGED vars
  PROVE  StepFits
<1>1. UNCHANGED <<box, disk, floci, loaded, foreign, image, proc, substrate, troubled, scars, left, events,
                  declared, landed, pods, plan>>
  BY DEF vars, platformVars, worldVars, historyVars, budgetVars, envVars
<1>2. Typed' /\ StagesFit' /\ PassFits'
  BY <1>1 DEF Typed, StagesFit, PassFits, At, Full
<1>3. NetsFit' /\ ProxyFits' /\ HomeFits' /\ ClusterFits'
  BY <1>1 DEF NetsFit, ProxyFits, HomeFits, ClusterFits, At, Runs, Exists
<1>4. StartFits'
  BY <1>1 DEF StartFits, At, Runs, Whole, Reachable
<1>5. ASSUME ServiceInv
      PROVE  ServiceInv' /\ FailsStep /\ PortStep
  <2>1. ServedFits /\ RoutesFit /\ EnvFits /\ RefreshFits
    BY <1>5 DEF ServiceInv
  <2>2. ServedFits' /\ RoutesFit'
    BY <1>1, <2>1 DEF ServedFits, RoutesFit, At, Runs, Whole, Reachable
  <2>3. EnvFits'
    BY <1>1, <2>1 DEF EnvFits, Landed, At, Runs, Exists, ClusterRuns, ClusterComes, Todo, Full
  <2>4. RefreshFits'
    BY <1>1, <2>1 DEF RefreshFits, At, Runs, Whole, Reachable, Full
  <2> QED
    BY <1>1, <2>2, <2>3, <2>4 DEF ServiceInv, FailsStep, PortStep, At
<1> QED
  BY <1>2, <1>3, <1>4, <1>5 DEF StepFits, PlatformInv

\* Every step keeps the invariant.
LEMMA NextFits ==
  ASSUME PlatformInv, [Next]_vars
  PROVE  StepFits
<1>1. Typed /\ StagesFit /\ PassFits /\ NetsFit /\ ProxyFits /\ HomeFits /\ ClusterFits /\ StartFits
  BY DEF PlatformInv
<1>2. ASSUME NEW p \in Procs, NEW job \in {"start", "stop"} \cup EnvJobs, Give(p, job)
      PROVE  StepFits
  BY <1>1, <1>2, GiveKeeps
<1>3. ASSUME NEW p \in Procs, Start(p), UNCHANGED envVars
      PROVE  StepFits
  <2>1. CASE Bootstrap(p)
    <3>1. BootDeploys(p) \/ BootNets(p)
      BY <1>1, <2>1, Bootstraps
    <3>2. CASE BootNets(p)
      BY <1>1, <1>3, <3>2, AliasDBKeeps, AliasGraphKeeps DEF BootNets
    <3> QED
      BY <1>1, <1>3, <3>1, <3>2, BootDeploysKeeps
  <2>2. CASE Begin(p) \/ ChoosePorts(p) \/ UpFloci(p) \/ UpProxy(p) \/ Repair(p) \/ Recreate(p)
    BY <1>1, <1>3, <2>2, BeginKeeps, ChoosePortsKeeps, UpFlociKeeps, UpProxyKeeps, RepairKeeps,
       RecreateKeeps
  <2>3. CASE WaitForHealth(p) \/ EnsureDB(p) \/ EnsureGraph(p) \/ CheckStorage(p)
    BY <1>1, <1>3, <2>3, WaitForHealthKeeps, EnsureDBKeeps, EnsureGraphKeeps, CheckStorageKeeps
  <2>4. CASE MarkBootstrapped(p) \/ WriteRoutes(p)
    BY <1>1, <1>3, <2>4, MarkKeeps, WriteRoutesKeeps
  <2> QED
    BY <1>3, <2>1, <2>2, <2>3, <2>4 DEF Start
<1>4. ASSUME NEW p \in Procs, Stop(p) \/ StartWarns(p), UNCHANGED envVars
      PROVE  StepFits
  BY <1>1, <1>4, BeginStopKeeps, StopSpawnedKeeps, StopComposedKeeps, StartWarnsKeeps DEF Stop
<1>5. ASSUME NEW p \in Procs, Ready(p) \/ Gone(p) \/ EnvWarns(p) \/ EnvCutOff(p)
      PROVE  StepFits
  BY <1>1, <1>5, ReadyKeeps, GoneKeeps, EnvWarnsKeeps, EnvCutOffKeeps
<1>6. ASSUME NEW p \in Procs, EnvStart(p)
      PROVE  StepFits
  <2>1. CASE EnvHealth(p) \/ EnsureEnvDB(p) \/ EnsureEnvGraph(p) \/ Reconcile(p) \/ Clear(p)
    BY <1>1, <2>1, EnvHealthKeeps, EnsureEnvDBKeeps, EnsureEnvGraphKeeps, ReconcileKeeps, ClearKeeps
  <2>2. CASE EnsureK3s(p) \/ StartCluster(p) \/ Expose(p) \/ Alias(p) \/ Verify(p)
    BY <1>1, <2>2, EnsureK3sKeeps, StartClusterKeeps, ExposeKeeps, AliasKeeps, VerifyKeeps
  <2>3. CASE EnsureDBAccount(p) \/ RefreshRoutes(p) \/ Applied(p)
    BY <1>1, <2>3, EnsureDBAccountKeeps, RefreshRoutesKeeps, AppliedKeeps
  <2>4. ASSUME NEW n \in Nodes, Deploy(p, n)
        PROVE  StepFits
    BY <1>1, <2>4, EnvDeploys, LandsBoxKeeps, LandsRestKeeps, LandsNotKeeps
  <2> QED
    BY <1>6, <2>1, <2>2, <2>3, <2>4 DEF EnvStart
<1>7. ASSUME NEW p \in Procs, EnvStop(p)
      PROVE  StepFits
  BY <1>1, <1>7, UnrouteKeeps, StopBoxKeeps DEF EnvStop
<1>8. CASE EnvWipe
  BY <1>1, <1>8, EnvWipeKeeps
<1>9. CASE Trouble
  BY <1>1, <1>9, KillKeeps, WipeDataKeeps, TakenKeeps, BumpKeeps DEF Trouble
<1>10. CASE UNCHANGED vars
  BY <1>1, <1>10, Stutters
<1> QED
  BY <1>2, <1>3, <1>4, <1>5, <1>6, <1>7, <1>8, <1>9, <1>10 DEF Next
-----------------------------------------------------------------------------
(* The theorems *)

\* The invariant's first part holds whatever goes wrong: what containers, home, Floci, proxy and
\* the commands under way make of each other.
THEOREM PlatformHolds == Spec => []PlatformInv
<1>1. Init => PlatformInv
  BY InitFits DEF IInv
<1>2. PlatformInv /\ [Next]_vars => PlatformInv'
  BY NextFits DEF StepFits
<1> QED
  BY <1>1, <1>2, PTL DEF Spec

\* A set whose members are all the same has at most one.
LEMMA AtMostOne ==
  ASSUME NEW T, \A x, y \in T : x = y
  PROVE  Cardinality(T) <= 1
<1>1. CASE T = {}
  BY <1>1, FS_EmptySet
<1>2. CASE T # {}
  <2>1. PICK x : T = {x}
    BY <1>2
  <2>2. Cardinality(T) = 1
    BY <2>1, FS_Singleton
  <2> QED
    BY <2>2
<1> QED
  BY <1>1, <1>2

\* Types, and the locks: never two commands in the substrate, never two on the environment.
THEOREM LocksHold == Spec => []TypeOK
<1>1. PlatformInv => TypeOK
  <2> SUFFICES ASSUME PlatformInv PROVE TypeOK
    OBVIOUS
  <2>1. Typed /\ StagesFit
    BY DEF PlatformInv
  <2>2. Cardinality(substrate) <= 1
    BY <2>1, AtMostOne DEF StagesFit
  <2>3. Cardinality({p \in Procs : proc[p].job \in EnvJobs}) <= 1
    BY <2>1, AtMostOne DEF StagesFit
  <2>4. \A b \in Boxes : /\ box[b].st \in {"absent", "exited", "running"} /\ box[b].config \in Nat
                         /\ box[b].net \in {"bare", "off", "aliased", "moved"} /\ box[b].cut \in BOOLEAN
    BY <2>1 DEF Typed, Containers
  <2>5. disk.boot \in BOOLEAN /\ disk.port \in Ports /\ disk.frag \subseteq Routes
    BY <2>1 DEF Typed, Homes
  <2>6. plan.marked \subseteq Substrate /\ plan.fatal \in BOOLEAN
    BY <2>1 DEF Typed, Plans
  <2>7. PlatformTypeOK
    BY <2>1, <2>2, <2>4, <2>5, Shapes DEF PlatformTypeOK
  <2> QED
    BY <2>1, <2>3, <2>6, <2>7, Shapes DEF TypeOK
<1> QED
  BY <1>1, PlatformHolds, PTL

\* "Control plane ready." is true, after whatever history, when nothing went wrong during the
\* start that says it.
THEOREM ReadyIsTrue == Spec => []ReadyServes
<1>1. PlatformInv => ReadyServes
  <2> SUFFICES ASSUME PlatformInv, NEW p \in Procs \ troubled, At(p) = "ready"
               PROVE  /\ Runs("floci") /\ ~box["floci"].cut /\ box["floci"].config = image
                      /\ Runs("proxy") /\ box["proxy"].config = disk.port
                      /\ disk.boot /\ box["proxy"].net # "off"
                      /\ {"proxy", "home"} \cap scars # {} \/ {"floci", "services"} \subseteq loaded
                      /\ Whole("db") /\ Whole("graph")
    BY DEF ReadyServes
  <2>1. StartFits /\ ProxyFits /\ HomeFits
    BY DEF PlatformInv
  <2>2. /\ Runs("floci") /\ ~box["floci"].cut /\ box["floci"].config = image
        /\ Runs("proxy") /\ box["proxy"].config = disk.port /\ box["proxy"].net # "off"
        /\ Whole("db") /\ Whole("graph")
        /\ {"proxy", "home"} \cap scars # {} \/ "services" \in loaded
    BY <2>1 DEF StartFits, PastRepair, PastHealth
  <2>3. "proxy" \in scars \/ "floci" \in loaded
    BY <2>1, <2>2 DEF ProxyFits
  <2>4. disk.boot
    BY <2>1 DEF HomeFits
  <2> QED
    BY <2>2, <2>3, <2>4
<1> QED
  BY <1>1, PlatformHolds, PTL

\* The whole invariant, where the engine can always say which ports are ours.
THEOREM InvariantHolds == "unasked" \notin Faults => (Spec => []IInv)
<1> SUFFICES ASSUME "unasked" \notin Faults PROVE Spec => []IInv
  OBVIOUS
<1>1. Init => IInv
  BY InitFits
<1>2. IInv /\ [Next]_vars => IInv'
  BY NextFits DEF StepFits, IInv
<1> QED
  BY <1>1, <1>2, PTL DEF Spec

\* "Ready." of an environment is true likewise: cluster, router, routes, database, graph and
\* all that is declared.
THEOREM EnvReadyIsTrue == "unasked" \notin Faults => (Spec => []EnvReadyServes)
<1> SUFFICES ASSUME "unasked" \notin Faults PROVE Spec => []EnvReadyServes
  OBVIOUS
<1>1. IInv => EnvReadyServes
  <2> SUFFICES ASSUME IInv, NEW p \in Procs \ troubled, At(p) = "env-ready", "home" \notin scars
               PROVE  /\ declared \subseteq landed /\ Whole("env-db")
                      /\ "env-graph" \in declared => Whole("env-graph")
                      /\ Full =>
                           /\ "cluster" \in scars
                                \/ (Runs("cluster") /\ box["cluster"].config = box["floci"].config)
                           /\ {"cluster", "router"} \cap scars # {}
                                \/ (Runs("router") /\ box["router"].config = RouterPorts(pods)
                                      /\ ~box["router"].cut)
                           /\ pods /\ "cluster" \notin scars => box["proxy"].net = "aliased"
                      /\ "proxy" \in scars \/ floci.gateways \subseteq loaded
    BY DEF EnvReadyServes
  <2>1. StagesFit /\ PassFits /\ ProxyFits /\ RoutesFit /\ EnvFits /\ RefreshFits
    BY DEF IInv, PlatformInv, ServiceInv
  <2>2. At(p) \in EnvStages /\ proc[p].job = "env-start" /\ plan.pass = "refresh"
    BY <2>1 DEF StagesFit, PassFits, EnvStages
  <2>3. Todo = {} /\ declared \subseteq landed
    BY <2>1, <2>2 DEF EnvFits, Landed
  <2>4. Whole("env-db") /\ ("env-graph" \in declared => Whole("env-graph"))
    BY <2>1, <2>2 DEF RefreshFits
  <2>5. Full => "cluster" \in scars \/ ClusterRuns
    BY <2>1, <2>2, <2>3 DEF EnvFits, ClusterComes
  <2>6. Full /\ {"cluster", "router"} \cap scars = {} =>
          Runs("router") /\ box["router"].config = RouterPorts(pods) /\ ~box["router"].cut
    BY <2>1, <2>2 DEF RefreshFits, ProxyFits
  <2>7. Full /\ pods /\ "cluster" \notin scars => box["proxy"].net = "aliased"
    BY <2>1, <2>2 DEF RefreshFits
  <2>8. floci.gateways \subseteq loaded
    BY <2>1, <2>2 DEF RoutesFit
  <2> QED
    BY <2>3, <2>4, <2>5, <2>6, <2>7, <2>8 DEF ClusterRuns
<1> QED
  BY <1>1, InvariantHolds, PTL

\* A start fails only for a cause.
THEOREM FailuresHaveCauses == "unasked" \notin Faults => (Spec => FailsForCause)
<1> SUFFICES ASSUME "unasked" \notin Faults PROVE Spec => FailsForCause
  OBVIOUS
<1>1. IInv /\ [Next]_vars =>
        [\A p \in Procs : At(p) # "failed" /\ At(p)' = "failed" =>
           p \in troubled \/ scars # {} \/ foreign # {}]_vars
  BY NextFits DEF StepFits, FailsStep, IInv
<1> QED
  BY <1>1, InvariantHolds, PTL DEF Spec, FailsForCause

\* The recorded port moves only when another program holds it, or with the home.
THEOREM PortIsKept == "unasked" \notin Faults => (Spec => PortsStay)
<1> SUFFICES ASSUME "unasked" \notin Faults PROVE Spec => PortsStay
  OBVIOUS
<1>1. IInv /\ [Next]_vars => [disk'.port # disk.port => disk.port \in foreign \/ ~disk'.boot]_vars
  BY NextFits DEF StepFits, PortStep, IInv
<1> QED
  BY <1>1, InvariantHolds, PTL DEF Spec, PortsStay
=============================================================================
