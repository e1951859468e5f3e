------------------------ MODULE LeaseCommandsProofs ------------------------
(***************************************************************************)
(* What users gain who keep to their habits: one session each, and an      *)
(* environment nobody else deploys to or stops while they change it.  For  *)
(* any number of agents, nsctl processes and environments.                 *)
(***************************************************************************)
EXTENDS LeaseCommands, LeaseProofs, FiniteSetTheorems

-----------------------------------------------------------------------------
(* The commands use the store as its specification says *)

\* A step of a command is a step of the lease store, or none of its business.
LEMMA CommandIsOperation ==
  ASSUME CommandsFit, [NextCommands]_cvars
  PROVE  [Next]_vars
<1>1. CASE UNCHANGED cvars
  BY <1>1 DEF cvars
<1>2. ASSUME NEW c \in Cmds, NEW E \in SUBSET Envs, Look(c, E)
      PROVE  Next
  BY <1>2 DEF Next, Operation
<1>3. ASSUME NEW c \in Cmds, NEW a \in Agents, FindSession(c, a)
      PROVE  Next
  BY <1>2, <1>3 DEF FindSession, ReadBySessionPID
<1>4. ASSUME NEW c \in Cmds, NEW E \in SUBSET Envs, NEW e \in E, NEW keep \in BOOLEAN,
             TakeSession(c, E, e, keep)
      PROVE  Next
  <2>1. doing[c].agent \in Agents /\ AcquireFromPool(c, doing[c].agent, E, e, "session", keep)
    BY <1>4 DEF TakeSession, CommandsFit
  <2> QED
    BY <2>1 DEF Next, Operation, Kinds
<1>5. ASSUME NEW c \in Cmds, NEW E \in SUBSET Envs, NEW wait \in BOOLEAN,
             TakeNothing(c, E, wait) \/ Inspect(c, E)
      PROVE  Next
  BY <1>2, <1>5 DEF TakeNothing, Inspect
<1>6. ASSUME NEW c \in Cmds, NEW a \in Agents, NEW e \in Envs, TakeRun(c, a, e)
      PROVE  Next
  BY <1>6 DEF TakeRun, Next, Operation, Kinds
<1>7. ASSUME NEW c \in Cmds, NEW a \in Agents, NEW e \in Envs, CheckGuard(c, a, e)
      PROVE  Next
  BY <1>2, <1>7 DEF CheckGuard
<1>8. ASSUME NEW c \in Cmds, ChangeEnds(c)
      PROVE  UNCHANGED vars
  BY <1>8 DEF ChangeEnds
<1>9. ASSUME NEW c \in Cmds, NEW a \in Agents, NEW e \in Envs, NEW session \in BOOLEAN,
             NEW keepRunning \in BOOLEAN, LetGo(c, a, e, session, keepRunning)
      PROVE  Next
  BY <1>9 DEF LetGo, Next, Operation
<1>10. ASSUME NEW c \in Cmds, RunStops(c)
       PROVE  Next
  BY <1>10 DEF Next
<1>11. ASSUME DisturbCommands
       PROVE  Next
  BY <1>11 DEF DisturbCommands, Next, Disturbance
<1> QED
  BY <1>1, <1>3, <1>4, <1>5, <1>6, <1>7, <1>8, <1>9, <1>10, <1>11 DEF NextCommands

-----------------------------------------------------------------------------
(* What a step does to a lease, and to the stops that are owed *)

\* Nobody is given e: what is live on it then is what was live before.
NotGiven(e) ==
  lease'[e].kind \in Kinds /\ ~Dead(e)' => lease'[e] = lease[e] /\ ~Dead(e)

\* Stops come to be owed for nothing but dead sessions.
OwesForDead ==
  \A d \in Cmds : \A s \in stops'[d] : s \in stops[d] \/ Dead(s[1])

\* Whoever holds e with a token is its owner.
LEMMA HoldsIsOwner ==
  ASSUME IInv, NEW a \in Agents, NEW e \in Envs, Holds(a, e)
  PROVE  lease[e].owner = a /\ lease[e].kind \in Kinds /\ ~Dead(e)
<1>1. /\ IsHeld(lease[e]) /\ ~Dead(e) /\ knows[a][e] = lease[e].gen
      /\ gen[e] \in Nat /\ lease[e] \in Leases
  BY DEF Holds, IInv, TypeOK
<1>2. lease[e].gen \in 1 .. gen[e]
  BY <1>1 DEF IInv, FilesFit
<1>3. lease[e].owner = a
  BY <1>1, <1>2 DEF IInv, TokensAreOnes
<1>4. lease[e].kind # "stop"
  BY <1>3, ProcessesAssumption DEF IInv, FilesFit
<1> QED
  BY <1>1, <1>3, <1>4 DEF Leases, IsHeld

\* The stops that c owes after a locked section.
LEMMA OwedForDead ==
  ASSUME TypeOK, NEW c \in Cmds, NEW E \in SUBSET Envs, Owe(c, Ended(E))
  PROVE  OwesForDead
<1>1. /\ stops'[c] = {<<e, gen[e] + 1>> : e \in Ended(E)}
      /\ \A d \in Cmds \ {c} : stops'[d] = stops[d]
  BY DEF Owe, TypeOK
<1> QED
  BY <1>1 DEF OwesForDead, Ended

\* A section that only reads.
LEMMA LookEffect ==
  ASSUME TypeOK, NEW c \in Cmds, NEW E \in SUBSET Envs, Look(c, E)
  PROVE  /\ alive' = alive /\ OwesForDead
         /\ \A e \in Envs : NotGiven(e) /\ (~Dead(e) => lease'[e] = lease[e])
         /\ \A e \in E : lease'[e] = Current(c, e)
<1>1. alive' = alive /\ OwesForDead
  BY OwedForDead DEF Look
<1>2. \A e \in Envs : lease'[e] = IF e \in E THEN Current(c, e) ELSE lease[e]
  BY DEF Look
<1>3. ASSUME NEW e \in Envs
      PROVE  NotGiven(e) /\ (~Dead(e) => lease'[e] = lease[e])
  <2>1. lease'[e] = lease[e] \/ (Dead(e) /\ lease'[e].kind \notin Kinds)
    BY <1>2, CurrentFits DEF Placeholder, Granted, Free, Kinds
  <2> QED
    BY <1>1, <2>1 DEF NotGiven, Dead, Live
<1> QED
  BY <1>1, <1>2, <1>3

\* A section that takes e.
LEMMA GrantEffect ==
  ASSUME TypeOK, NEW c \in Cmds, NEW a \in Agents, NEW E \in SUBSET Envs, NEW e \in E,
         NEW kind \in Kinds, NEW keep \in BOOLEAN, Grant(c, a, E, e, kind, keep)
  PROVE  /\ alive' = alive /\ OwesForDead
         /\ \A x \in Envs \ {e} : NotGiven(x) /\ (~Dead(x) => lease'[x] = lease[x])
         /\ lease'[e].owner = a /\ lease'[e].kind = kind
<1>1. alive' = alive /\ OwesForDead
  BY OwedForDead DEF Grant
<1>2. \A x \in Envs \ {e} : lease'[x] = IF x \in E THEN Current(c, x) ELSE lease[x]
  BY DEF Grant
<1>3. ASSUME NEW x \in Envs \ {e}
      PROVE  NotGiven(x) /\ (~Dead(x) => lease'[x] = lease[x])
  <2>1. lease'[x] = lease[x] \/ (Dead(x) /\ lease'[x].kind \notin Kinds)
    BY <1>2, CurrentFits DEF Placeholder, Granted, Free, Kinds
  <2> QED
    BY <1>1, <2>1 DEF NotGiven, Dead, Live
<1>4. lease'[e].owner = a /\ lease'[e].kind = kind
  BY DEF Grant, Granted
<1> QED
  BY <1>1, <1>3, <1>4

\* A section that lets go of e.
LEMMA ReleaseEffect ==
  ASSUME TypeOK, NEW c \in Cmds, NEW a \in Agents, NEW e \in Envs,
         NEW session, NEW keepRunning, Release(c, a, e, session, keepRunning)
  PROVE  /\ alive' = alive /\ Holds(a, e)
         /\ \A d \in Cmds : \A s \in stops'[d] : s \in stops[d] \/ s[1] = e
         /\ \A x \in Envs : NotGiven(x) /\ (x # e => lease'[x] = lease[x])
<1>1. alive' = alive /\ Holds(a, e)
  BY DEF Release
<1>2. /\ lease'[e] = Free \/ lease'[e] = Placeholder(c, gen[e] + 1)
      /\ \A x \in Envs \ {e} : lease'[x] = lease[x]
  BY DEF Release, TypeOK
<1>3. \A d \in Cmds : \A s \in stops'[d] : s \in stops[d] \/ s[1] = e
  <2>1. PICK S \in {{}, {e}} : Owe(c, S)
    BY DEF Release
  <2>2. /\ stops'[c] = {<<x, gen[x] + 1>> : x \in S}
        /\ \A d \in Cmds \ {c} : stops'[d] = stops[d]
    BY <2>1 DEF Owe, TypeOK
  <2> QED
    BY <2>1, <2>2
<1>4. \A x \in Envs : NotGiven(x)
  BY <1>1, <1>2 DEF NotGiven, Free, Placeholder, Granted, Kinds, Dead, Live
<1> QED
  BY <1>1, <1>2, <1>3, <1>4

\* A stop ends, or gives its environment back.
LEMMA RunStopsEffect ==
  ASSUME TypeOK, NEW c \in Cmds, RunStops(c)
  PROVE  /\ alive' = alive
         /\ \A d \in Cmds : stops'[d] \subseteq stops[d]
         /\ \A x \in Envs :
              /\ NotGiven(x)
              /\ (\A s \in stops[c] : s[1] # x) => lease'[x] = lease[x]
<1>1. PICK e \in Envs : StopEnds(c, e) \/ GiveBack(c, e)
  BY DEF RunStops
<1>2. CASE StopEnds(c, e)
  BY <1>2 DEF StopEnds, store, NotGiven, Dead, Live
<1>3. CASE GiveBack(c, e)
  <2>1. PICK s \in stops[c] :
          /\ s[1] = e /\ lease' = GivenBack(c, e, s[2])
          /\ stops' = [stops EXCEPT ![c] = @ \ {s}]
    BY <1>3 DEF GiveBack
  <2>2. alive' = alive
    BY <1>3 DEF GiveBack
  <2>3. \A x \in Envs : lease'[x] = lease[x] \/ (x = e /\ lease'[x] = Free)
    BY <2>1 DEF GivenBack, TypeOK
  <2>4. \A x \in Envs : NotGiven(x)
    BY <2>2, <2>3 DEF NotGiven, Free, Kinds, Dead, Live
  <2>5. \A d \in Cmds : stops'[d] \subseteq stops[d]
    BY <2>1 DEF TypeOK
  <2> QED
    BY <2>1, <2>2, <2>3, <2>4, <2>5
<1> QED
  BY <1>1, <1>2, <1>3

\* A watched process exits, or a lease's TTL passes.
LEMMA DisturbEffect ==
  ASSUME TypeOK, DisturbCommands
  PROVE  /\ alive \cap Cmds \subseteq alive' /\ stops' = stops
         /\ \A x \in Envs : NotGiven(x)
<1>1. ASSUME NEW a \in Agents, Exit(a)
      PROVE  /\ alive \cap Cmds \subseteq alive' /\ stops' = stops
             /\ \A x \in Envs : NotGiven(x)
  BY <1>1, ProcessesAssumption DEF Exit, store, NotGiven, Dead, Live
<1>2. ASSUME NEW e \in Envs, Lapse(e)
      PROVE  /\ alive \cap Cmds \subseteq alive' /\ stops' = stops
             /\ \A x \in Envs : NotGiven(x)
  <2>1. /\ lease'[e].lapsed = TRUE /\ lease'[e].kind = lease[e].kind
        /\ \A x \in Envs \ {e} : lease'[x] = lease[x]
    BY <1>2 DEF Lapse, TypeOK, Leases
  <2>2. \A x \in Envs : NotGiven(x)
    BY <1>2, <2>1 DEF Lapse, NotGiven, Dead, Live, IsHeld, Kinds
  <2> QED
    BY <1>2, <2>2 DEF Lapse
<1> QED
  BY <1>1, <1>2 DEF DisturbCommands
-----------------------------------------------------------------------------
(* The invariant is inductive *)

\* Nothing is going on at first.
LEMMA CommandsInit == InitCommands => CommandsInv
<1> SUFFICES ASSUME InitCommands PROVE CommandsInv
  OBVIOUS
<1>1. \A c \in Cmds : doing[c] = Idle
  BY DEF InitCommands
<1>2. Idle.op = "idle" /\ Idle \in [op : {"idle", "acquire", "change"},
                                    agent : Agents \cup {Nobody}, env : 0 .. NumEnvs]
  BY NumEnvsAssumption DEF Idle, Doing
<1>3. CommandsFit
  BY <1>1, <1>2 DEF CommandsFit, InitCommands, Init
<1>4. \A a \in Agents : Sessions(a) = {}
  BY DEF InitCommands, Init, Sessions, Free
<1>5. SessionsApart /\ NoDeployOverAnother /\ ChangesCovered
  BY <1>1, <1>2, <1>4 DEF SessionsApart, NoDeployOverAnother, ChangesCovered, Changing
<1> QED
  BY <1>3, <1>5 DEF CommandsInv

\* What a command is in the middle of, after it began or finished.
LEMMA DoingFits ==
  ASSUME CommandsFit, NEW c \in Cmds, Cmds \subseteq alive',
         \/ doing' = doing \/ Finish(c)
         \/ \E a \in Agents : Start(c, "acquire", a, 0)
         \/ \E a \in Agents, e \in Envs : Start(c, "change", a, e)
  PROVE  CommandsFit'
<1>1. CASE doing' = doing
  BY <1>1 DEF CommandsFit
<1>2. ASSUME NEW d, doing' = [doing EXCEPT ![c] = d],
             d \in [op : {"idle", "acquire", "change"},
                    agent : Agents \cup {Nobody}, env : 0 .. NumEnvs],
             d.op # "idle" => d.agent \in Agents,
             d.op = "acquire" => d.env = 0,
             d.op = "change" => d.env \in Envs
      PROVE  CommandsFit'
  BY <1>2 DEF CommandsFit
<1>3. CASE Finish(c)
  <2>1. /\ Idle.op = "idle"
        /\ Idle \in [op : {"idle", "acquire", "change"},
                     agent : Agents \cup {Nobody}, env : 0 .. NumEnvs]
    BY NumEnvsAssumption DEF Idle, Doing
  <2> QED
    BY <1>2, <1>3, <2>1 DEF Finish
<1>4. ASSUME NEW a \in Agents, Start(c, "acquire", a, 0)
      PROVE  CommandsFit'
  <2>1. Doing("acquire", a, 0) \in [op : {"idle", "acquire", "change"},
                                    agent : Agents \cup {Nobody}, env : 0 .. NumEnvs]
    BY NumEnvsAssumption DEF Doing
  <2>2. LET d == Doing("acquire", a, 0) IN d.op = "acquire" /\ d.agent = a /\ d.env = 0
    BY DEF Doing
  <2> QED
    BY <1>2, <1>4, <2>1, <2>2 DEF Start
<1>5. ASSUME NEW a \in Agents, NEW e \in Envs, Start(c, "change", a, e)
      PROVE  CommandsFit'
  <2>1. Doing("change", a, e) \in [op : {"idle", "acquire", "change"},
                                   agent : Agents \cup {Nobody}, env : 0 .. NumEnvs]
    BY NumEnvsAssumption DEF Doing, Envs
  <2>2. LET d == Doing("change", a, e) IN d.op = "change" /\ d.agent = a /\ d.env = e
    BY DEF Doing
  <2> QED
    BY <1>2, <1>5, <2>1, <2>2 DEF Start
<1> QED
  BY <1>1, <1>3, <1>4, <1>5

\* Of a step that gives nobody an environment, nobody has a session more.
LEMMA NotGivenSessions ==
  ASSUME \A e \in Envs : NotGiven(e)
  PROVE  \A a : Sessions(a)' \subseteq Sessions(a)
BY DEF NotGiven, Sessions, Kinds

\* Who has sessions does not matter to acquires that nobody began or finished.
LEMMA ApartKeeps ==
  ASSUME CommandsFit, SessionsApart, \A a \in Agents : Sessions(a)' \subseteq Sessions(a),
         \A c \in Cmds : doing'[c].op = "acquire" => doing'[c] = doing[c]
  PROVE  SessionsApart'
<1> SUFFICES ASSUME "one-acquire" \in Habits
             PROVE  /\ \A a \in Agents : \A e, f \in Sessions(a)' : e = f
                    /\ \A c, d \in Cmds :
                         doing'[c].op = "acquire" /\ doing'[d].op = "acquire"
                           /\ doing'[c].agent = doing'[d].agent => c = d
                    /\ \A c \in Cmds, a \in Agents :
                         doing'[c].op = "acquire" /\ doing'[c].agent = a => Sessions(a)' = {}
  BY DEF SessionsApart
<1>1. \A a \in Agents : \A e, f \in Sessions(a)' : e = f
  BY DEF SessionsApart
<1>2. \A c \in Cmds, a \in Agents :
        doing'[c].op = "acquire" /\ doing'[c].agent = a => Sessions(a)' = {}
  BY DEF SessionsApart
<1> QED
  BY <1>1, <1>2 DEF SessionsApart

\* No change begins, and what is changed is nobody else's and covered, still.
LEMMA ChangesKeep ==
  ASSUME CommandsInv,
         \A c \in Cmds, e \in Envs : Changing(c, e)' => doing'[c] = doing[c],
         "takes-idle" \in Habits =>
           \A c \in Cmds, e \in Envs : Changing(c, e)' => NotGiven(e),
         {"takes-idle", "waits"} \subseteq Habits /\ Faults \cap {"steal", "longstop"} = {} =>
           \A c \in Cmds, e \in Envs : Changing(c, e)' /\ Covered(c, e) =>
             /\ lease'[e] = lease[e]
             /\ lease[e].owner \in alive => lease[e].owner \in alive'
             /\ \A d \in Cmds : \A s \in stops'[d] : s \in stops[d] \/ s[1] # e \/ Dead(e)
  PROVE  ("takes-idle" \in Habits => NoDeployOverAnother') /\ ChangesCovered'
<1>1. \A c \in Cmds, e \in Envs : Changing(c, e)' => Changing(c, e)
  BY DEF CommandsInv, CommandsFit, Changing
<1>2. ASSUME "takes-idle" \in Habits
      PROVE  NoDeployOverAnother'
  <2>1. \A c \in Cmds, e \in Envs :
          Changing(c, e) /\ lease[e].kind \in Kinds /\ ~Dead(e)
            => doing[c].agent = lease[e].owner
    BY <1>2 DEF CommandsInv, NoDeployOverAnother
  <2>2. ASSUME NEW c \in Cmds, NEW e \in Envs,
               Changing(c, e)', lease'[e].kind \in Kinds, ~Dead(e)'
        PROVE  doing'[c].agent = lease'[e].owner
    <3>1. lease'[e] = lease[e] /\ ~Dead(e)
      <4>1. NotGiven(e)
        BY <1>2, <2>2
      <4> QED
        BY <2>2, <4>1 DEF NotGiven
    <3>2. Changing(c, e) /\ doing'[c] = doing[c]
      BY <1>1, <2>2
    <3>3. lease[e].kind \in Kinds
      BY <2>2, <3>1
    <3>4. doing[c].agent = lease[e].owner
      BY <2>1, <3>1, <3>2, <3>3
    <3> QED
      BY <3>1, <3>2, <3>4
  <2>3. NoDeployOverAnother' <=>
          \A c \in Cmds, e \in Envs :
            Changing(c, e)' /\ lease'[e].kind \in Kinds /\ ~Dead(e)'
              => doing'[c].agent = lease'[e].owner
    BY DEF NoDeployOverAnother
  <2> QED
    BY <2>2, <2>3
<1>3. ASSUME {"takes-idle", "waits"} \subseteq Habits, Faults \cap {"steal", "longstop"} = {},
             NEW c \in Cmds, NEW e \in Envs, Changing(c, e)'
      PROVE  Covered(c, e)'
  <2>1. Covered(c, e)
    BY <1>1, <1>3 DEF CommandsInv, ChangesCovered
  <2>2. /\ lease'[e] = lease[e] /\ doing'[c] = doing[c]
        /\ lease[e].owner \in alive => lease[e].owner \in alive'
        /\ \A d \in Cmds : \A s \in stops'[d] : s \in stops[d] \/ s[1] # e \/ Dead(e)
    BY <1>3, <2>1
  <2>3. ~Dead(e)
    <3>1. Free.kind = "free"
      BY DEF Free
    <3>2. lease[e] = Free => ~Dead(e)
      BY <3>1 DEF Dead, IsHeld
    <3> QED
      BY <2>1, <3>2 DEF Covered
  <2>4. ~Dead(e)'
    BY <2>2, <2>3 DEF Dead, Live
  <2>5. \A d \in Cmds : \A s \in stops'[d] : s[1] # e
    BY <2>1, <2>2, <2>3 DEF Covered
  <2>6. \/ lease'[e] = Free
        \/ lease'[e].kind \in Kinds /\ lease'[e].owner = doing'[c].agent
    BY <2>1, <2>2 DEF Covered
  <2> QED
    BY <2>4, <2>5, <2>6 DEF Covered
<1> QED
  BY <1>2, <1>3 DEF ChangesCovered

\* Who is not busy is not in the middle of it.
LEMMA NotBusy ==
  ASSUME CommandsFit, NEW a \in Agents
  PROVE  /\ \A e \in Envs, c \in Cmds :
              ~Busy(a, "change", {e}) /\ Changing(c, e) => doing[c].agent # a
         /\ \A e \in Envs, c \in Cmds :
              ~Busy(a, "change", Envs) /\ Changing(c, e) => doing[c].agent # a
         /\ \A c \in Cmds :
              ~Busy(a, "acquire", {0}) /\ doing[c].op = "acquire" => doing[c].agent # a
BY DEF CommandsFit, Busy, Changing

\* Nobody is in the middle of changing what a user who looks asks for.
LEMMA AsksForQuiet ==
  ASSUME CommandsFit, NEW e \in Envs, Asks(e), "takes-idle" \in Habits
  PROVE  \A c \in Cmds : ~Changing(c, e)
<1>1. \A a \in Agents : ~Busy(a, "change", {e})
  BY DEF Asks, Quiet
<1> QED
  BY <1>1 DEF CommandsFit, Busy, Changing

\* What is being changed has an agent.
LEMMA ChangerIsAgent ==
  ASSUME CommandsFit, NEW c \in Cmds, NEW e \in Envs, Changing(c, e)
  PROVE  doing[c].agent \in Agents /\ doing[c] # Idle
BY DEF CommandsFit, Changing, Idle, Doing

\* The first section of an acquire, a look that found nothing, or only a look.
LEMMA LooksKeep ==
  ASSUME IInv, CommandsInv, NEW c \in Cmds,
         \/ \E a \in Agents : FindSession(c, a)
         \/ \E E \in SUBSET Envs, wait \in BOOLEAN : TakeNothing(c, E, wait)
         \/ \E E \in SUBSET Envs : Inspect(c, E)
  PROVE  CommandsInv'
<1>1. TypeOK /\ CommandsFit /\ SessionsApart
  BY DEF IInv, CommandsInv
<1>2. PICK E \in SUBSET Envs : Look(c, E)
  BY DEF FindSession, TakeNothing, Inspect, ReadBySessionPID
<1>3. /\ alive' = alive /\ OwesForDead
      /\ \A e \in Envs : NotGiven(e) /\ (~Dead(e) => lease'[e] = lease[e])
  BY <1>1, <1>2, LookEffect
<1>4. \/ doing' = doing \/ Finish(c)
      \/ \E a \in Agents : Start(c, "acquire", a, 0)
  BY DEF FindSession, TakeNothing, Inspect
<1>5. CommandsFit'
  BY <1>1, <1>3, <1>4, DoingFits DEF CommandsFit
<1>6. \A d \in Cmds : doing'[d] = doing[d] \/ (d = c /\ doing'[d].op \in {"idle", "acquire"})
  BY <1>1, <1>4 DEF CommandsFit, Finish, Start, Idle, Doing
<1>7. \A a : Sessions(a)' \subseteq Sessions(a)
  BY <1>3, NotGivenSessions
<1>8. SessionsApart'
  <2>1. CASE \E a \in Agents : FindSession(c, a) /\ Start(c, "acquire", a, 0)
    <3>1. PICK a \in Agents : FindSession(c, a) /\ Start(c, "acquire", a, 0)
      BY <2>1
    <3>2. /\ doing'[c].op = "acquire" /\ doing'[c].agent = a
          /\ \A d \in Cmds \ {c} : doing'[d] = doing[d]
      BY <1>1, <3>1 DEF Start, Doing, CommandsFit
    <3>3. Idle.op = "idle" /\ doing[c] = Idle
      BY <3>1 DEF FindSession, Idle, Doing
    <3>4. Sessions(a) = {}
      BY <3>1, <3>2, <3>3 DEF FindSession
    <3>5. "one-acquire" \in Habits => \A d \in Cmds \ {c} :
            doing[d].op = "acquire" => doing[d].agent # a
      BY <1>1, <3>1, NotBusy DEF FindSession
    <3>6. ASSUME "one-acquire" \in Habits
          PROVE  /\ \A b \in Agents : \A e, f \in Sessions(b)' : e = f
                 /\ \A d, x \in Cmds :
                      doing'[d].op = "acquire" /\ doing'[x].op = "acquire"
                        /\ doing'[d].agent = doing'[x].agent => d = x
                 /\ \A d \in Cmds, b \in Agents :
                      doing'[d].op = "acquire" /\ doing'[d].agent = b => Sessions(b)' = {}
      <4>1. \A b \in Agents : \A e, f \in Sessions(b)' : e = f
        BY <1>1, <1>7, <3>6 DEF SessionsApart
      <4>2. \A d, x \in Cmds :
              doing'[d].op = "acquire" /\ doing'[x].op = "acquire"
                /\ doing'[d].agent = doing'[x].agent => d = x
        BY <1>1, <3>2, <3>5, <3>6 DEF SessionsApart
      <4>3. \A d \in Cmds, b \in Agents :
              doing'[d].op = "acquire" /\ doing'[d].agent = b => Sessions(b)' = {}
        BY <1>1, <1>7, <3>2, <3>4, <3>6 DEF SessionsApart
      <4> QED
        BY <4>1, <4>2, <4>3
    <3> QED
      BY <3>6 DEF SessionsApart
  <2>2. CASE doing' = doing \/ Finish(c)
    <3>1. \A d \in Cmds : doing'[d].op = "acquire" => doing'[d] = doing[d]
      BY <1>1, <2>2 DEF Finish, Idle, Doing, CommandsFit
    <3> QED
      BY <1>1, <1>7, <3>1, ApartKeeps
  <2> QED
    BY <2>1, <2>2 DEF FindSession, TakeNothing, Inspect
<1>9. ("takes-idle" \in Habits => NoDeployOverAnother') /\ ChangesCovered'
  <2>1. \A d \in Cmds, e \in Envs : Changing(d, e)' => doing'[d] = doing[d]
    BY <1>6 DEF Changing
  <2>2. \A d \in Cmds, e \in Envs : Covered(d, e) =>
          /\ lease'[e] = lease[e]
          /\ \A x \in Cmds : \A s \in stops'[x] : s \in stops[x] \/ s[1] # e \/ Dead(e)
    BY <1>3 DEF Covered, Dead, IsHeld, Free, OwesForDead
  <2> QED
    BY <1>3, <2>1, <2>2, ChangesKeep
<1> QED
  BY <1>5, <1>8, <1>9 DEF CommandsInv
\* The second section of an acquire: its agent had no session, and has this one.
LEMMA TakeSessionKeeps ==
  ASSUME IInv, CommandsInv, NEW c \in Cmds, NEW E \in SUBSET Envs, NEW e \in E,
         NEW keep \in BOOLEAN, TakeSession(c, E, e, keep)
  PROVE  CommandsInv'
<1>1. TypeOK /\ CommandsFit /\ SessionsApart
  BY DEF IInv, CommandsInv
<1>2. PICK a \in Agents : doing[c].agent = a
  BY <1>1 DEF TakeSession, CommandsFit
<1>3. /\ doing[c].op = "acquire" /\ Asks(e) /\ Finish(c)
      /\ Grant(c, a, E, e, "session", keep)
  BY <1>2 DEF TakeSession, AcquireFromPool
<1>4. /\ alive' = alive /\ OwesForDead
      /\ \A x \in Envs \ {e} : NotGiven(x) /\ (~Dead(x) => lease'[x] = lease[x])
      /\ lease'[e].owner = a /\ lease'[e].kind = "session"
  <2>1. "session" \in Kinds
    BY DEF Kinds
  <2> QED
    BY <1>1, <1>3, <2>1, GrantEffect
<1>5. CommandsFit'
  BY <1>1, <1>3, <1>4, DoingFits DEF CommandsFit
<1>6. doing'[c].op = "idle" /\ \A d \in Cmds \ {c} : doing'[d] = doing[d]
  BY <1>1, <1>3 DEF CommandsFit, Finish, Idle, Doing
<1>7. /\ \A b \in Agents \ {a} : Sessions(b)' \subseteq Sessions(b)
      /\ Sessions(a)' \subseteq Sessions(a) \cup {e}
  BY <1>4 DEF Sessions, NotGiven, Kinds
<1>8. SessionsApart'
  <2> SUFFICES ASSUME "one-acquire" \in Habits
               PROVE  /\ \A b \in Agents : \A x, y \in Sessions(b)' : x = y
                      /\ \A d, x \in Cmds :
                           doing'[d].op = "acquire" /\ doing'[x].op = "acquire"
                             /\ doing'[d].agent = doing'[x].agent => d = x
                      /\ \A d \in Cmds, b \in Agents :
                           doing'[d].op = "acquire" /\ doing'[d].agent = b => Sessions(b)' = {}
    BY DEF SessionsApart
  <2>1. Sessions(a) = {}
    BY <1>1, <1>2, <1>3 DEF SessionsApart
  <2>2. \A d \in Cmds : doing'[d].op = "acquire" => d # c /\ doing'[d].agent # a
    BY <1>1, <1>2, <1>3, <1>6 DEF SessionsApart
  <2>3. \A b \in Agents : \A x, y \in Sessions(b)' : x = y
    <3>1. \A x, y \in Sessions(a)' : x = y
      BY <1>7, <2>1
    <3>2. \A b \in Agents : \A x, y \in Sessions(b) : x = y
      BY <1>1 DEF SessionsApart
    <3>3. \A b \in Agents \ {a} : \A x, y \in Sessions(b)' : x = y
      BY <1>7, <3>2
    <3> QED
      BY <3>1, <3>3
  <2>4. \A d, x \in Cmds :
          doing'[d].op = "acquire" /\ doing'[x].op = "acquire"
            /\ doing'[d].agent = doing'[x].agent => d = x
    BY <1>1, <1>6, <2>2 DEF SessionsApart
  <2>5. \A d \in Cmds, b \in Agents :
          doing'[d].op = "acquire" /\ doing'[d].agent = b => Sessions(b)' = {}
    BY <1>1, <1>6, <1>7, <2>2 DEF SessionsApart
  <2> QED
    BY <2>3, <2>4, <2>5
<1>9. ("takes-idle" \in Habits => NoDeployOverAnother') /\ ChangesCovered'
  <2>1. \A d \in Cmds, x \in Envs : Changing(d, x)' => doing'[d] = doing[d] /\ Changing(d, x)
    BY <1>4, <1>6 DEF Changing
  <2>2. "takes-idle" \in Habits => \A d \in Cmds : ~Changing(d, e)
    BY <1>1, <1>3, AsksForQuiet
  <2>3. \A d \in Cmds, x \in Envs \ {e} : Covered(d, x) =>
          /\ lease'[x] = lease[x]
          /\ \A y \in Cmds : \A s \in stops'[y] : s \in stops[y] \/ s[1] # x \/ Dead(x)
    BY <1>4 DEF Covered, Dead, IsHeld, Free, OwesForDead
  <2> QED
    BY <1>4, <2>1, <2>2, <2>3, ChangesKeep
<1> QED
  BY <1>5, <1>8, <1>9 DEF CommandsInv

\* A run is no session, and takes nothing that is being changed.
LEMMA TakeRunKeeps ==
  ASSUME IInv, CommandsInv, NEW c \in Cmds, NEW a \in Agents, NEW e \in Envs, TakeRun(c, a, e)
  PROVE  CommandsInv'
<1>1. TypeOK /\ CommandsFit /\ SessionsApart
  BY DEF IInv, CommandsInv
<1>2. /\ Asks(e) /\ doing' = doing
      /\ Grant(c, a, {e}, e, "run", FALSE)
  BY DEF TakeRun, Acquire
<1>3. /\ alive' = alive /\ OwesForDead
      /\ \A x \in Envs \ {e} : NotGiven(x) /\ (~Dead(x) => lease'[x] = lease[x])
      /\ lease'[e].owner = a /\ lease'[e].kind = "run"
  BY <1>1, <1>2, GrantEffect DEF Kinds
<1>4. CommandsFit'
  BY <1>1, <1>2, <1>3, DoingFits DEF CommandsFit
<1>5. \A b \in Agents : Sessions(b)' \subseteq Sessions(b)
  BY <1>3 DEF Sessions, NotGiven, Kinds
<1>6. SessionsApart'
  BY <1>1, <1>2, <1>5, ApartKeeps
<1>7. ("takes-idle" \in Habits => NoDeployOverAnother') /\ ChangesCovered'
  <2>1. \A d \in Cmds, x \in Envs : Changing(d, x)' => doing'[d] = doing[d] /\ Changing(d, x)
    BY <1>2, <1>3 DEF Changing
  <2>2. "takes-idle" \in Habits => \A d \in Cmds : ~Changing(d, e)
    BY <1>1, <1>2, AsksForQuiet
  <2>3. \A d \in Cmds, x \in Envs \ {e} : Covered(d, x) =>
          /\ lease'[x] = lease[x]
          /\ \A y \in Cmds : \A s \in stops'[y] : s \in stops[y] \/ s[1] # x \/ Dead(x)
    BY <1>3 DEF Covered, Dead, IsHeld, Free, OwesForDead
  <2> QED
    BY <1>3, <2>1, <2>2, <2>3, ChangesKeep
<1> QED
  BY <1>4, <1>6, <1>7 DEF CommandsInv

\* Letting go, ending stops, exits and lapses: nobody is given anything, and
\* who waits for his command takes nothing from it.
LEMMA DepartsKeep ==
  ASSUME IInv, CommandsInv,
         \/ \E c \in Cmds, a \in Agents, e \in Envs, session, keepRunning \in BOOLEAN :
              LetGo(c, a, e, session, keepRunning)
         \/ \E c \in Cmds : RunStops(c) /\ doing' = doing
         \/ DisturbCommands
         \/ \E c \in Cmds : ChangeEnds(c)
  PROVE  CommandsInv'
<1>1. TypeOK /\ CommandsFit /\ SessionsApart
  BY DEF IInv, CommandsInv
<1> DEFINE Rest == \A c \in Cmds, e \in Envs : Changing(c, e)' /\ Changing(c, e) /\ Covered(c, e) =>
             /\ lease'[e] = lease[e]
             /\ lease[e].owner \in alive => lease[e].owner \in alive'
             /\ \A d \in Cmds : \A s \in stops'[d] : s \in stops[d] \/ s[1] # e \/ Dead(e)
<1>2. ASSUME Cmds \subseteq alive', \A e \in Envs : NotGiven(e),
             doing' = doing \/ (\E c \in Cmds : Finish(c)),
             "waits" \in Habits => Rest
      PROVE  CommandsInv'
  <2>1. \A d \in Cmds : doing'[d] = doing[d] \/ doing'[d].op = "idle"
    BY <1>1, <1>2 DEF CommandsFit, Finish, Idle, Doing
  <2>2. CommandsFit'
    <3>1. CASE doing' = doing
      BY <1>1, <1>2, <3>1 DEF CommandsFit
    <3>2. CASE \E c \in Cmds : Finish(c)
      BY <1>1, <1>2, <3>2, DoingFits
    <3> QED
      BY <1>2, <3>1, <3>2
  <2>3. SessionsApart'
    <3>1. \A a \in Agents : Sessions(a)' \subseteq Sessions(a)
      BY <1>2, NotGivenSessions
    <3>2. \A d \in Cmds : doing'[d].op = "acquire" => doing'[d] = doing[d]
      BY <2>1
    <3> QED
      BY <1>1, <3>1, <3>2, ApartKeeps
  <2>4. \A c \in Cmds, e \in Envs : Changing(c, e)' => doing'[c] = doing[c] /\ Changing(c, e)
    BY <1>1, <2>1 DEF Changing, CommandsFit
  <2>5. ("takes-idle" \in Habits => NoDeployOverAnother') /\ ChangesCovered'
    BY <1>2, <2>4, ChangesKeep
  <2> QED
    BY <2>2, <2>3, <2>5 DEF CommandsInv
<1>3. CASE \E c \in Cmds, a \in Agents, e \in Envs, session, keepRunning \in BOOLEAN :
             LetGo(c, a, e, session, keepRunning)
  <2>1. PICK c \in Cmds, a \in Agents, e \in Envs, session \in BOOLEAN, keepRunning \in BOOLEAN :
          LetGo(c, a, e, session, keepRunning)
    BY <1>3
  <2>2. /\ alive' = alive /\ Holds(a, e) /\ doing' = doing
        /\ \A d \in Cmds : \A s \in stops'[d] : s \in stops[d] \/ s[1] = e
        /\ \A x \in Envs : NotGiven(x) /\ (x # e => lease'[x] = lease[x])
    BY <1>1, <2>1, ReleaseEffect DEF LetGo
  <2>3. lease[e].owner = a /\ lease[e].kind \in Kinds
    BY <2>2, HoldsIsOwner
  <2>4. ASSUME "waits" \in Habits, NEW d \in Cmds, Changing(d, e), Covered(d, e)
        PROVE  FALSE
    <3>1. doing[d].agent # a
      BY <1>1, <2>1, <2>4, NotBusy DEF LetGo
    <3> QED
      BY <2>3, <2>4, <3>1 DEF Covered, Free, Kinds
  <2>5. "waits" \in Habits => Rest
    BY <2>2, <2>4
  <2> QED
    BY <1>1, <1>2, <2>2, <2>5 DEF CommandsFit
<1>4. CASE \E c \in Cmds : RunStops(c) /\ doing' = doing
  <2>1. PICK c \in Cmds : RunStops(c) /\ doing' = doing
    BY <1>4
  <2>2. /\ alive' = alive
        /\ \A d \in Cmds : stops'[d] \subseteq stops[d]
        /\ \A x \in Envs :
             /\ NotGiven(x)
             /\ (\A s \in stops[c] : s[1] # x) => lease'[x] = lease[x]
    BY <1>1, <2>1, RunStopsEffect
  <2>3. Rest
    BY <2>2 DEF Covered
  <2> QED
    BY <1>1, <1>2, <2>1, <2>2, <2>3 DEF CommandsFit
<1>5. CASE DisturbCommands
  <2>1. /\ Cmds \subseteq alive' /\ stops' = stops /\ doing' = doing
        /\ \A x \in Envs : NotGiven(x)
    BY <1>1, <1>5, DisturbEffect DEF DisturbCommands, CommandsFit
  <2>2. ASSUME "waits" \in Habits, NEW c \in Cmds, NEW e \in Envs,
               Changing(c, e), Covered(c, e)
        PROVE  lease'[e] = lease[e] /\ (lease[e].owner \in alive => lease[e].owner \in alive')
    <3>1. ASSUME NEW a \in Agents, Exit(a), ~Busy(a, "change", Envs)
          PROVE  lease'[e] = lease[e] /\ (lease[e].owner \in alive => lease[e].owner \in alive')
      <4>1. doing[c].agent # a
        BY <1>1, <2>2, <3>1, NotBusy
      <4>2. lease[e].owner # a
        BY <2>2, <4>1, ProcessesAssumption DEF Covered, Free
      <4> QED
        BY <3>1, <4>2 DEF Exit, store
    <3>2. ASSUME NEW x \in Envs, Lapse(x), ~Busy(lease[x].owner, "change", {x})
          PROVE  lease'[e] = lease[e] /\ (lease[e].owner \in alive => lease[e].owner \in alive')
      <4>1. x # e
        <5> SUFFICES ASSUME x = e PROVE FALSE
          OBVIOUS
        <5>1. lease[e].owner = doing[c].agent
          BY <2>2, <3>2 DEF Covered, Lapse, IsHeld, Free
        <5>2. doing[c].agent \in Agents
          BY <1>1, <2>2, ChangerIsAgent
        <5> QED
          BY <1>1, <2>2, <3>2, <5>1, <5>2, NotBusy
      <4> QED
        BY <1>1, <3>2, <4>1 DEF Lapse, TypeOK
    <3> QED
      BY <1>5, <2>2, <3>1, <3>2 DEF DisturbCommands
  <2>3. "waits" \in Habits => Rest
    BY <2>1, <2>2
  <2> QED
    BY <1>2, <2>1, <2>3
<1>6. CASE \E c \in Cmds : ChangeEnds(c)
  <2>1. UNCHANGED <<lease, alive, stops>> /\ \E c \in Cmds : Finish(c)
    BY <1>6 DEF ChangeEnds, vars, store
  <2>2. Rest /\ \A e \in Envs : NotGiven(e)
    BY <2>1 DEF NotGiven, Dead, Live
  <2> QED
    BY <1>1, <1>2, <2>1, <2>2 DEF CommandsFit
<1> QED
  BY <1>3, <1>4, <1>5, <1>6
\* A command that may change e finds it free or its agent's own.
LEMMA CheckGuardKeeps ==
  ASSUME IInv, StopCovered, CommandsInv, NEW c \in Cmds, NEW a \in Agents, NEW e \in Envs,
         CheckGuard(c, a, e)
  PROVE  CommandsInv'
<1>1. TypeOK /\ CommandsFit /\ SessionsApart
  BY DEF IInv, CommandsInv
<1>2. /\ MayChange(c, a, e) /\ Look(c, {e}) /\ Start(c, "change", a, e)
      /\ doing[c] = Idle
  BY DEF CheckGuard
<1>3. /\ alive' = alive /\ OwesForDead
      /\ \A x \in Envs : NotGiven(x) /\ (~Dead(x) => lease'[x] = lease[x])
      /\ lease'[e] = Current(c, e)
  BY <1>1, <1>2, LookEffect
<1>4. CommandsFit'
  BY <1>1, <1>2, <1>3, DoingFits DEF CommandsFit
<1>5. /\ doing'[c].op = "change" /\ doing'[c].agent = a /\ doing'[c].env = e
      /\ \A d \in Cmds \ {c} : doing'[d] = doing[d]
  BY <1>1, <1>2 DEF CommandsFit, Start, Doing
<1>6. SessionsApart'
  <2>1. \A b \in Agents : Sessions(b)' \subseteq Sessions(b)
    BY <1>3, NotGivenSessions
  <2>2. \A d \in Cmds : doing'[d].op = "acquire" => doing'[d] = doing[d]
    BY <1>5
  <2> QED
    BY <1>1, <2>1, <2>2, ApartKeeps
<1>7. \/ lease'[e] = Free /\ ~Holds(a, e) /\ ~IsHeld(Current(c, e))
      \/ /\ Holds(a, e) /\ ~Dead(e) /\ lease'[e] = lease[e]
         /\ lease[e].owner = a /\ lease[e].kind \in Kinds
  <2>1. CASE Holds(a, e)
    BY <1>3, <2>1, HoldsIsOwner
  <2>2. CASE ~Holds(a, e)
    <3>1. ~IsHeld(Current(c, e))
      BY <1>2, <2>2 DEF MayChange
    <3>2. Current(c, e) = Free
      BY <1>1, <3>1, CurrentFits DEF IsHeld, Placeholder, Granted, IInv, FilesFit
    <3> QED
      BY <1>3, <2>2, <3>1, <3>2
  <2> QED
    BY <2>1, <2>2
<1>8. ~(Dead(e) /\ e \in Ended({e}))
  <2> SUFFICES ASSUME Dead(e), EndsInStop(lease[e]) PROVE FALSE
    BY DEF Ended
  <2>1. IsHeld(Current(c, e))
    BY DEF Current, IsHeld, Placeholder, Granted
  <2> QED
    BY <1>7, <2>1
<1>9. \A d \in Cmds : \A s \in stops'[d] : s \in stops[d]
  <2>1. /\ stops'[c] = {<<x, gen[x] + 1>> : x \in Ended({e})}
        /\ \A d \in Cmds \ {c} : stops'[d] = stops[d]
    BY <1>1, <1>2 DEF Look, Owe, TypeOK
  <2>2. Ended({e}) = {}
    BY <1>8 DEF Ended
  <2> QED
    BY <2>1, <2>2
<1>10. ASSUME "takes-idle" \in Habits
       PROVE  NoDeployOverAnother'
  <2> SUFFICES ASSUME NEW d \in Cmds, NEW x \in Envs, Changing(d, x)',
                      lease'[x].kind \in Kinds, ~Dead(x)'
               PROVE  doing'[d].agent = lease'[x].owner
    BY DEF NoDeployOverAnother
  <2>1. CASE d = c
    BY <1>5, <1>7, <2>1 DEF Changing, Free, Kinds
  <2>2. CASE d # c
    <3>1. Changing(d, x) /\ doing'[d] = doing[d]
      BY <1>3, <1>5, <2>2 DEF Changing
    <3> QED
      BY <1>3, <1>10, <3>1 DEF NotGiven, CommandsInv, NoDeployOverAnother
  <2> QED
    BY <2>1, <2>2
<1>11. ChangesCovered'
  <2> SUFFICES ASSUME {"takes-idle", "waits"} \subseteq Habits,
                      Faults \cap {"steal", "longstop"} = {},
                      NEW d \in Cmds, NEW x \in Envs, Changing(d, x)'
               PROVE  Covered(d, x)'
    BY DEF ChangesCovered
  <2>1. CASE d # c
    <3>1. Changing(d, x) /\ doing'[d] = doing[d]
      BY <1>3, <1>5, <2>1 DEF Changing
    <3>2. Covered(d, x)
      BY <3>1 DEF CommandsInv, ChangesCovered
    <3>3. ~Dead(x)
      <4>1. Free.kind = "free"
        BY DEF Free
      <4>2. lease[x] = Free => ~Dead(x)
        BY <4>1 DEF Dead, IsHeld
      <4> QED
        BY <3>2, <4>2 DEF Covered
    <3>4. lease'[x] = lease[x] /\ ~Dead(x)'
      BY <1>3, <3>3 DEF Dead, Live
    <3>5. \A y \in Cmds : \A s \in stops'[y] : s[1] # x
      BY <1>9, <3>2 DEF Covered
    <3>6. \/ lease'[x] = Free
          \/ lease'[x].kind \in Kinds /\ lease'[x].owner = doing'[d].agent
      BY <3>1, <3>2, <3>4 DEF Covered
    <3> QED
      BY <3>4, <3>5, <3>6 DEF Covered
  <2>2. CASE d = c
    <3>1. x = e
      BY <1>5, <2>2 DEF Changing
    <3>2. HeldWhileStopped
      BY DEF StopCovered
    <3>3. \A y \in Cmds : \A s \in stops'[y] : s[1] # e
      <4> SUFFICES ASSUME NEW y \in Cmds, NEW s \in stops[y], s[1] = e PROVE FALSE
        BY <1>9
      <4>1. y \in alive /\ lease[e] = Placeholder(y, s[2])
        BY <1>1, <3>2 DEF HeldWhileStopped, CommandsFit
      <4>2. lease[e].kind = "stop" /\ ~Dead(e)
        <5>1. LET l == Placeholder(y, s[2]) IN
                l.kind = "stop" /\ l.owner = y /\ l.lapsed = FALSE
          BY DEF Placeholder, Granted
        <5> QED
          BY <4>1, <5>1 DEF Dead, Live
      <4>3. IsHeld(Current(c, e))
        BY <4>2 DEF Current, IsHeld
      <4> QED
        BY <1>7, <4>2, <4>3 DEF Kinds
    <3>4. Holds(a, e) => ~Dead(e)'
      BY <1>3, <1>7 DEF Dead, Live
    <3>5. \/ lease'[e] = Free
          \/ lease'[e].kind \in Kinds /\ ~Dead(e)' /\ lease'[e].owner = doing'[c].agent
      BY <1>5, <1>7, <3>4
    <3> QED
      BY <2>2, <3>1, <3>3, <3>5 DEF Covered
  <2> QED
    BY <2>1, <2>2
<1> QED
  BY <1>4, <1>6, <1>10, <1>11 DEF CommandsInv

\* What the store promises and what the commands rely on, together.
LEMMA CommandsNext ==
  ASSUME IInv, StopCovered, CommandsInv, [NextCommands]_cvars
  PROVE  IInv' /\ StopCovered' /\ CommandsInv'
<1>1. [Next]_vars
  BY CommandIsOperation DEF CommandsInv
<1>2. IInv'
  BY <1>1, NextInv
<1>3. StopCovered'
  BY <1>1, HeldKeeps DEF StopCovered
<1>4. CASE UNCHANGED cvars
  <2>1. UNCHANGED <<lease, alive, stops, doing>>
    BY <1>4 DEF cvars, vars, store
  <2>2. \A e : Dead(e)' <=> Dead(e)
    BY <2>1 DEF Dead, Live
  <2>3. CommandsFit' /\ NoDeployOverAnother' = NoDeployOverAnother
    BY <2>1, <2>2 DEF CommandsInv, CommandsFit, NoDeployOverAnother, Changing
  <2>4. SessionsApart'
    <3>1. \A a : Sessions(a)' = Sessions(a)
      BY <2>1, <2>2 DEF Sessions
    <3> QED
      BY <2>1, <3>1, ApartKeeps DEF CommandsInv
  <2>5. ChangesCovered'
    BY <2>1, <2>2 DEF CommandsInv, ChangesCovered, Covered, Changing
  <2> QED
    BY <1>2, <1>3, <2>3, <2>4, <2>5 DEF CommandsInv
<1>5. CASE NextCommands
  <2>1. ASSUME NEW c \in Cmds, NEW a \in Agents, FindSession(c, a)
        PROVE  CommandsInv'
    BY <2>1, LooksKeep
  <2>2. ASSUME NEW c \in Cmds, NEW E \in SUBSET Envs, NEW keep \in BOOLEAN, NEW e \in E,
               TakeSession(c, E, e, keep)
        PROVE  CommandsInv'
    BY <2>2, TakeSessionKeeps
  <2>3. ASSUME NEW c \in Cmds, NEW E \in SUBSET Envs, NEW wait \in BOOLEAN,
               TakeNothing(c, E, wait) \/ Inspect(c, E)
        PROVE  CommandsInv'
    BY <2>3, LooksKeep
  <2>4. ASSUME NEW c \in Cmds, NEW a \in Agents, NEW e \in Envs,
               TakeRun(c, a, e) \/ CheckGuard(c, a, e)
        PROVE  CommandsInv'
    BY <2>4, TakeRunKeeps, CheckGuardKeeps
  <2>5. ASSUME \/ \E c \in Cmds, a \in Agents, e \in Envs, session, keepRunning \in BOOLEAN :
                    LetGo(c, a, e, session, keepRunning)
               \/ \E c \in Cmds : RunStops(c) /\ doing' = doing
               \/ DisturbCommands
               \/ \E c \in Cmds : ChangeEnds(c)
        PROVE  CommandsInv'
    BY <2>5, DepartsKeep
  <2>6. \/ \E c \in Cmds, a \in Agents : FindSession(c, a)
        \/ \E c \in Cmds, E \in SUBSET Envs, keep \in BOOLEAN :
             \E e \in E : TakeSession(c, E, e, keep)
        \/ \E c \in Cmds, E \in SUBSET Envs, wait \in BOOLEAN :
             TakeNothing(c, E, wait) \/ Inspect(c, E)
        \/ \E c \in Cmds, a \in Agents, e \in Envs : TakeRun(c, a, e) \/ CheckGuard(c, a, e)
        \/ \E c \in Cmds, a \in Agents, e \in Envs, session, keepRunning \in BOOLEAN :
             LetGo(c, a, e, session, keepRunning)
        \/ \E c \in Cmds : RunStops(c) /\ doing' = doing
        \/ DisturbCommands
        \/ \E c \in Cmds : ChangeEnds(c)
    <3>1. CASE DisturbCommands
      BY <3>1
    <3>2. ASSUME NEW c \in Cmds, NEW E \in SUBSET Envs, Inspect(c, E)
          PROVE  \E d \in Cmds, F \in SUBSET Envs, wait \in BOOLEAN :
                   TakeNothing(d, F, wait) \/ Inspect(d, F)
      <4>1. TRUE \in BOOLEAN
        OBVIOUS
      <4> QED
        BY <3>2, <4>1
    <3> QED
      BY <1>5, <3>1, <3>2, Zenon DEF NextCommands
  <2>7. CommandsInv'
    BY <2>1, <2>2, <2>3, <2>4, <2>5, <2>6, Zenon
  <2> QED
    BY <1>2, <1>3, <2>7
<1> QED
  BY <1>4, <1>5

(***************************************************************************)
(* The commands' invariant holds, each part for the users who keep to the  *)
(* habit it names.                                                         *)
(***************************************************************************)
THEOREM CommandsInvariant == SpecCommands => [](IInv /\ StopCovered /\ CommandsInv)
<1>1. InitCommands => IInv /\ StopCovered /\ CommandsInv
  <2>1. InitCommands => Init
    BY DEF InitCommands
  <2>2. Init => StopCovered
    BY DEF Init, StopCovered, HeldWhileStopped
  <2> QED
    BY <2>1, <2>2, InitInv, CommandsInit
<1>2. IInv /\ StopCovered /\ CommandsInv /\ [NextCommands]_cvars
        => (IInv /\ StopCovered /\ CommandsInv)'
  BY CommandsNext
<1> QED
  BY <1>1, <1>2, PTL DEF SpecCommands

(***************************************************************************)
(* Commands of several locked sections use the lease store as module Lease *)
(* specifies it: everything proved of the store holds under them.          *)
(***************************************************************************)
THEOREM CommandsUseLeases == SpecCommands => Spec
<1>1. InitCommands => Init
  BY DEF InitCommands
<1>2. CommandsInv /\ [NextCommands]_cvars => [Next]_vars
  BY CommandIsOperation DEF CommandsInv
<1> QED
  BY <1>1, <1>2, CommandsInvariant, PTL DEF SpecCommands, Spec

\* What is counted of a set with one member at most.
LEMMA AtMostOne == 0 <= 1 /\ 1 <= 1
  BY SMT

(***************************************************************************)
(* "A session holds one environment", for sessions that run one acquire at *)
(* a time: between the look and the taking anything may happen to leases.  *)
(***************************************************************************)
THEOREM OneSessionPerAgentHolds ==
  ASSUME "one-acquire" \in Habits
  PROVE  SpecCommands => []OneSessionPerAgent
<1>1. ASSUME CommandsInv
      PROVE  OneSessionPerAgent
  <2> SUFFICES ASSUME NEW a \in Agents PROVE Cardinality(Sessions(a)) <= 1
    BY DEF OneSessionPerAgent
  <2>1. \A e, f \in Sessions(a) : e = f
    BY <1>1 DEF CommandsInv, SessionsApart
  <2>2. CASE Sessions(a) = {}
    <3>1. Cardinality(Sessions(a)) = 0
      BY <2>2, FS_EmptySet, Zenon
    <3> QED
      BY <3>1, AtMostOne, Zenon
  <2>3. CASE Sessions(a) # {}
    <3>1. PICK e \in Sessions(a) : Sessions(a) = {e}
      BY <2>1, <2>3
    <3>2. Cardinality(Sessions(a)) = 1
      BY <3>1, FS_Singleton, Zenon
    <3> QED
      BY <3>2, AtMostOne, Zenon
  <2> QED
    BY <2>2, <2>3
<1> QED
  BY <1>1, CommandsInvariant, PTL

(***************************************************************************)
(* No command changes an environment another agent holds, where nobody     *)
(* leases what a command is changing: the guard asks only once.            *)
(***************************************************************************)
THEOREM NoDeployOverAnotherHolds ==
  ASSUME "takes-idle" \in Habits
  PROVE  SpecCommands => []NoDeployOverAnother
<1>1. CommandsInv => NoDeployOverAnother
  BY DEF CommandsInv
<1> QED
  BY <1>1, CommandsInvariant, PTL

(***************************************************************************)
(* Nobody stops an environment under a command that changes it, where its  *)
(* user waits for it too, and no stop is stolen from or outlasts stopTTL.  *)
(***************************************************************************)
THEOREM NoStopUnderChangeHolds ==
  ASSUME {"takes-idle", "waits"} \subseteq Habits, Faults \cap {"steal", "longstop"} = {}
  PROVE  SpecCommands => []NoStopUnderChange
<1>1. CommandsInv => NoStopUnderChange
  BY DEF CommandsInv, ChangesCovered, Covered, NoStopUnderChange, Stopping
<1> QED
  BY <1>1, CommandsInvariant, PTL
=============================================================================
