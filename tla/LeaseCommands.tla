--------------------------- MODULE LeaseCommands ---------------------------
(***************************************************************************)
(* The commands that use the lease store in more than one locked section   *)
(* (cmd/env_lease.go): `env lease acquire --session`, which first looks    *)
(* for the session's own lease and then takes one, and every command that  *)
(* changes an environment, which asks once, before it starts, whether it   *)
(* may (leaseGuard).  Between two sections anything else may happen.       *)
(***************************************************************************)
EXTENDS Lease

CONSTANT Habits   \* what the users keep to, a subset of AllHabits

\* A session runs one acquire at a time; nobody leases an environment that a
\* command is changing; a user's lease outlasts his commands.
AllHabits == {"one-acquire", "takes-idle", "waits"}

ASSUME HabitsAssumption == Habits \subseteq AllHabits

VARIABLE doing   \* doing[c]: what c is in the middle of, for which agent

cvars == <<vars, doing>>

Doing(op, a, e) == [op |-> op, agent |-> a, env |-> e]
Idle == Doing("idle", Nobody, 0)

InitCommands == Init /\ doing = [c \in Cmds |-> Idle]

Start(c, op, a, e) == doing' = [doing EXCEPT ![c] = Doing(op, a, e)]
Finish(c) == doing' = [doing EXCEPT ![c] = Idle]

\* Agent a has a command that does op on one of the environments E.
Busy(a, op, E) ==
  \E c \in alive \cap Cmds :
    doing[c].op = op /\ doing[c].agent = a /\ doing[c].env \in E

\* Nobody's command is changing e.
Quiet(e) == \A a \in Agents : ~Busy(a, "change", {e})

\* Whether a user who keeps to his habits asks for a lease on e.
Asks(e) == "takes-idle" \in Habits => Quiet(e)

\* The session leases of agent a.
Sessions(a) ==
  {e \in Envs : lease[e].kind = "session" /\ lease[e].owner = a /\ ~Dead(e)}

\* BySessionPID: the files are read in order up to a's session lease, if any.
ReadBySessionPID(a) ==
  {e \in Envs : \A f \in Sessions(a) : e <= f}

\* Mutant: the session's own lease is not looked for.
FindSessionBlind(c, a) ==
  /\ doing[c] = Idle /\ a \in alive
  /\ "one-acquire" \in Habits => ~Busy(a, "acquire", {0})
  /\ Look(c, ReadBySessionPID(a))
  /\ Start(c, "acquire", a, 0)

\* acquire --session, its first section: a has no session lease yet.
FindSession(c, a) ==
  /\ doing[c] = Idle /\ a \in alive
  /\ "one-acquire" \in Habits => ~Busy(a, "acquire", {0})
  /\ Look(c, ReadBySessionPID(a))
  /\ IF Sessions(a) = {} THEN Start(c, "acquire", a, 0) ELSE UNCHANGED doing

\* Its second section: take e, or the first of the pool's free environments.
TakeSession(c, E, e, keep) ==
  /\ doing[c].op = "acquire" /\ Asks(e)
  /\ AcquireFromPool(c, doing[c].agent, E, e, "session", keep)
  /\ Finish(c)

\* ... or nothing is free and the command fails, or queues and looks again.
TakeNothing(c, E, wait) ==
  /\ doing[c].op = "acquire"
  /\ \A e \in E : ~MayTake(c, e, FALSE)
  /\ Look(c, E)
  /\ IF wait THEN UNCHANGED doing ELSE Finish(c)

\* Everything else that reads leases: list, heartbeat, a refused command.
Inspect(c, E) == doing[c] = Idle /\ Look(c, E) /\ UNCHANGED doing

\* A run's lease is taken in one section.
TakeRun(c, a, e) ==
  /\ doing[c] = Idle /\ Asks(e)
  /\ Acquire(c, a, e, "run", FALSE, FALSE)
  /\ UNCHANGED doing

\* Mutant: whoever has ever had a token may change the environment.
MayChangeStale(c, a, e) == ~IsHeld(Current(c, e)) \/ knows[a][e] # 0

\* Mutant: an environment that is being stopped counts as free.
MayChangeStopping(c, a, e) == Current(c, e).kind \notin Kinds \/ Holds(a, e)

\* Check: nobody holds e, or a does.
MayChange(c, a, e) == ~IsHeld(Current(c, e)) \/ Holds(a, e)

\* leaseGuard.check, the first thing a command that changes e does.
CheckGuard(c, a, e) ==
  /\ doing[c] = Idle /\ a \in alive
  /\ MayChange(c, a, e)
  /\ Look(c, {e})
  /\ Start(c, "change", a, e)

\* The command is done with e.
ChangeEnds(c) ==
  /\ Ready(c)
  /\ doing[c].op = "change"
  /\ Finish(c)
  /\ UNCHANGED vars

LetGo(c, a, e, session, keepRunning) ==
  /\ doing[c] = Idle
  /\ "waits" \in Habits => ~Busy(a, "change", {e})
  /\ Release(c, a, e, session, keepRunning)
  /\ UNCHANGED doing

\* A user who waits for his command does not exit or fall silent meanwhile.
DisturbCommands ==
  /\ \/ \E a \in Agents : Exit(a) /\ ("waits" \in Habits => ~Busy(a, "change", Envs))
     \/ \E e \in Envs :
          Lapse(e) /\ ("waits" \in Habits => ~Busy(lease[e].owner, "change", {e}))
  /\ UNCHANGED doing

NextCommands ==
  \/ \E c \in Cmds :
       \/ \E a \in Agents : FindSession(c, a)
       \/ \E E \in SUBSET Envs, keep \in BOOLEAN : \E e \in E : TakeSession(c, E, e, keep)
       \/ \E E \in (SUBSET Envs) \ {{}}, wait \in BOOLEAN : TakeNothing(c, E, wait)
       \/ \E E \in SUBSET Envs : Inspect(c, E)
       \/ \E a \in Agents, e \in Envs : TakeRun(c, a, e) \/ CheckGuard(c, a, e)
       \/ ChangeEnds(c)
       \/ \E a \in Agents, e \in Envs, session, keepRunning \in BOOLEAN :
            LetGo(c, a, e, session, keepRunning)
       \/ RunStops(c) /\ UNCHANGED doing
  \/ DisturbCommands

SpecCommands == InitCommands /\ [][NextCommands]_cvars

-----------------------------------------------------------------------------
(* Properties *)

\* "A session holds one environment": a second acquire --session is answered
\* with the lease the session has (BySessionPID before the acquire).
OneSessionPerAgent == \A a \in Agents : Cardinality(Sessions(a)) <= 1

Changing(c, e) == c \in alive /\ doing[c].op = "change" /\ doing[c].env = e

\* While a run or session holds an environment, no command of anyone else is
\* changing it: "concurrent sessions cannot deploy over each other".
NoDeployOverAnother ==
  \A c \in Cmds, e \in Envs :
    Changing(c, e) /\ lease[e].kind \in Kinds /\ ~Dead(e)
      => doing[c].agent = lease[e].owner

\* Nobody stops an environment while a command is changing it.
NoStopUnderChange ==
  \A c, d \in Cmds, e \in Envs :
    ~(Changing(c, e) /\ at[d] = "stopping" /\ Stopping(d, e))

-----------------------------------------------------------------------------
(* The inductive invariant behind the properties *)

\* Every command that is in the middle of something does it for an agent; no
\* nsctl process dies here.
CommandsFit ==
  /\ Cmds \subseteq alive
  /\ doing \in [Cmds -> [op : {"idle", "acquire", "change"},
                         agent : Agents \cup {Nobody}, env : 0 .. NumEnvs]]
  /\ \A c \in Cmds :
       /\ doing[c].op # "idle" => doing[c].agent \in Agents
       /\ doing[c].op = "acquire" => doing[c].env = 0
       /\ doing[c].op = "change" => doing[c].env \in Envs

\* Between the two sections of an acquire its agent gets no session: only that
\* acquire could take one.
SessionsApart ==
  "one-acquire" \in Habits =>
    /\ \A a \in Agents : \A e, f \in Sessions(a) : e = f
    /\ \A c, d \in Cmds :
         doing[c].op = "acquire" /\ doing[d].op = "acquire"
           /\ doing[c].agent = doing[d].agent => c = d
    /\ \A c \in Cmds, a \in Agents :
         doing[c].op = "acquire" /\ doing[c].agent = a => Sessions(a) = {}

\* What c changes is free or its agent's, who lives; and no stop of it is owed.
Covered(c, e) ==
  /\ \/ lease[e] = Free
     \/ lease[e].kind \in Kinds /\ ~Dead(e) /\ lease[e].owner = doing[c].agent
  /\ \A d \in Cmds : \A s \in stops[d] : s[1] # e

ChangesCovered ==
  {"takes-idle", "waits"} \subseteq Habits /\ Faults \cap {"steal", "longstop"} = {} =>
    \A c \in Cmds, e \in Envs : Changing(c, e) => Covered(c, e)

CommandsInv ==
  /\ CommandsFit
  /\ SessionsApart
  /\ "takes-idle" \in Habits => NoDeployOverAnother
  /\ ChangesCovered
=============================================================================
