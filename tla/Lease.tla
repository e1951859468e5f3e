------------------------------- MODULE Lease -------------------------------
(***************************************************************************)
(* The lease store of one HMD_HOME (internal/lease/lease.go): one lease    *)
(* file per environment, read and written by short-lived nsctl processes,  *)
(* every change made under the host's `leases` lock.  What one process     *)
(* does under the lock is one step here; what it does after letting go of  *)
(* the lock -- stopping the environments of sessions that ended -- is      *)
(* steps of its own.                                                       *)
(*                                                                         *)
(* A token is an environment and a generation: every new token of an       *)
(* environment has the next generation, so a token names one lease.  Time  *)
(* is a step, Lapse, that may pass any lease's TTL.  All processes run on  *)
(* one host and every lease watches a process.                             *)
(***************************************************************************)
EXTENDS Integers, FiniteSets

CONSTANTS
  Agents,   \* watched processes: a session, or the caller of a run
  Cmds,     \* nsctl processes
  NumEnvs,  \* how many environments there are
  MaxGen,   \* bound: how many tokens an environment gives out
  Faults,   \* what may disturb the holders, a subset of AllFaults
  Nobody    \* the holder of a free environment

\* A holder may exit or let its TTL pass, another may steal its lease, an
\* nsctl process may die, and a stop may take longer than stopTTL.
AllFaults == {"exit", "lapse", "steal", "crash", "longstop"}

ASSUME FaultsAssumption == Faults \subseteq AllFaults
ASSUME NumEnvsAssumption == NumEnvs \in Nat
ASSUME MaxGenAssumption == MaxGen \in Nat
ASSUME ProcessesAssumption ==
  Agents \cap Cmds = {} /\ Nobody \notin Agents \cup Cmds

\* Environments, in the order the store reads their files.
Envs == 1 .. NumEnvs

VARIABLES
  lease,  \* lease[e]: the lease file of e, Free when there is none
  gen,    \* gen[e]: the generation of e's newest token
  knows,  \* knows[a][e]: the generation of the token agent a has for e, or 0
  alive,  \* the processes that run
  at,     \* at[c]: what process c does between two locked sections
  stops,  \* stops[c]: the <<environment, generation>> of the stops c owes
  due     \* the environments whose session ended and that are not stopped yet

store == <<lease, gen, knows>>
vars  == <<store, alive, at, stops, due>>

Kinds == {"run", "session"}
Leases == [kind : Kinds \cup {"stop", "free"}, owner : Agents \cup Cmds \cup {Nobody},
           keep : BOOLEAN, lapsed : BOOLEAN, gen : Nat]

Free == [kind |-> "free", owner |-> Nobody, keep |-> FALSE, lapsed |-> FALSE,
         gen |-> 0]

\* A lease as grant writes it.
Granted(kind, owner, keep, g) ==
  [kind |-> kind, owner |-> owner, keep |-> keep /\ kind = "session",
   lapsed |-> FALSE, gen |-> g]

\* The run-scoped lease process c holds while it stops an environment.
Placeholder(c, g) == Granted("stop", c, FALSE, g)

Init ==
  /\ lease = [e \in Envs |-> Free]
  /\ gen = [e \in Envs |-> 0]
  /\ knows = [a \in Agents |-> [e \in Envs |-> 0]]
  /\ alive = Agents \cup Cmds
  /\ at = [c \in Cmds |-> "ready"]
  /\ stops = [c \in Cmds |-> {}]
  /\ due = {}

-----------------------------------------------------------------------------
(* Reading a lease *)

IsHeld(l) == l.kind # "free"

\* Mutant: the watched process is not looked at.
LiveByTTL(l) == ~l.lapsed

\* Its heartbeat is within its TTL and the process it watches lives.
Live(l) == ~l.lapsed /\ l.owner \in alive

Dead(e) == IsHeld(lease[e]) /\ ~Live(lease[e])

\* A session's end stops its environment, unless it asked to keep it running.
EndsInStop(l) == l.kind = "session" /\ ~l.keep

\* Mutant: a dead session's environment is simply free.
CurrentForgets(c, e) == IF Dead(e) THEN Free ELSE lease[e]

\* current: what c finds in e's file, a dead lease being reaped on the way.
Current(c, e) ==
  IF ~Dead(e) THEN lease[e]
  ELSE IF EndsInStop(lease[e]) THEN Placeholder(c, gen[e] + 1)
  ELSE Free

\* The sessions c finds dead when it reads the files of E.
Ended(E) == {e \in E : Dead(e) /\ EndsInStop(lease[e])}

\* Process c is between locked sections and owes no stop.
Ready(c) == c \in alive /\ at[c] = "ready"

\* The sessions of E ended: c owes a stop for each, with the next generation.
Owe(c, E) ==
  /\ stops' = [stops EXCEPT ![c] = {<<e, gen[e] + 1>> : e \in E}]
  /\ at' = [at EXCEPT ![c] = IF E = {} THEN "ready" ELSE "stopping"]
  /\ due' = due \cup E

\* Mutant: a placeholder carries the token of the lease it replaces.
NextGenSame(E) == gen

\* The generations once placeholders were written for the sessions E.
NextGen(E) == [e \in Envs |-> IF e \in E THEN gen[e] + 1 ELSE gen[e]]

-----------------------------------------------------------------------------
(* Operations under the lock *)

(***************************************************************************)
(* Read the files of E and change nothing else: Renew, Heartbeat, Check,   *)
(* List, ByToken, BySessionPID and every operation that is refused.  A     *)
(* renewed lease is a live one whose TTL starts again.                     *)
(***************************************************************************)
Look(c, E) ==
  /\ Ready(c)
  /\ lease' = [e \in Envs |-> IF e \in E THEN Current(c, e) ELSE lease[e]]
  /\ gen' = NextGen(Ended(E))
  /\ Owe(c, Ended(E))
  /\ UNCHANGED <<knows, alive>>

\* Mutant: takes an environment whoever holds it.
MayTakeAny(c, e, steal) == TRUE

\* Acquire's check, and whether it may go past a lease it found.
MayTake(c, e, steal) == ~IsHeld(Current(c, e)) \/ steal

\* grant, the files of E having been read first: e goes to agent a under a new
\* token.  A steal may replace the very placeholder this call wrote on reaping
\* a dead session: the stop is still owed.
Grant(c, a, E, e, kind, keep) ==
  LET reaped == Ended(E)
      g      == NextGen(reaped)[e] + 1
  IN  /\ g < MaxGen    \* bound: room for the placeholder of the new lease
      /\ lease' = [x \in Envs |-> IF x = e THEN Granted(kind, a, keep, g)
                                  ELSE IF x \in E THEN Current(c, x)
                                  ELSE lease[x]]
      /\ gen' = [NextGen(reaped) EXCEPT ![e] = g]
      /\ knows' = [knows EXCEPT ![a][e] = g]
      /\ Owe(c, reaped)
      /\ UNCHANGED alive

Acquire(c, a, e, kind, keep, steal) ==
  /\ Ready(c) /\ a \in alive
  /\ steal => "steal" \in Faults
  /\ MayTake(c, e, steal)
  /\ Grant(c, a, {e}, e, kind, keep)

\* One successful look of AcquireFromPool at the candidates E.
AcquireFromPool(c, a, E, e, kind, keep) ==
  /\ Ready(c) /\ a \in alive
  /\ e \in E
  /\ MayTake(c, e, FALSE)
  /\ Grant(c, a, E, e, kind, keep)

\* The token agent a presents for e is that of the live lease.
Holds(a, e) == IsHeld(lease[e]) /\ ~Dead(e) /\ knows[a][e] = lease[e].gen

\* A run inside a session releases "its" lease: only a session ends a session.
MayRelease(l, session) == l.kind = "session" => session

(***************************************************************************)
(* Release and ReleaseSession: the lease goes, and a session's is replaced *)
(* by a placeholder in the same section.                                   *)
(***************************************************************************)
Release(c, a, e, session, keepRunning) ==
  LET ended == IF EndsInStop(lease[e]) /\ ~keepRunning THEN {e} ELSE {}
  IN  /\ Ready(c)
      /\ Holds(a, e)
      /\ MayRelease(lease[e], session)
      /\ lease' = [lease EXCEPT ![e] =
                     IF ended = {} THEN Free ELSE Placeholder(c, gen[e] + 1)]
      /\ gen' = NextGen(ended)
      /\ knows' = [knows EXCEPT ![a][e] = 0]
      /\ Owe(c, ended)
      /\ UNCHANGED alive

-----------------------------------------------------------------------------
(* After the lock: runStops *)

\* c is stopping e, the first of the environments it owes a stop.
Stopping(c, e) ==
  /\ c \in alive
  /\ \E s \in stops[c] : s[1] = e
  /\ \A s \in stops[c] : e <= s[1]

\* OnSessionEnd returns: the stop ran, or failed and said so.
StopEnds(c, e) ==
  /\ at[c] = "stopping"
  /\ Stopping(c, e)
  /\ at' = [at EXCEPT ![c] = "stopped"]
  /\ due' = due \ {e}
  /\ UNCHANGED <<store, alive, stops>>

\* Mutant: gives back whatever lease is there now.
GivenBackAny(c, e, g) == [lease EXCEPT ![e] = Free]

\* Only the placeholder that was written for this stop is removed.
GivenBack(c, e, g) ==
  IF lease[e].gen = g THEN [lease EXCEPT ![e] = Free] ELSE lease

\* Under the lock again: c gives e back and turns to its next stop, if any.
GiveBack(c, e) ==
  /\ at[c] = "stopped"
  /\ Stopping(c, e)
  /\ \E s \in stops[c] :
       /\ s[1] = e
       /\ lease' = GivenBack(c, e, s[2])
       /\ stops' = [stops EXCEPT ![c] = @ \ {s}]
       /\ at' = [at EXCEPT ![c] = IF stops[c] = {s} THEN "ready" ELSE "stopping"]
  /\ UNCHANGED <<gen, knows, alive, due>>

-----------------------------------------------------------------------------
(* The world around the store *)

\* A watched process exits.
Exit(a) ==
  /\ "exit" \in Faults
  /\ a \in alive
  /\ alive' = alive \ {a}
  /\ UNCHANGED <<store, at, stops, due>>

\* An nsctl process dies, and with it the memory of the stops it owed.
Crash(c) ==
  /\ "crash" \in Faults
  /\ c \in alive
  /\ alive' = alive \ {c}
  /\ stops' = [stops EXCEPT ![c] = {}]
  /\ UNCHANGED <<store, at, due>>

\* A lease's TTL passes without a heartbeat.
Lapse(e) ==
  /\ IsHeld(lease[e]) /\ ~lease[e].lapsed
  /\ (IF lease[e].kind = "stop" THEN "longstop" ELSE "lapse") \in Faults
  /\ lease' = [lease EXCEPT ![e].lapsed = TRUE]
  /\ UNCHANGED <<gen, knows, alive, at, stops, due>>

Disturbance ==
  \/ \E a \in Agents : Exit(a)
  \/ \E c \in Cmds : Crash(c)
  \/ \E e \in Envs : Lapse(e)

RunStops(c) == \E e \in Envs : StopEnds(c, e) \/ GiveBack(c, e)

Operation(c) ==
  \/ \E E \in SUBSET Envs : Look(c, E)
  \/ \E a \in Agents, e \in Envs, kind \in Kinds, keep \in BOOLEAN :
       \/ \E steal \in BOOLEAN : Acquire(c, a, e, kind, keep, steal)
       \/ \E E \in SUBSET Envs : AcquireFromPool(c, a, E, e, kind, keep)
  \/ \E a \in Agents, e \in Envs, session, keepRunning \in BOOLEAN :
       Release(c, a, e, session, keepRunning)

Next ==
  \/ \E c \in Cmds : Operation(c) \/ RunStops(c)
  \/ Disturbance

Spec == Init /\ [][Next]_vars

(***************************************************************************)
(* A stop ends and the process that ran it gives the environment back; and *)
(* as long as some nsctl process runs, somebody reads every lease again    *)
(* and again, as a queued run or a heartbeating session does.              *)
(***************************************************************************)
Fairness ==
  \A c \in Cmds : WF_vars(RunStops(c)) /\ SF_vars(Look(c, Envs))

FairSpec == Spec /\ Fairness

-----------------------------------------------------------------------------
(* Properties *)

\* Every part of the state has its type.
TypeOK ==
  /\ lease \in [Envs -> Leases]
  /\ gen \in [Envs -> Nat]
  /\ knows \in [Agents -> [Envs -> Nat]]
  /\ alive \subseteq Agents \cup Cmds
  /\ at \in [Cmds -> {"ready", "stopping", "stopped"}]
  /\ stops \in [Cmds -> SUBSET (Envs \X Nat)]
  /\ due \subseteq Envs

\* What a lease file may hold: a placeholder is a stopping process's, a run's or
\* session's lease an agent's, and the token is one that was given out.
FilesFit ==
  \A e \in Envs :
    /\ lease[e].kind = "free" => lease[e] = Free
    /\ lease[e].kind = "stop" => lease[e].owner \in Cmds
    /\ lease[e].kind \in Kinds => lease[e].owner \in Agents
    /\ IsHeld(lease[e]) => lease[e].gen \in 1 .. gen[e]

\* An agent's token is that of no lease but its own, and nobody else's token.
TokensAreOnes ==
  \A a \in Agents, e \in Envs :
    /\ knows[a][e] <= gen[e]
    /\ knows[a][e] # 0 =>
         /\ knows[a][e] = lease[e].gen => lease[e].owner = a
         /\ \A b \in Agents : knows[a][e] = knows[b][e] => a = b

\* The token of a stop is no agent's, that of no lease but the placeholder
\* written for it, and that of no other process's stop.
StopTokensAreOnes ==
  \A c \in Cmds : \A s \in stops[c] :
    /\ s[2] \in 1 .. gen[s[1]]
    /\ \A a \in Agents : knows[a][s[1]] # s[2]
    /\ lease[s[1]].gen = s[2] => lease[s[1]].owner = c
    /\ \A d \in Cmds : s \in stops[d] => c = d

\* A process owes stops exactly from one locked section to the next, and one
\* for each environment.
StopsAreQueued ==
  \A c \in Cmds :
    /\ c \in alive => (stops[c] = {} <=> at[c] = "ready")
    /\ \A s, t \in stops[c] : s[1] = t[1] => s = t

\* A token names one lease, whoever dies, steals or is late: what the checks of
\* Renew, release, Check and runStops rely on.
IInv == TypeOK /\ FilesFit /\ TokensAreOnes /\ StopTokensAreOnes /\ StopsAreQueued

\* While an environment is stopped, or waits to be stopped or given back by a
\* process that lives, the placeholder written for that stop is its lease: "a
\* placeholder lease held by PID keeps the environment from being handed out"
\* (endSession, runStops).
HeldWhileStopped ==
  \A c \in alive \cap Cmds : \A s \in stops[c] :
    lease[s[1]] = Placeholder(c, s[2])

\* It is as long as nobody steals and no stop outlasts stopTTL: no run or
\* session works in an environment that is about to be stopped under it.
StopCovered ==
  Faults \cap {"steal", "longstop"} = {} => HeldWhileStopped

\* The environment of a session that ended goes to nobody before it was
\* stopped: it stays behind its placeholder (endSession, current, release),
\* provided also that the process that is to stop it lives.
StoppedBeforeHandedOut ==
  Faults \cap {"steal", "longstop", "crash"} = {} =>
    \A e \in due : lease[e].kind = "stop" /\ lease[e].owner \in alive

\* A live run or session loses its environment only by giving it back with its
\* own token, or to a steal: not to a late release, to the end of somebody
\* else's stop, or to another's acquire.
RightfulLoss ==
  [][\A e \in Envs :
       lease[e].kind \in Kinds /\ ~Dead(e) /\ lease'[e].gen # lease[e].gen
         => \/ knows'[lease[e].owner][e] = 0
            \/ "steal" \in Faults /\ lease'[e].kind \in Kinds]_vars

\* Some nsctl process always runs, or another starts.
SomebodyLooks == []<>(alive \cap Cmds # {})

\* A lease whose process died or whose TTL passed never wedges the pool: it is
\* reaped, placeholders included, whichever processes die on the way.
NeverWedged ==
  SomebodyLooks =>
    \A e \in Envs : []<>(~Dead(e)) /\ []<>(lease[e].kind # "stop")
=============================================================================
