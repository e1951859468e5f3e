------------------------------- MODULE EnvUse -------------------------------
(***************************************************************************)
(* What leases promise of each environment: it is used by one holder at a  *)
(* time, a use that ends in a stop is followed by that stop before the     *)
(* next use begins, and a use that is over without having been given back  *)
(* -- its holder died or fell silent -- does not stand in the next one's   *)
(* way for ever.                                                           *)
(***************************************************************************)
CONSTANTS Agents, Envs, Nobody

VARIABLE use  \* use[e]: who uses e and how far that use is

Phases == {"unused", "used", "over", "ending", "stopped"}

\* stop: whether the use ends in a stop.
State(phase, by, stop) == [phase |-> phase, by |-> by, stops |-> stop]
States == [phase : Phases, by : Agents \cup {Nobody}, stops : BOOLEAN]

Unused  == State("unused", Nobody, FALSE)
Ending  == State("ending", Nobody, FALSE)
Stopped == State("stopped", Nobody, FALSE)

\* A use begins, in an environment that is free or whose last user is gone and
\* left nothing to stop.
Begins(old, new) ==
  /\ old = Unused \/ (old.phase = "over" /\ ~old.stops)
  /\ \E a \in Agents, stop \in BOOLEAN : new = State("used", a, stop)

\* The user gives it back, and may ask not to have it stopped.
Ends(old, new) ==
  /\ old.phase = "used"
  /\ new = Unused \/ (old.stops /\ new = Ending)

Dies(old, new) == old.phase = "used" /\ new = [old EXCEPT !.phase = "over"]

\* Somebody notices that the user is gone.
Noticed(old, new) ==
  old.phase = "over" /\ new = IF old.stops THEN Ending ELSE Unused

Stops(old, new) == old = Ending /\ new = Stopped

Frees(old, new) == old = Stopped /\ new = Unused

Step(old, new) ==
  \/ Begins(old, new) \/ Ends(old, new) \/ Dies(old, new)
  \/ Noticed(old, new) \/ Stops(old, new) \/ Frees(old, new)

Init == use = [e \in Envs |-> Unused]

\* Environments move independently, several at once when one process reads
\* all their leases or when a user of several dies.
Next ==
  /\ use' \in [Envs -> States]
  /\ \A e \in Envs : use'[e] = use[e] \/ Step(use[e], use'[e])

Spec == Init /\ [][Next]_use

\* No environment stays between two uses.
Progress == \A e \in Envs : []<>(use[e].phase \in {"unused", "used"})

FairSpec == Spec /\ Progress
=============================================================================
