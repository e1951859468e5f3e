---------------------------- MODULE LeaseProofs ----------------------------
(***************************************************************************)
(* The lease store's safety for any number of agents, processes and        *)
(* environments.                                                           *)
(***************************************************************************)
EXTENDS LeaseRefines, TLAPS

-----------------------------------------------------------------------------
(* Reading and writing leases *)

\* What a process finds in a lease file is a lease; nothing, the lease as it
\* was, or a placeholder of its own with the next generation.
LEMMA CurrentFits ==
  ASSUME TypeOK, NEW c \in Cmds, NEW e \in Envs
  PROVE  /\ Current(c, e) \in Leases
         /\ \/ ~Dead(e) /\ Current(c, e) = lease[e]
            \/ Dead(e) /\ EndsInStop(lease[e]) /\ Current(c, e) = Placeholder(c, gen[e] + 1)
            \/ Dead(e) /\ ~EndsInStop(lease[e]) /\ Current(c, e) = Free
BY DEF TypeOK, Current, Leases, Free, Placeholder, Granted, Kinds

\* The generations never go back, and a session that ended has a new one.
LEMMA NextGenFits ==
  ASSUME TypeOK, NEW E
  PROVE  /\ NextGen(E) \in [Envs -> Nat]
         /\ \A e \in Envs : NextGen(E)[e] = IF e \in E THEN gen[e] + 1 ELSE gen[e]
BY DEF TypeOK, NextGen

\* After a locked section the process owes the stops of the sessions it ended.
LEMMA OweFits ==
  ASSUME TypeOK, NEW c \in Cmds, NEW E \in SUBSET Envs, Owe(c, E)
  PROVE  /\ stops' \in [Cmds -> SUBSET (Envs \X Nat)]
         /\ at' \in [Cmds -> {"ready", "stopping", "stopped"}]
         /\ due' \subseteq Envs
         /\ stops'[c] = {<<e, gen[e] + 1>> : e \in E}
         /\ stops'[c] = {} <=> at'[c] = "ready"
         /\ \A d \in Cmds \ {c} : stops'[d] = stops[d] /\ at'[d] = at[d]
<1>1. {<<e, gen[e] + 1>> : e \in E} \in SUBSET (Envs \X Nat)
  BY DEF TypeOK
<1>2. stops'[c] = {<<e, gen[e] + 1>> : e \in E}
  BY DEF TypeOK, Owe
<1>3. stops'[c] = {} <=> E = {}
  <2>1. CASE E = {}
    BY <1>2, <2>1
  <2>2. ASSUME NEW e \in E PROVE stops'[c] # {}
    <3>1. <<e, gen[e] + 1>> \in stops'[c]
      BY <1>2
    <3> QED
      BY <3>1
  <2> QED
    BY <2>1, <2>2
<1> QED
  BY <1>1, <1>2, <1>3 DEF TypeOK, Owe

\* With no leases and no stops the invariant holds.
LEMMA InitInv == Init => IInv
<1> SUFFICES ASSUME Init PROVE IInv
  OBVIOUS
<1>1. TypeOK
  BY DEF Init, TypeOK, Leases, Free
<1> QED
  BY <1>1 DEF Init, IInv, FilesFit, TokensAreOnes, StopTokensAreOnes, StopsAreQueued,
              Free, IsHeld, Kinds

-----------------------------------------------------------------------------
(* What one locked section of a process does to each environment *)

\* It leaves e alone or frees it; nobody learns a token.
Passed(e, S) ==
  /\ e \notin S /\ gen'[e] = gen[e]
  /\ lease'[e] = lease[e] \/ lease'[e] = Free
  /\ \A b \in Agents : knows'[b][e] \in {knows[b][e], 0}

\* It ends the session on e and writes c's placeholder.
Ending(c, e, S) ==
  /\ e \in S /\ gen'[e] = gen[e] + 1
  /\ lease'[e] = Placeholder(c, gen'[e])
  /\ \A b \in Agents : knows'[b][e] \in {knows[b][e], 0}

\* It grants e, whose session it may have ended before, to a.
Granting(a, e, S) ==
  /\ gen'[e] = IF e \in S THEN gen[e] + 2 ELSE gen[e] + 1
  /\ \E kind \in Kinds, keep \in BOOLEAN : lease'[e] = Granted(kind, a, keep, gen'[e])
  /\ \A b \in Agents : knows'[b][e] = IF b = a THEN gen'[e] ELSE knows[b][e]

\* The section in which c ends the sessions of S.
Section(c, S) ==
  /\ S \in SUBSET Envs
  /\ Owe(c, S)
  /\ alive' = alive
  /\ lease' \in [Envs -> Leases]
  /\ gen' \in [Envs -> Nat]
  /\ knows' \in [Agents -> [Envs -> Nat]]
  /\ \A e \in Envs : \/ Passed(e, S)
                     \/ Ending(c, e, S)
                     \/ \E a \in Agents : Granting(a, e, S)

\* Looking at the leases is a locked section that ends sessions and grants none.
LEMMA LookIsSection ==
  ASSUME TypeOK, NEW c \in Cmds, NEW E \in SUBSET Envs, Look(c, E)
  PROVE  /\ Section(c, Ended(E))
         /\ \A e \in Envs : Passed(e, Ended(E)) \/ Ending(c, e, Ended(E))
<1>1. \A e \in Envs : Passed(e, Ended(E)) \/ Ending(c, e, Ended(E))
  <2> TAKE e \in Envs
  <2>1. gen'[e] = IF e \in Ended(E) THEN gen[e] + 1 ELSE gen[e]
    BY NextGenFits DEF Look
  <2>2. lease'[e] = IF e \in E THEN Current(c, e) ELSE lease[e]
    BY DEF Look
  <2> QED
    BY <2>1, <2>2, CurrentFits DEF Ended, Look, Passed, Ending
<1>2. /\ Ended(E) \in SUBSET Envs
      /\ lease' \in [Envs -> Leases]
      /\ gen' \in [Envs -> Nat]
  BY CurrentFits, NextGenFits DEF Look, Ended, TypeOK
<1> QED
  BY <1>1, <1>2 DEF Section, Look, TypeOK

\* A grant is a locked section: one environment goes to an agent, other sessions may end.
LEMMA GrantIsSection ==
  ASSUME TypeOK, NEW c \in Cmds, NEW a \in Agents, NEW E \in SUBSET Envs, NEW e \in E,
         NEW kind \in Kinds, NEW keep \in BOOLEAN, Grant(c, a, E, e, kind, keep)
  PROVE  /\ Section(c, Ended(E))
         /\ \A x \in Envs \ {e} : Passed(x, Ended(E)) \/ Ending(c, x, Ended(E))
         /\ Granting(a, e, Ended(E))
<1> DEFINE S == Ended(E)
<1>1. \A x \in Envs : NextGen(S)[x] = (IF x \in S THEN gen[x] + 1 ELSE gen[x])
                     /\ NextGen(S)[x] \in Nat
  BY NextGenFits
<1>2. NextGen(S) \in [Envs -> Nat]
  BY NextGenFits
<1>3. gen' = [NextGen(S) EXCEPT ![e] = NextGen(S)[e] + 1]
      /\ lease' = [x \in Envs |-> IF x = e THEN Granted(kind, a, keep, NextGen(S)[e] + 1)
                                  ELSE IF x \in E THEN Current(c, x) ELSE lease[x]]
      /\ knows' = [knows EXCEPT ![a][e] = NextGen(S)[e] + 1]
  BY DEF Grant
<1> HIDE DEF S
<1>4. gen' \in [Envs -> Nat] /\ knows' \in [Agents -> [Envs -> Nat]]
  BY <1>1, <1>2, <1>3 DEF TypeOK
<1>5. Granting(a, e, S)
  <2>1. gen'[e] = NextGen(S)[e] + 1 /\ gen[e] \in Nat
    BY <1>2, <1>3 DEF TypeOK
  <2>2. \A b \in Agents : knows'[b][e] = IF b = a THEN gen'[e] ELSE knows[b][e]
    BY <1>3, <2>1 DEF TypeOK
  <2>3. gen'[e] = IF e \in S THEN gen[e] + 2 ELSE gen[e] + 1
    BY <1>1, <2>1
  <2>4. lease'[e] = Granted(kind, a, keep, gen'[e])
    BY <1>3, <2>1
  <2> QED
    BY <2>2, <2>3, <2>4 DEF Granting
<1>6. \A x \in Envs \ {e} : Passed(x, S) \/ Ending(c, x, S)
  <2> TAKE x \in Envs \ {e}
  <2>1. gen'[x] = IF x \in S THEN gen[x] + 1 ELSE gen[x]
    BY <1>1, <1>2, <1>3
  <2>2. lease'[x] = IF x \in E THEN Current(c, x) ELSE lease[x]
    BY <1>3
  <2>3. \A b \in Agents : knows'[b][x] = knows[b][x]
    BY <1>3 DEF TypeOK
  <2> QED
    BY <2>1, <2>2, <2>3, CurrentFits DEF S, Ended, Passed, Ending
<1>7. lease' \in [Envs -> Leases]
  <2>1. NextGen(S)[e] + 1 \in Nat
    BY <1>1
  <2>2. Granted(kind, a, keep, NextGen(S)[e] + 1) \in Leases
    BY <2>1 DEF Granted, Leases, Kinds
  <2> QED
    BY <1>3, <2>2, CurrentFits DEF TypeOK
<1>8. S \in SUBSET Envs /\ Owe(c, S) /\ alive' = alive
  BY DEF S, Ended, Grant
<1> QED
  BY <1>4, <1>5, <1>6, <1>7, <1>8 DEF Section, S

\* The sessions a release ends.
Released(e, keepRunning) == IF EndsInStop(lease[e]) /\ ~keepRunning THEN {e} ELSE {}

\* A release is a locked section that ends the session of what it lets go.
LEMMA ReleaseIsSection ==
  ASSUME TypeOK, NEW c \in Cmds, NEW a \in Agents, NEW e \in Envs,
         NEW session, NEW keepRunning, Release(c, a, e, session, keepRunning)
  PROVE  /\ Section(c, Released(e, keepRunning))
         /\ \A x \in Envs : \/ Passed(x, Released(e, keepRunning))
                            \/ Ending(c, x, Released(e, keepRunning))
         /\ \A x \in Envs \ {e} : lease'[x] = lease[x]
         /\ knows'[a][e] = 0
<1> DEFINE S == Released(e, keepRunning)
<1>1. S \in SUBSET Envs /\ (S = {} \/ S = {e})
  BY DEF Released
<1>2. /\ lease' = [lease EXCEPT ![e] = IF S = {} THEN Free ELSE Placeholder(c, gen[e] + 1)]
      /\ gen' = NextGen(S)
      /\ knows' = [knows EXCEPT ![a][e] = 0]
      /\ Owe(c, S) /\ alive' = alive
  BY DEF Release, Released
<1> HIDE DEF S
<1>3. gen' \in [Envs -> Nat] /\ knows' \in [Agents -> [Envs -> Nat]]
  BY <1>2, NextGenFits DEF TypeOK
<1>4. lease' \in [Envs -> Leases]
  BY <1>2 DEF TypeOK, Leases, Free, Placeholder, Granted
<1>5. \A x \in Envs : Passed(x, S) \/ Ending(c, x, S)
  <2> TAKE x \in Envs
  <2>1. gen'[x] = IF x \in S THEN gen[x] + 1 ELSE gen[x]
    BY <1>2, NextGenFits
  <2>2. \A b \in Agents : knows'[b][x] \in {knows[b][x], 0}
    BY <1>2 DEF TypeOK
  <2>3. lease'[x] = IF x # e THEN lease[x]
                    ELSE IF S = {} THEN Free ELSE Placeholder(c, gen[e] + 1)
    BY <1>2 DEF TypeOK
  <2> QED
    BY <1>1, <2>1, <2>2, <2>3 DEF Passed, Ending
<1>6. (\A x \in Envs \ {e} : lease'[x] = lease[x]) /\ knows'[a][e] = 0
  BY <1>2 DEF TypeOK
<1> QED
  BY <1>1, <1>2, <1>3, <1>4, <1>5, <1>6 DEF Section, S

-----------------------------------------------------------------------------
(* The invariant is inductive *)

\* A locked section keeps it.
LEMMA SectionKeeps ==
  ASSUME IInv, NEW c \in Cmds, NEW S, Section(c, S)
  PROVE  IInv'
<1> USE DEF IInv
<1>1. TypeOK'
  BY OweFits DEF Section, TypeOK
<1>2. FilesFit'
  <2> SUFFICES ASSUME NEW e \in Envs
               PROVE  /\ lease'[e].kind = "free" => lease'[e] = Free
                      /\ lease'[e].kind = "stop" => lease'[e].owner \in Cmds
                      /\ lease'[e].kind \in Kinds => lease'[e].owner \in Agents
                      /\ IsHeld(lease'[e]) => lease'[e].gen \in 1 .. gen'[e]
    BY DEF FilesFit
  <2>1. gen[e] \in Nat
    BY DEF TypeOK
  <2>2. CASE Passed(e, S)
    <3>1. CASE lease'[e] = Free
      BY <3>1 DEF Free, IsHeld, Kinds
    <3>2. CASE lease'[e] = lease[e]
      BY <2>2, <3>2 DEF Passed, FilesFit
    <3> QED
      BY <2>2, <3>1, <3>2 DEF Passed
  <2>3. CASE Ending(c, e, S)
    BY <2>1, <2>3 DEF Ending, Placeholder, Granted, Kinds
  <2>4. ASSUME NEW a \in Agents, Granting(a, e, S)
        PROVE  /\ lease'[e].kind \in Kinds /\ lease'[e].owner \in Agents
               /\ lease'[e].gen \in 1 .. gen'[e]
    BY <2>1, <2>4 DEF Granting, Granted
  <2> QED
    BY <2>2, <2>3, <2>4 DEF Section, Kinds
<1>3. TokensAreOnes'
  <2> SUFFICES ASSUME NEW a \in Agents, NEW e \in Envs
               PROVE  /\ knows'[a][e] <= gen'[e]
                      /\ knows'[a][e] # 0 =>
                           /\ knows'[a][e] = lease'[e].gen => lease'[e].owner = a
                           /\ \A b \in Agents : knows'[a][e] = knows'[b][e] => a = b
    BY DEF TokensAreOnes
  <2>1. gen[e] \in Nat /\ \A b \in Agents : knows[b][e] \in Nat /\ knows[b][e] <= gen[e]
    BY DEF TypeOK, TokensAreOnes
  <2>2. CASE Passed(e, S)
    BY <2>1, <2>2 DEF Passed, TokensAreOnes, Free
  <2>3. CASE Ending(c, e, S)
    BY <2>1, <2>3 DEF Ending, TokensAreOnes, Placeholder, Granted
  <2>4. ASSUME NEW h \in Agents, Granting(h, e, S)
        PROVE  /\ knows'[a][e] <= gen'[e]
               /\ knows'[a][e] # 0 =>
                    /\ knows'[a][e] = lease'[e].gen => lease'[e].owner = a
                    /\ \A b \in Agents : knows'[a][e] = knows'[b][e] => a = b
    <3>1. gen'[e] > gen[e] /\ gen'[e] \in Nat
      BY <2>1, <2>4 DEF Granting
    <3>2. \A b \in Agents \ {h} : knows'[b][e] = knows[b][e] /\ knows'[b][e] # gen'[e]
      BY <2>1, <2>4, <3>1 DEF Granting
    <3>3. knows'[h][e] = gen'[e] /\ lease'[e].gen = gen'[e] /\ lease'[e].owner = h
      BY <2>4 DEF Granting, Granted
    <3> QED
      BY <2>1, <3>1, <3>2, <3>3 DEF TokensAreOnes
  <2> QED
    BY <2>2, <2>3, <2>4 DEF Section
<1>4. StopTokensAreOnes'
  <2> SUFFICES ASSUME NEW d \in Cmds, NEW s \in stops'[d]
               PROVE  /\ s[2] \in 1 .. gen'[s[1]]
                      /\ \A a \in Agents : knows'[a][s[1]] # s[2]
                      /\ lease'[s[1]].gen = s[2] => lease'[s[1]].owner = d
                      /\ \A b \in Cmds : s \in stops'[b] => d = b
    BY DEF StopTokensAreOnes
  <2>1. S \in SUBSET Envs /\ Owe(c, S)
    BY DEF Section
  <2>2. \A b \in Cmds \ {c} : stops'[b] = stops[b]
    BY <2>1, OweFits
  <2>3. \A t \in stops'[c] : t[1] \in S /\ t[2] = gen[t[1]] + 1
    BY <2>1, OweFits
  <2> DEFINE e == s[1]
  <2>4. e \in Envs /\ gen[e] \in Nat /\ \A a \in Agents : knows[a][e] \in Nat /\ knows[a][e] <= gen[e]
    <3>1. s \in Envs \X Nat
      BY <2>1, OweFits
    <3> QED
      BY <3>1 DEF TypeOK, TokensAreOnes
  <2>5. CASE d = c
    <3>1. e \in S /\ s[2] = gen[e] + 1
      BY <2>3, <2>5
    <3>2. \A b \in Cmds \ {c} : s \notin stops'[b]
      BY <2>2, <2>4, <3>1 DEF StopTokensAreOnes
    <3>3. CASE Ending(c, e, S)
      BY <2>4, <2>5, <3>1, <3>2, <3>3 DEF Ending, Placeholder, Granted
    <3>4. ASSUME NEW a \in Agents, Granting(a, e, S)
          PROVE  /\ s[2] \in 1 .. gen'[e]
                 /\ \A b \in Agents : knows'[b][e] # s[2]
                 /\ lease'[e].gen # s[2]
      BY <2>4, <3>1, <3>4 DEF Granting, Granted
    <3> QED
      BY <2>4, <2>5, <3>1, <3>2, <3>3, <3>4 DEF Section, Passed
  <2>6. CASE d # c
    <3>1. s \in stops[d] /\ s[2] \in 1 .. gen[e]
      BY <2>2, <2>6 DEF StopTokensAreOnes
    <3>2. \A b \in Cmds : s \in stops'[b] => d = b
      BY <2>2, <2>3, <2>4, <2>6, <3>1 DEF StopTokensAreOnes
    <3>3. \A a \in Agents : knows[a][e] # s[2]
      BY <3>1 DEF StopTokensAreOnes
    <3>4. CASE Passed(e, S)
      BY <2>4, <3>1, <3>2, <3>3, <3>4 DEF Passed, StopTokensAreOnes, Free
    <3>5. CASE Ending(c, e, S)
      BY <2>4, <3>1, <3>2, <3>3, <3>5 DEF Ending, Placeholder, Granted
    <3>6. ASSUME NEW a \in Agents, Granting(a, e, S)
          PROVE  /\ s[2] \in 1 .. gen'[e]
                 /\ \A b \in Agents : knows'[b][e] # s[2]
                 /\ lease'[e].gen # s[2]
      BY <2>4, <3>1, <3>3, <3>6 DEF Granting, Granted
    <3> QED
      BY <2>4, <3>2, <3>4, <3>5, <3>6 DEF Section
  <2> QED
    BY <2>5, <2>6
<1>5. StopsAreQueued'
  <2>1. Owe(c, S) /\ S \in SUBSET Envs
    BY DEF Section
  <2>2. stops'[c] = {<<e, gen[e] + 1>> : e \in S}
    BY <2>1, OweFits
  <2>3. stops'[c] = {} <=> at'[c] = "ready"
    BY <2>1, OweFits
  <2>4. \A s, t \in stops'[c] : s[1] = t[1] => s = t
    BY <2>2
  <2>5. \A d \in Cmds \ {c} : stops'[d] = stops[d] /\ at'[d] = at[d]
    BY <2>1, OweFits
  <2> QED
    BY <2>3, <2>4, <2>5 DEF Section, StopsAreQueued
<1> QED
  BY <1>1, <1>2, <1>3, <1>4, <1>5

\* Giving an environment back keeps it: the stop's token leaves with its file.
LEMMA GiveBackKeeps ==
  ASSUME IInv, NEW c \in Cmds, NEW e \in Envs, GiveBack(c, e)
  PROVE  IInv'
<1> USE DEF IInv
<1>1. PICK s \in stops[c] :
        /\ s[1] = e
        /\ lease' = GivenBack(c, e, s[2])
        /\ stops' = [stops EXCEPT ![c] = @ \ {s}]
        /\ at' = [at EXCEPT ![c] = IF stops[c] = {s} THEN "ready" ELSE "stopping"]
  BY DEF GiveBack
<1>2. gen' = gen /\ knows' = knows /\ alive' = alive /\ due' = due
  BY DEF GiveBack
<1>3. \A x \in Envs : lease'[x] = lease[x] \/ lease'[x] = Free
  BY <1>1 DEF GivenBack, TypeOK
<1>4. stops'[c] = stops[c] \ {s} /\ \A d \in Cmds \ {c} : stops'[d] = stops[d]
  BY <1>1 DEF TypeOK
<1>5. TypeOK'
  BY <1>1, <1>2 DEF TypeOK, GivenBack, Leases, Free
<1>6. FilesFit'
  <2> SUFFICES ASSUME NEW x \in Envs
               PROVE  /\ lease'[x].kind = "free" => lease'[x] = Free
                      /\ lease'[x].kind = "stop" => lease'[x].owner \in Cmds
                      /\ lease'[x].kind \in Kinds => lease'[x].owner \in Agents
                      /\ IsHeld(lease'[x]) => lease'[x].gen \in 1 .. gen'[x]
    BY DEF FilesFit
  <2>1. CASE lease'[x] = Free
    BY <2>1 DEF Free, IsHeld, Kinds
  <2>2. CASE lease'[x] = lease[x]
    BY <1>2, <2>2 DEF FilesFit
  <2> QED
    BY <1>3, <2>1, <2>2
<1>7. TokensAreOnes'
  BY <1>2, <1>3 DEF TypeOK, TokensAreOnes, Free
<1>8. StopTokensAreOnes'
  <2>1. \A d \in Cmds : stops'[d] \subseteq stops[d]
    BY <1>4
  <2>2. \A d \in Cmds : \A t \in stops'[d] : t[1] \in Envs /\ t[2] # 0
    BY <2>1 DEF TypeOK, StopTokensAreOnes
  <2> QED
    BY <1>2, <1>3, <2>1, <2>2 DEF StopTokensAreOnes, Free
<1>9. StopsAreQueued'
  <2>1. stops'[c] = {} <=> at'[c] = "ready"
    BY <1>1, <1>4 DEF TypeOK
  <2>2. \A d \in Cmds \ {c} : stops'[d] = stops[d] /\ at'[d] = at[d]
    BY <1>1, <1>4 DEF TypeOK
  <2> QED
    BY <1>2, <1>4, <2>1, <2>2 DEF StopsAreQueued
<1> QED
  BY <1>5, <1>6, <1>7, <1>8, <1>9

\* So does everything around the store.
LEMMA DisturbanceKeeps == IInv /\ Disturbance => IInv'
<1> SUFFICES ASSUME IInv, Disturbance PROVE IInv'
  OBVIOUS
<1> USE DEF IInv
<1>1. ASSUME NEW a \in Agents, Exit(a) PROVE IInv'
  BY <1>1 DEF Exit, store, TypeOK, FilesFit, TokensAreOnes, StopTokensAreOnes, StopsAreQueued
<1>2. ASSUME NEW c \in Cmds, Crash(c) PROVE IInv'
  <2>1. \A d \in Cmds : stops'[d] = IF d = c THEN {} ELSE stops[d]
    BY <1>2 DEF Crash, TypeOK
  <2>2. TypeOK'
    BY <1>2 DEF Crash, store, TypeOK
  <2>3. FilesFit' /\ TokensAreOnes'
    BY <1>2 DEF Crash, store, FilesFit, TokensAreOnes
  <2>4. StopTokensAreOnes'
    BY <1>2, <2>1 DEF Crash, store, StopTokensAreOnes
  <2>5. StopsAreQueued'
    BY <1>2, <2>1 DEF Crash, StopsAreQueued
  <2> QED
    BY <2>2, <2>3, <2>4, <2>5
<1>3. ASSUME NEW e \in Envs, Lapse(e) PROVE IInv'
  <2>1. lease'[e] = [lease[e] EXCEPT !.lapsed = TRUE] /\ IsHeld(lease[e])
        /\ \A x \in Envs \ {e} : lease'[x] = lease[x]
    BY <1>3 DEF Lapse, TypeOK
  <2>2. /\ lease'[e].kind = lease[e].kind
        /\ lease'[e].owner = lease[e].owner
        /\ lease'[e].gen = lease[e].gen
    BY <2>1 DEF TypeOK, Leases
  <2>3. TypeOK'
    <3>1. lease[e] \in Leases /\ lease \in [Envs -> Leases]
      BY DEF TypeOK
    <3>2. [lease[e] EXCEPT !.lapsed = TRUE] \in Leases
      BY <3>1 DEF Leases
    <3>3. lease' = [lease EXCEPT ![e] = [lease[e] EXCEPT !.lapsed = TRUE]]
      BY <1>3, <3>1 DEF Lapse
    <3>4. lease' \in [Envs -> Leases]
      BY <3>1, <3>2, <3>3
    <3> QED
      BY <1>3, <3>4 DEF Lapse, TypeOK
  <2>4. FilesFit'
    BY <1>3, <2>1, <2>2 DEF Lapse, FilesFit, IsHeld
  <2>5. TokensAreOnes'
    BY <1>3, <2>1, <2>2 DEF Lapse, TokensAreOnes
  <2>6. StopTokensAreOnes'
    BY <1>3, <2>1, <2>2 DEF Lapse, StopTokensAreOnes, TypeOK
  <2>7. StopsAreQueued'
    BY <1>3 DEF Lapse, StopsAreQueued
  <2> QED
    BY <2>3, <2>4, <2>5, <2>6, <2>7
<1> QED
  BY <1>1, <1>2, <1>3 DEF Disturbance

\* Every operation is one locked section.
LEMMA OperationIsSection ==
  ASSUME TypeOK, NEW c \in Cmds, Operation(c)
  PROVE  \E S : Section(c, S)
<1>1. ASSUME NEW E \in SUBSET Envs, Look(c, E) PROVE \E S : Section(c, S)
  BY <1>1, LookIsSection
<1>2. ASSUME NEW a \in Agents, NEW e \in Envs, NEW kind \in Kinds, NEW keep \in BOOLEAN,
             NEW E \in SUBSET Envs, e \in E, Grant(c, a, E, e, kind, keep)
      PROVE  \E S : Section(c, S)
  BY <1>2, GrantIsSection
<1>3. ASSUME NEW a \in Agents, NEW e \in Envs, NEW session, NEW keepRunning,
             Release(c, a, e, session, keepRunning)
      PROVE  \E S : Section(c, S)
  BY <1>3, ReleaseIsSection
<1>4. ASSUME NEW a \in Agents, NEW e \in Envs, NEW kind \in Kinds, NEW keep \in BOOLEAN
      PROVE  /\ \A steal \in BOOLEAN : Acquire(c, a, e, kind, keep, steal) => \E S : Section(c, S)
             /\ \A E \in SUBSET Envs :
                  AcquireFromPool(c, a, E, e, kind, keep) => \E S : Section(c, S)
  <2>1. ASSUME NEW steal \in BOOLEAN, Acquire(c, a, e, kind, keep, steal)
        PROVE  \E S : Section(c, S)
    <3>1. Grant(c, a, {e}, e, kind, keep) /\ {e} \in SUBSET Envs /\ e \in {e}
      BY <2>1 DEF Acquire
    <3>2. Section(c, Ended({e}))
      BY <3>1, GrantIsSection
    <3> QED
      BY <3>2
  <2>2. ASSUME NEW E \in SUBSET Envs, AcquireFromPool(c, a, E, e, kind, keep)
        PROVE  \E S : Section(c, S)
    BY <2>2, <1>2 DEF AcquireFromPool
  <2> QED
    BY <2>1, <2>2
<1> QED
  BY <1>1, <1>3, <1>4 DEF Operation

\* Every step of the store or around it keeps the invariant.
LEMMA NextInv == IInv /\ [Next]_vars => IInv'
<1> SUFFICES ASSUME IInv, [Next]_vars PROVE IInv'
  OBVIOUS
<1>1. ASSUME NEW c \in Cmds, Operation(c) PROVE IInv'
  BY <1>1, OperationIsSection, SectionKeeps DEF IInv
<1>2. ASSUME NEW c \in Cmds, NEW e \in Envs, StopEnds(c, e) PROVE IInv'
  <2>1. TypeOK' /\ StopsAreQueued'
    BY <1>2 DEF StopEnds, store, IInv, TypeOK, StopsAreQueued
  <2>2. FilesFit' /\ TokensAreOnes' /\ StopTokensAreOnes'
    BY <1>2 DEF StopEnds, store, IInv, FilesFit, TokensAreOnes, StopTokensAreOnes
  <2> QED
    BY <2>1, <2>2 DEF IInv
<1>3. CASE Disturbance
  BY <1>3, DisturbanceKeeps
<1>4. CASE UNCHANGED vars
  BY <1>4 DEF vars, store, IInv, TypeOK, FilesFit, TokensAreOnes, StopTokensAreOnes,
              StopsAreQueued
<1> QED
  BY <1>1, <1>2, <1>3, <1>4, GiveBackKeeps DEF Next, RunStops

\* The invariant holds, with every fault and for any number of agents,
\* processes, environments and generations: a token names one lease.
THEOREM Inductive == Spec => []IInv
BY InitInv, NextInv, PTL DEF Spec

-----------------------------------------------------------------------------
(* No lease is lost *)

\* Only the holder's token or a steal takes a live lease away.
LEMMA StepRightfulLoss ==
  ASSUME IInv, [Next]_vars, NEW e \in Envs,
         lease[e].kind \in Kinds, ~Dead(e), lease'[e].gen # lease[e].gen
  PROVE  \/ knows'[lease[e].owner][e] = 0
         \/ "steal" \in Faults /\ lease'[e].kind \in Kinds
<1> USE DEF IInv
<1>1. \A c \in Cmds : Current(c, e) = lease[e]
  BY CurrentFits
<1>2. ASSUME NEW c \in Cmds, NEW E \in SUBSET Envs, Look(c, E) PROVE FALSE
  BY <1>1, <1>2 DEF Look
<1>3. ASSUME NEW c \in Cmds, NEW a \in Agents, NEW x \in Envs, NEW kind \in Kinds,
             NEW keep, NEW steal \in BOOLEAN, Acquire(c, a, x, kind, keep, steal)
      PROVE  "steal" \in Faults /\ lease'[e].kind \in Kinds
  <2>1. x = e
    BY <1>1, <1>3 DEF Acquire, Grant
  <2>2. lease'[e].kind = kind
    BY <1>3, <2>1 DEF Acquire, Grant, Granted
  <2>3. steal
    BY <1>1, <1>3, <2>1 DEF Acquire, MayTake, IsHeld, Kinds
  <2> QED
    BY <1>3, <2>2, <2>3 DEF Acquire
<1>4. ASSUME NEW c \in Cmds, NEW a \in Agents, NEW E \in SUBSET Envs, NEW x \in Envs,
             NEW kind, NEW keep, AcquireFromPool(c, a, E, x, kind, keep)
      PROVE  FALSE
  <2>1. x = e
    BY <1>1, <1>4 DEF AcquireFromPool, Grant
  <2> QED
    BY <1>1, <1>4, <2>1 DEF AcquireFromPool, MayTake, IsHeld, Kinds
<1>5. ASSUME NEW c \in Cmds, NEW a \in Agents, NEW x \in Envs, NEW session, NEW keepRunning,
             Release(c, a, x, session, keepRunning)
      PROVE  knows'[lease[e].owner][e] = 0
  <2>1. x = e /\ knows'[a][e] = 0
    BY <1>5, ReleaseIsSection
  <2>2. knows[a][e] = lease[e].gen /\ knows[a][e] # 0
    BY <1>5, <2>1 DEF Release, Holds, FilesFit, IsHeld, Kinds
  <2> QED
    BY <2>1, <2>2 DEF TokensAreOnes
<1>6. ASSUME NEW c \in Cmds, NEW x \in Envs, StopEnds(c, x) PROVE FALSE
  BY <1>6 DEF StopEnds, store
<1>7. ASSUME NEW c \in Cmds, NEW x \in Envs, GiveBack(c, x) PROVE FALSE
  <2>1. PICK s \in stops[c] : s[1] = x /\ lease' = GivenBack(c, x, s[2])
    BY <1>7 DEF GiveBack
  <2>2. x = e /\ lease[e].gen = s[2]
    BY <2>1 DEF GivenBack, TypeOK
  <2>3. lease[e].owner = c
    BY <2>1, <2>2 DEF StopTokensAreOnes
  <2> QED
    BY <2>3, ProcessesAssumption DEF FilesFit
<1>8. ASSUME Disturbance PROVE FALSE
  <2>1. ASSUME NEW x \in Envs, Lapse(x) PROVE FALSE
    <3>1. lease'[e] = lease[e] \/ lease'[e] = [lease[e] EXCEPT !.lapsed = TRUE]
      BY <2>1 DEF Lapse, TypeOK
    <3> QED
      BY <3>1 DEF TypeOK, Leases
  <2> QED
    BY <1>8, <2>1 DEF Disturbance, Exit, Crash, store
<1> QED
  BY <1>2, <1>3, <1>4, <1>5, <1>6, <1>7, <1>8 DEF Next, Operation, RunStops, vars, store

\* A live run or session loses its environment only by giving it back with its
\* own token, or to a steal -- whatever dies, lapses or takes long.
THEOREM RightfulLossHolds == Spec => RightfulLoss
<1>1. IInv /\ [Next]_vars =>
        [\A e \in Envs :
           lease[e].kind \in Kinds /\ ~Dead(e) /\ lease'[e].gen # lease[e].gen
             => \/ knows'[lease[e].owner][e] = 0
                \/ "steal" \in Faults /\ lease'[e].kind \in Kinds]_vars
  BY StepRightfulLoss
<1> QED
  BY <1>1, Inductive, PTL DEF Spec, RightfulLoss

-----------------------------------------------------------------------------
(* An environment that is being stopped is held *)

\* Without steals a section takes no placeholder of a live process, and leaves
\* its own placeholder on every environment it owes a stop.
LEMMA OperationCovers ==
  ASSUME IInv, "steal" \notin Faults, NEW c \in Cmds, Operation(c)
  PROVE  \E S : /\ Section(c, S)
                /\ \A e \in S : lease[e].kind = "session" /\ Ending(c, e, S)
                /\ \A e \in Envs : lease[e].kind = "stop" /\ ~Dead(e) => lease'[e] = lease[e]
<1> DEFINE Covers(S) == /\ Section(c, S)
                        /\ \A e \in S : lease[e].kind = "session" /\ Ending(c, e, S)
                        /\ \A e \in Envs : lease[e].kind = "stop" /\ ~Dead(e)
                                            => lease'[e] = lease[e]
<1>0. TypeOK /\ \A e \in Envs : ~Dead(e) => Current(c, e) = lease[e]
  BY CurrentFits DEF IInv
<1>1. ASSUME NEW E \in SUBSET Envs, Look(c, E) PROVE Covers(Ended(E))
  <2>1. \A e \in Ended(E) : lease[e].kind = "session" /\ Ending(c, e, Ended(E))
    BY <1>0, <1>1, LookIsSection DEF Ended, EndsInStop, Passed
  <2>2. \A e \in Envs : ~Dead(e) => lease'[e] = lease[e]
    BY <1>0, <1>1 DEF Look
  <2> QED
    BY <1>0, <1>1, <2>1, <2>2, LookIsSection
<1>2. ASSUME NEW a \in Agents, NEW E \in SUBSET Envs, NEW e \in E, NEW kind \in Kinds,
             NEW keep \in BOOLEAN, MayTake(c, e, FALSE), Grant(c, a, E, e, kind, keep)
      PROVE  Covers(Ended(E))
  <2>1. ~IsHeld(Current(c, e)) /\ e \in Envs
    BY <1>2 DEF MayTake
  <2>2. e \notin Ended(E)
    BY <2>1 DEF Ended, Current, Placeholder, Granted, IsHeld
  <2>3. \A x \in Ended(E) : lease[x].kind = "session" /\ Ending(c, x, Ended(E))
    <3>1. \A x \in Envs \ {e} : Passed(x, Ended(E)) \/ Ending(c, x, Ended(E))
      BY <1>0, <1>2, GrantIsSection
    <3>2. \A x \in Ended(E) : x \in Envs \ {e} /\ lease[x].kind = "session"
      BY <2>2 DEF Ended, EndsInStop
    <3> QED
      BY <3>1, <3>2 DEF Passed
  <2>4. lease[e].kind = "stop" => Dead(e)
    BY <1>0, <2>1 DEF IsHeld
  <2>5. \A x \in Envs \ {e} : ~Dead(x) => lease'[x] = lease[x]
    BY <1>0, <1>2 DEF Grant
  <2> QED
    BY <1>0, <1>2, <2>3, <2>4, <2>5, GrantIsSection
<1>3. ASSUME NEW a \in Agents, NEW e \in Envs, NEW session, NEW keepRunning,
             Release(c, a, e, session, keepRunning)
      PROVE  Covers(Released(e, keepRunning))
  <2>1. \A x \in Released(e, keepRunning) :
          lease[x].kind = "session" /\ Ending(c, x, Released(e, keepRunning))
    <3>1. \A x \in Envs : \/ Passed(x, Released(e, keepRunning))
                          \/ Ending(c, x, Released(e, keepRunning))
      BY <1>0, <1>3, ReleaseIsSection
    <3>2. \A x \in Released(e, keepRunning) : x \in Envs /\ lease[x].kind = "session"
      BY DEF Released, EndsInStop
    <3> QED
      BY <3>1, <3>2 DEF Passed
  <2>2. lease[e].kind # "stop"
    <3>1. knows[a][e] = lease[e].gen /\ knows[a][e] # 0
      BY <1>3 DEF Release, Holds, IInv, FilesFit
    <3> QED
      BY <3>1, ProcessesAssumption DEF IInv, FilesFit, TokensAreOnes
  <2>3. \A x \in Envs \ {e} : lease'[x] = lease[x]
    BY <1>0, <1>3, ReleaseIsSection
  <2> QED
    BY <1>0, <1>3, <2>1, <2>2, <2>3, ReleaseIsSection
<1>4. ASSUME NEW a \in Agents, NEW e \in Envs, NEW kind \in Kinds, NEW keep \in BOOLEAN,
             NEW steal \in BOOLEAN, Acquire(c, a, e, kind, keep, steal)
      PROVE  Covers(Ended({e}))
  <2>1. MayTake(c, e, FALSE) /\ Grant(c, a, {e}, e, kind, keep)
    BY <1>4 DEF Acquire, MayTake
  <2>2. {e} \in SUBSET Envs /\ e \in {e}
    OBVIOUS
  <2> QED
    BY <1>2, <2>1, <2>2
<1>5. ASSUME NEW a \in Agents, NEW e \in Envs, NEW kind \in Kinds, NEW keep \in BOOLEAN,
             NEW E \in SUBSET Envs, AcquireFromPool(c, a, E, e, kind, keep)
      PROVE  Covers(Ended(E))
  BY <1>2, <1>5 DEF AcquireFromPool
<1> HIDE DEF Covers
<1>6. \E S : Covers(S)
  BY <1>1, <1>3, <1>4, <1>5 DEF Operation
<1> QED
  BY <1>6 DEF Covers

\* Undisturbed, a placeholder stays for as long as its stop is owed or under way.
LEMMA HeldKeeps ==
  ASSUME IInv, HeldWhileStopped, Faults \cap {"steal", "longstop"} = {}, [Next]_vars
  PROVE  HeldWhileStopped'
<1> USE DEF IInv
<1>1. ASSUME NEW c \in Cmds, Operation(c) PROVE HeldWhileStopped'
  <2>1. PICK S : /\ Section(c, S)
                 /\ \A e \in S : lease[e].kind = "session" /\ Ending(c, e, S)
                 /\ \A e \in Envs : lease[e].kind = "stop" /\ ~Dead(e) => lease'[e] = lease[e]
    BY <1>1, OperationCovers
  <2> SUFFICES ASSUME NEW d \in alive' \cap Cmds, NEW s \in stops'[d]
               PROVE  lease'[s[1]] = Placeholder(d, s[2])
    BY DEF HeldWhileStopped
  <2>2. d \in alive /\ S \in SUBSET Envs /\ Owe(c, S)
    BY <2>1 DEF Section
  <2>3. CASE d = c
    <3>1. s[1] \in S /\ s[2] = gen[s[1]] + 1
      BY <2>2, <2>3, OweFits
    <3> QED
      BY <2>1, <2>3, <3>1 DEF Ending
  <2>4. CASE d # c
    <3>1. s \in stops[d] /\ s[1] \in Envs
      BY <2>2, <2>4, OweFits DEF TypeOK
    <3>2. lease[s[1]] = Placeholder(d, s[2])
      BY <2>2, <3>1 DEF HeldWhileStopped
    <3>3. lease[s[1]].kind = "stop" /\ ~Dead(s[1])
      BY <2>2, <3>2 DEF Dead, Live, Placeholder, Granted
    <3> QED
      BY <2>1, <3>1, <3>2, <3>3
  <2> QED
    BY <2>3, <2>4
<1>2. ASSUME NEW c \in Cmds, NEW e \in Envs, StopEnds(c, e) PROVE HeldWhileStopped'
  BY <1>2 DEF StopEnds, store, HeldWhileStopped
<1>3. ASSUME NEW c \in Cmds, NEW e \in Envs, GiveBack(c, e) PROVE HeldWhileStopped'
  <2>1. PICK r \in stops[c] : /\ r[1] = e
                              /\ lease' = GivenBack(c, e, r[2])
                              /\ stops' = [stops EXCEPT ![c] = @ \ {r}]
    BY <1>3 DEF GiveBack
  <2>2. c \in alive /\ alive' = alive
    BY <1>3 DEF GiveBack, Stopping
  <2>3. lease[e] = Placeholder(c, r[2])
    BY <2>1, <2>2 DEF HeldWhileStopped
  <2> SUFFICES ASSUME NEW d \in alive \cap Cmds, NEW s \in stops[d], s \in stops'[d]
               PROVE  lease'[s[1]] = Placeholder(d, s[2])
    BY <2>1, <2>2 DEF HeldWhileStopped, TypeOK
  <2>4. lease[s[1]] = Placeholder(d, s[2])
    BY DEF HeldWhileStopped
  <2>5. s[1] # e
    <3>1. CASE d = c
      <4>1. s # r
        BY <2>1, <3>1 DEF TypeOK
      <4> QED
        BY <2>1, <3>1, <4>1 DEF StopsAreQueued
    <3>2. CASE d # c
      BY <2>3, <2>4, <3>2 DEF Placeholder, Granted
    <3> QED
      BY <3>1, <3>2
  <2> QED
    BY <2>1, <2>4, <2>5 DEF GivenBack, TypeOK
<1>4. CASE Disturbance
  <2>1. ASSUME NEW a \in Agents, Exit(a) PROVE HeldWhileStopped'
    BY <2>1 DEF Exit, store, HeldWhileStopped
  <2>2. ASSUME NEW c \in Cmds, Crash(c) PROVE HeldWhileStopped'
    BY <2>2 DEF Crash, store, HeldWhileStopped, TypeOK
  <2>3. ASSUME NEW e \in Envs, Lapse(e) PROVE HeldWhileStopped'
    <3>1. lease[e].kind # "stop" /\ \A x \in Envs \ {e} : lease'[x] = lease[x]
      BY <2>3 DEF Lapse, TypeOK
    <3>2. alive' = alive /\ stops' = stops
      BY <2>3 DEF Lapse
    <3>3. \A c \in alive \cap Cmds : \A s \in stops[c] : s[1] \in Envs /\ s[1] # e
      <4> SUFFICES ASSUME NEW c \in alive \cap Cmds, NEW s \in stops[c]
                   PROVE  s[1] \in Envs /\ s[1] # e
        OBVIOUS
      <4>1. lease[s[1]].kind = "stop"
        <5>1. lease[s[1]] = Placeholder(c, s[2])
          BY DEF HeldWhileStopped
        <5> QED
          BY <5>1 DEF Placeholder, Granted
      <4>2. s[1] \in Envs
        BY DEF TypeOK
      <4> QED
        BY <3>1, <4>1, <4>2
    <3> QED
      BY <3>1, <3>2, <3>3 DEF HeldWhileStopped
  <2> QED
    BY <1>4, <2>1, <2>2, <2>3 DEF Disturbance
<1>5. CASE UNCHANGED vars
  BY <1>5 DEF vars, store, HeldWhileStopped
<1> QED
  BY <1>1, <1>2, <1>3, <1>4, <1>5 DEF Next, RunStops

\* While a process stops an environment, or has yet to, its placeholder holds
\* the environment, if nobody steals and no stop outlasts stopTTL.
THEOREM StopCoveredHolds == Spec => []StopCovered
<1>1. CASE Faults \cap {"steal", "longstop"} = {}
  <2>1. Init => HeldWhileStopped
    BY DEF Init, HeldWhileStopped
  <2>2. IInv /\ HeldWhileStopped /\ [Next]_vars => HeldWhileStopped'
    BY <1>1, HeldKeeps
  <2>3. HeldWhileStopped => StopCovered
    BY DEF StopCovered
  <2> QED
    BY <2>1, <2>2, <2>3, Inductive, PTL DEF Spec
<1>2. CASE ~(Faults \cap {"steal", "longstop"} = {})
  <2>1. StopCovered
    BY <1>2 DEF StopCovered
  <2> QED
    BY <2>1, PTL
<1> QED
  BY <1>1, <1>2

-----------------------------------------------------------------------------
(* The store implements the life of an environment *)

\* No stopping process dies, nobody steals and no stop outlasts stopTTL.
Undisturbed == Faults \cap {"steal", "longstop", "crash"} = {}

\* An environment that is to be stopped is owed that stop by a process that
\* lives and has not finished it, and a placeholder is one of a pending stop.
StopsPending ==
  /\ \A e \in due : \E c \in alive \cap Cmds : \E s \in stops[c] :
       s[1] = e /\ (at[c] = "stopped" => \E t \in stops[c] : t[1] < e)
  /\ \A e \in Envs : lease[e].kind = "stop" =>
       lease[e].owner \in alive /\ \E s \in stops[lease[e].owner] : s[1] = e

UInv == IInv /\ HeldWhileStopped /\ StopsPending

\* Undisturbed, an environment whose session ended has its stop pending.
LEMMA PendingKeeps ==
  ASSUME UInv, Undisturbed, [Next]_vars
  PROVE  StopsPending'
<1> USE DEF UInv, IInv
<1> DEFINE Owed(e, c) == \E s \in stops[c] :
                           s[1] = e /\ (at[c] = "stopped" => \E t \in stops[c] : t[1] < e)
           Backed(e) == lease[e].kind = "stop" =>
                          lease[e].owner \in alive /\ \E s \in stops[lease[e].owner] : s[1] = e
<1> SUFFICES /\ \A e \in due' : \E c \in (alive \cap Cmds)' : Owed(e, c)'
             /\ \A e \in Envs : Backed(e)'
  BY DEF StopsPending
<1>0. /\ \A e \in due : \E c \in alive \cap Cmds : Owed(e, c)
      /\ \A e \in Envs : Backed(e)
  BY DEF StopsPending
<1>1. ASSUME NEW c \in Cmds, Operation(c)
      PROVE  /\ \A e \in due' : \E d \in (alive \cap Cmds)' : Owed(e, d)'
             /\ \A e \in Envs : Backed(e)'
  <2>1. PICK S : /\ Section(c, S)
                 /\ \A e \in S : lease[e].kind = "session" /\ Ending(c, e, S)
                 /\ \A e \in Envs : lease[e].kind = "stop" /\ ~Dead(e) => lease'[e] = lease[e]
    BY <1>1, OperationCovers DEF Undisturbed
  <2>2. S \in SUBSET Envs /\ Owe(c, S) /\ alive' = alive /\ due' = due \cup S
    BY <2>1 DEF Section, Owe
  <2>3. c \in alive /\ at[c] = "ready" /\ stops[c] = {}
    BY <1>1 DEF Operation, Look, Acquire, AcquireFromPool, Release, Ready, StopsAreQueued
  <2>4. stops'[c] = {<<e, gen[e] + 1>> : e \in S} /\ at'[c] # "stopped"
    BY <2>2, OweFits DEF Owe, TypeOK
  <2>5. \A d \in Cmds \ {c} : stops'[d] = stops[d] /\ at'[d] = at[d]
    BY <2>2, OweFits
  <2>6. \A e \in S : Owed(e, c)'
    <3> SUFFICES ASSUME NEW e \in S PROVE \E s \in stops'[c] : s[1] = e
      BY <2>4
    <3>1. <<e, gen[e] + 1>> \in stops'[c]
      BY <2>4
    <3> QED
      BY <3>1
  <2>7. \A e \in due : \E d \in (alive \cap Cmds)' : Owed(e, d)'
    <3> SUFFICES ASSUME NEW e \in due PROVE \E d \in (alive \cap Cmds)' : Owed(e, d)'
      OBVIOUS
    <3>1. PICK d \in alive \cap Cmds : Owed(e, d)
      BY <1>0
    <3>2. d # c
      BY <2>3, <3>1
    <3>3. Owed(e, d)'
      BY <2>5, <3>1, <3>2
    <3> QED
      BY <2>2, <3>3
  <2>8. \A e \in Envs : Backed(e)'
    <3> SUFFICES ASSUME NEW e \in Envs, lease'[e].kind = "stop"
                 PROVE  /\ lease'[e].owner \in alive'
                        /\ \E s \in stops'[lease'[e].owner] : s[1] = e
      OBVIOUS
    <3>1. CASE e \in S
      <4>1. lease'[e].owner = c
        <5>1. lease'[e] = Placeholder(c, gen'[e])
          BY <2>1, <3>1 DEF Ending
        <5> QED
          BY <5>1 DEF Placeholder, Granted
      <4> QED
        BY <2>2, <2>3, <2>6, <3>1, <4>1
    <3>2. CASE e \notin S
      <4>1. lease'[e] = lease[e]
        BY <2>1, <3>2 DEF Section, Passed, Ending, Granting, Granted, Free, Kinds
      <4>2. lease[e].owner \in alive /\ lease[e].owner \in Cmds
            /\ \E s \in stops[lease[e].owner] : s[1] = e
        BY <1>0, <4>1 DEF FilesFit
      <4>3. lease[e].owner # c
        BY <2>3, <4>2
      <4> QED
        BY <2>2, <2>5, <4>1, <4>2, <4>3
    <3> QED
      BY <3>1, <3>2
  <2> QED
    BY <2>2, <2>3, <2>6, <2>7, <2>8
<1>2. ASSUME NEW c \in Cmds, NEW x \in Envs, StopEnds(c, x)
      PROVE  /\ \A e \in due' : \E d \in (alive \cap Cmds)' : Owed(e, d)'
             /\ \A e \in Envs : Backed(e)'
  <2>1. /\ lease' = lease /\ stops' = stops /\ alive' = alive /\ due' = due \ {x}
        /\ \A d \in Cmds \ {c} : at'[d] = at[d]
    BY <1>2 DEF StopEnds, store, TypeOK
  <2>2. (\E t \in stops[c] : t[1] = x) /\ \A t \in stops[c] : x <= t[1] /\ t[1] \in Int
    BY <1>2, NumEnvsAssumption DEF StopEnds, Stopping, TypeOK, Envs
  <2>3. \A e \in due' : \E d \in (alive \cap Cmds)' : Owed(e, d)'
    <3> SUFFICES ASSUME NEW e \in due, e # x PROVE \E d \in alive \cap Cmds : Owed(e, d)'
      BY <2>1
    <3>1. PICK d \in alive \cap Cmds : Owed(e, d)
      BY <1>0
    <3>2. CASE d # c
      BY <2>1, <3>1, <3>2
    <3>3. CASE d = c
      <4>1. \E t \in stops[c] : t[1] < e
        BY <2>2, <3>1, <3>3, NumEnvsAssumption DEF TypeOK, Envs
      <4> QED
        BY <2>1, <3>1, <3>3, <4>1
    <3> QED
      BY <3>2, <3>3
  <2> QED
    BY <1>0, <2>1, <2>3
<1>3. ASSUME NEW c \in Cmds, NEW x \in Envs, GiveBack(c, x)
      PROVE  /\ \A e \in due' : \E d \in (alive \cap Cmds)' : Owed(e, d)'
             /\ \A e \in Envs : Backed(e)'
  <2>1. PICK r \in stops[c] : /\ r[1] = x
                              /\ lease' = GivenBack(c, x, r[2])
                              /\ stops' = [stops EXCEPT ![c] = @ \ {r}]
                              /\ at' = [at EXCEPT ![c] = IF stops[c] = {r} THEN "ready"
                                                        ELSE "stopping"]
    BY <1>3 DEF GiveBack
  <2>2. /\ alive' = alive /\ due' = due /\ c \in alive /\ at[c] = "stopped"
        /\ \A t \in stops[c] : x <= t[1]
    BY <1>3 DEF GiveBack, Stopping
  <2>3. lease[x] = Placeholder(c, r[2])
    BY <2>1, <2>2 DEF HeldWhileStopped
  <2>4. lease'[x] = Free /\ \A e \in Envs \ {x} : lease'[e] = lease[e]
    BY <2>1, <2>3 DEF GivenBack, Placeholder, Granted, TypeOK
  <2>5. /\ stops'[c] = stops[c] \ {r} /\ at'[c] # "stopped"
        /\ \A d \in Cmds \ {c} : stops'[d] = stops[d] /\ at'[d] = at[d]
    BY <2>1 DEF TypeOK
  <2>6. \A e \in due' : \E d \in (alive \cap Cmds)' : Owed(e, d)'
    <3> SUFFICES ASSUME NEW e \in due PROVE \E d \in alive \cap Cmds : Owed(e, d)'
      BY <2>2
    <3>1. PICK d \in alive \cap Cmds : Owed(e, d)
      BY <1>0
    <3>2. CASE d # c
      BY <2>5, <3>1, <3>2
    <3>3. CASE d = c
      <4>1. PICK s \in stops[c] : s[1] = e /\ \E t \in stops[c] : t[1] < e
        BY <2>2, <3>1, <3>3
      <4>2. s # r
        <5>1. \A t \in stops[c] : t[1] \in Int
          BY NumEnvsAssumption DEF TypeOK, Envs
        <5> QED
          BY <2>1, <2>2, <4>1, <5>1, NumEnvsAssumption DEF Envs
      <4> QED
        BY <2>5, <3>3, <4>1, <4>2
    <3> QED
      BY <3>2, <3>3
  <2>7. \A e \in Envs : Backed(e)'
    <3> SUFFICES ASSUME NEW e \in Envs, lease'[e].kind = "stop"
                 PROVE  /\ lease'[e].owner \in alive'
                        /\ \E s \in stops'[lease'[e].owner] : s[1] = e
      OBVIOUS
    <3>1. e # x /\ lease'[e] = lease[e]
      BY <2>4 DEF Free
    <3>2. lease[e].owner \in alive /\ lease[e].owner \in Cmds
          /\ \E s \in stops[lease[e].owner] : s[1] = e
      BY <1>0, <3>1 DEF FilesFit
    <3> QED
      BY <2>1, <2>2, <2>5, <3>1, <3>2
  <2> QED
    BY <2>6, <2>7
<1>4. ASSUME Disturbance
      PROVE  /\ \A e \in due' : \E d \in (alive \cap Cmds)' : Owed(e, d)'
             /\ \A e \in Envs : Backed(e)'
  <2>1. /\ stops' = stops /\ at' = at /\ due' = due
        /\ alive' \subseteq alive /\ alive \cap Cmds \subseteq alive'
    BY <1>4, ProcessesAssumption DEF Disturbance, Exit, Crash, Lapse, Undisturbed
  <2>2. \A e \in Envs : lease'[e].kind = "stop" => lease'[e] = lease[e]
    <3>1. ASSUME NEW x \in Envs, Lapse(x)
          PROVE  \A e \in Envs : lease'[e].kind = "stop" => lease'[e] = lease[e]
      <4>1. lease[x].kind # "stop"
        BY <3>1 DEF Lapse, Undisturbed
      <4>2. lease'[x].kind = lease[x].kind /\ \A e \in Envs \ {x} : lease'[e] = lease[e]
        BY <3>1 DEF Lapse, TypeOK, Leases
      <4> QED
        BY <4>1, <4>2
    <3> QED
      BY <1>4, <3>1 DEF Disturbance, Exit, Crash, store
  <2> QED
    BY <1>0, <2>1, <2>2 DEF FilesFit
<1>5. CASE UNCHANGED vars
  BY <1>0, <1>5 DEF vars, store
<1> QED
  BY <1>1, <1>2, <1>3, <1>4, <1>5 DEF Next, RunStops

\* Without steals, slow stops and deaths the stronger invariant is inductive.
LEMMA UndisturbedInductive ==
  ASSUME Undisturbed
  PROVE  Spec => []UInv
<1>1. Init => HeldWhileStopped /\ StopsPending
  BY DEF Init, HeldWhileStopped, StopsPending, Free
<1>2. IInv /\ (HeldWhileStopped /\ StopsPending) /\ [Next]_vars
        => (HeldWhileStopped /\ StopsPending)'
  <2>1. Faults \cap {"steal", "longstop"} = {}
    BY DEF Undisturbed
  <2> QED
    BY <2>1, HeldKeeps, PendingKeeps DEF UInv
<1>3. IInv /\ (HeldWhileStopped /\ StopsPending) => UInv
  BY DEF UInv
<1> QED
  BY <1>1, <1>2, <1>3, Inductive, PTL DEF Spec

\* An environment whose session ended goes to nobody before it was stopped.
THEOREM StoppedBeforeHandedOutHolds == Spec => []StoppedBeforeHandedOut
<1>1. CASE Undisturbed
  <2>1. UInv => StoppedBeforeHandedOut
    <3> SUFFICES ASSUME UInv, NEW e \in due
                 PROVE  lease[e].kind = "stop" /\ lease[e].owner \in alive
      BY DEF StoppedBeforeHandedOut
    <3>1. PICK c \in alive \cap Cmds : \E s \in stops[c] : s[1] = e
      BY DEF UInv, StopsPending
    <3>2. PICK s \in stops[c] : s[1] = e
      BY <3>1
    <3>3. lease[e] = Placeholder(c, s[2])
      BY <3>2 DEF UInv, HeldWhileStopped
    <3> QED
      BY <3>3 DEF Placeholder, Granted
  <2> QED
    BY <1>1, <2>1, UndisturbedInductive, PTL
<1>2. CASE ~Undisturbed
  <2>1. StoppedBeforeHandedOut
    BY <1>2 DEF StoppedBeforeHandedOut, Undisturbed
  <2> QED
    BY <2>1, PTL
<1> QED
  BY <1>1, <1>2

\* A step moves each environment as EnvUse allows, if at all.
LEMMA StepMoves ==
  ASSUME UInv, UInv', Undisturbed, [Next]_vars, NEW e \in Envs
  PROVE  UseOf(e)' = UseOf(e) \/ Use!Step(UseOf(e), UseOf(e)')
<1> USE DEF UInv, IInv
<1> DEFINE Moves == UseOf(e)' = UseOf(e) \/ Use!Step(UseOf(e), UseOf(e)')
<1>a. lease[e] \in Leases /\ lease'[e] \in Leases
  BY DEF TypeOK
<1>b. /\ lease[e].kind = "free" => lease[e] = Free /\ UseOf(e) = Use!Unused
      /\ lease[e].kind = "stop" => UseOf(e) = IF e \in due THEN Use!Ending ELSE Use!Stopped
      /\ lease[e].kind \in Kinds =>
           UseOf(e) = Use!State(IF Live(lease[e]) THEN "used" ELSE "over",
                                lease[e].owner, EndsInStop(lease[e]))
  BY DEF FilesFit, UseOf, Use!State, Use!Unused, Use!Ending, Use!Stopped, Kinds
<1>c. /\ lease'[e].kind = "free" => UseOf(e)' = Use!Unused
      /\ lease'[e].kind = "stop" => UseOf(e)' = IF e \in due' THEN Use!Ending ELSE Use!Stopped
      /\ lease'[e].kind \in Kinds =>
           UseOf(e)' = Use!State(IF ~lease'[e].lapsed /\ lease'[e].owner \in alive'
                                 THEN "used" ELSE "over",
                                 lease'[e].owner, EndsInStop(lease'[e]))
  BY DEF UseOf, Live, Use!State, Use!Unused, Use!Ending, Use!Stopped, Kinds
<1>d. lease[e].kind \in {"free", "stop"} \cup Kinds
  BY <1>a DEF Leases
<1>e. lease[e].kind = "stop" => ~Dead(e)
  <2> SUFFICES ASSUME lease[e].kind = "stop" PROVE ~Dead(e)
    OBVIOUS
  <2>1. PICK s \in stops[lease[e].owner] : s[1] = e
    BY DEF StopsPending
  <2>2. lease[e].owner \in alive \cap Cmds
    BY DEF StopsPending, FilesFit
  <2>3. lease[e] = Placeholder(lease[e].owner, s[2])
    BY <2>1, <2>2 DEF HeldWhileStopped
  <2> QED
    BY <2>2, <2>3 DEF Dead, Live, Placeholder, Granted
<1>f. e \in due => lease[e].kind = "stop"
  <2> SUFFICES ASSUME e \in due PROVE lease[e].kind = "stop"
    OBVIOUS
  <2>1. PICK d \in alive \cap Cmds : \E s \in stops[d] : s[1] = e
    BY DEF StopsPending
  <2>2. PICK s \in stops[d] : s[1] = e
    BY <2>1
  <2>3. lease[e] = Placeholder(d, s[2])
    BY <2>2 DEF HeldWhileStopped
  <2> QED
    BY <2>3 DEF Placeholder, Granted
\* Reading e, as every section does with what it does not grant or release.
<1>g. ASSUME NEW c \in Cmds, alive' = alive,
             \/ lease'[e] = lease[e] /\ (e \in due' <=> e \in due)
             \/ /\ Dead(e) /\ lease'[e] = Current(c, e)
                /\ e \in due' <=> EndsInStop(lease[e])
      PROVE  Moves
  <2>1. CASE lease'[e] = lease[e] /\ (e \in due' <=> e \in due)
    BY <1>g, <2>1, <1>b, <1>c, <1>d DEF Live
  <2>2. CASE /\ Dead(e) /\ lease'[e] = Current(c, e)
             /\ e \in due' <=> EndsInStop(lease[e])
    <3>1. lease[e].kind \in Kinds
      BY <1>d, <1>e, <2>2 DEF Dead, IsHeld
    <3>2. UseOf(e) = Use!State("over", lease[e].owner, EndsInStop(lease[e]))
      BY <1>b, <2>2, <3>1 DEF Dead
    <3>3. UseOf(e)' = IF EndsInStop(lease[e]) THEN Use!Ending ELSE Use!Unused
      BY <1>c, <2>2 DEF Current, Placeholder, Granted, Free
    <3>4. UseOf(e).phase = "over" /\ UseOf(e).stops = EndsInStop(lease[e])
      BY <3>2 DEF Use!State
    <3> QED
      BY <3>3, <3>4 DEF Use!Step, Use!Noticed
  <2> QED
    BY <1>g, <2>1, <2>2
<1>1. ASSUME NEW c \in Cmds, NEW E \in SUBSET Envs, Look(c, E) PROVE Moves
  <2>1. alive' = alive /\ lease'[e] = (IF e \in E THEN Current(c, e) ELSE lease[e])
        /\ due' = due \cup Ended(E)
    BY <1>1 DEF Look, Owe
  <2>2. Current(c, e) # lease[e] => Dead(e)
    BY DEF Current
  <2>3. CASE e \in E /\ Dead(e)
    <3>1. e \in due' <=> EndsInStop(lease[e])
      BY <1>e, <1>f, <2>1, <2>3 DEF Ended
    <3> QED
      BY <1>g, <2>1, <2>3, <3>1
  <2>4. CASE ~(e \in E /\ Dead(e))
    BY <1>g, <2>1, <2>2, <2>4 DEF Ended
  <2> QED
    BY <2>3, <2>4
<1>2. ASSUME NEW c \in Cmds, NEW a \in Agents, a \in alive, NEW E \in SUBSET Envs,
             NEW x \in E, NEW kind \in Kinds, NEW keep \in BOOLEAN,
             MayTake(c, x, FALSE), Grant(c, a, E, x, kind, keep)
      PROVE  Moves
  <2>1. alive' = alive /\ due' = due \cup Ended(E)
    BY <1>2 DEF Grant, Owe
  <2>2. CASE e = x
    <3>1. \E g : lease'[e] = Granted(kind, a, keep, g)
      BY <1>2, <2>2 DEF Grant
    <3>2. lease'[e].kind \in Kinds /\ ~lease'[e].lapsed /\ lease'[e].owner = a
      BY <3>1 DEF Granted
    <3>3. \E b \in BOOLEAN : UseOf(e)' = Use!State("used", a, b)
      <4>1. EndsInStop(lease'[e]) \in BOOLEAN
        BY DEF EndsInStop
      <4> QED
        BY <1>2, <1>c, <2>1, <3>2, <4>1
    <3>4. ~IsHeld(Current(c, e))
      BY <1>2, <2>2 DEF MayTake
    <3>5. UseOf(e) = Use!Unused \/ (UseOf(e).phase = "over" /\ ~UseOf(e).stops)
      <4>1. CASE ~Dead(e)
        BY <1>b, <3>4, <4>1 DEF Current, IsHeld
      <4>2. CASE Dead(e)
        <5>1. ~EndsInStop(lease[e])
          BY <3>4, <4>2 DEF Current, IsHeld, Placeholder, Granted
        <5>2. lease[e].kind \in Kinds /\ ~Live(lease[e])
          BY <1>d, <1>e, <4>2 DEF Dead, IsHeld
        <5> QED
          BY <1>b, <5>1, <5>2 DEF Use!State
      <4> QED
        BY <4>1, <4>2
    <3> QED
      BY <3>3, <3>5 DEF Use!Step, Use!Begins
  <2>3. CASE e # x
    <3>1. lease'[e] = IF e \in E THEN Current(c, e) ELSE lease[e]
      BY <1>2, <2>3 DEF Grant
    <3>2. Current(c, e) # lease[e] => Dead(e)
      BY DEF Current
    <3>3. CASE e \in E /\ Dead(e)
      <4>1. e \in due' <=> EndsInStop(lease[e])
        BY <1>e, <1>f, <2>1, <3>3 DEF Ended
      <4> QED
        BY <1>g, <2>1, <3>1, <3>3, <4>1
    <3>4. CASE ~(e \in E /\ Dead(e))
      BY <1>g, <2>1, <3>1, <3>2, <3>4 DEF Ended
    <3> QED
      BY <3>3, <3>4
  <2> QED
    BY <2>2, <2>3
<1>3. ASSUME NEW c \in Cmds, NEW a \in Agents, NEW x \in Envs, NEW session, NEW keepRunning,
             Release(c, a, x, session, keepRunning)
      PROVE  Moves
  <2>1. alive' = alive /\ due' = due \cup Released(x, keepRunning)
    BY <1>3 DEF Release, Released, Owe
  <2>2. CASE e # x
    BY <1>3, <1>g, <2>1, <2>2, ReleaseIsSection DEF Released
  <2>3. CASE e = x
    <3>1. Holds(a, e)
      BY <1>3, <2>3 DEF Release
    <3>2. lease[e].kind # "stop"
      <4>1. knows[a][e] = lease[e].gen /\ knows[a][e] # 0
        BY <3>1 DEF Holds, FilesFit
      <4> QED
        BY <4>1, ProcessesAssumption DEF FilesFit, TokensAreOnes
    <3>3. lease[e].kind \in Kinds /\ Live(lease[e])
      BY <1>d, <3>1, <3>2 DEF Holds, Dead, IsHeld
    <3>4. UseOf(e) = Use!State("used", lease[e].owner, EndsInStop(lease[e]))
      BY <1>b, <3>3
    <3>5. lease'[e] = IF EndsInStop(lease[e]) /\ ~keepRunning
                      THEN Placeholder(c, gen[e] + 1) ELSE Free
      BY <1>3, <2>3 DEF Release, TypeOK
    <3>6. CASE EndsInStop(lease[e]) /\ ~keepRunning
      <4>1. UseOf(e)' = Use!Ending
        BY <1>c, <2>1, <2>3, <3>5, <3>6 DEF Released, Placeholder, Granted
      <4> QED
        BY <3>4, <3>6, <4>1 DEF Use!Step, Use!Ends, Use!State
    <3>7. CASE ~(EndsInStop(lease[e]) /\ ~keepRunning)
      <4>1. UseOf(e)' = Use!Unused
        BY <1>c, <3>5, <3>7 DEF Free
      <4> QED
        BY <3>4, <4>1 DEF Use!Step, Use!Ends, Use!State
    <3> QED
      BY <3>6, <3>7
  <2> QED
    BY <2>2, <2>3
<1>4. ASSUME NEW c \in Cmds, NEW x \in Envs, StopEnds(c, x) PROVE Moves
  <2>1. lease' = lease /\ alive' = alive /\ due' = due \ {x}
    BY <1>4 DEF StopEnds, store
  <2>2. CASE e \in due /\ e = x
    BY <1>b, <1>c, <1>f, <2>1, <2>2 DEF Use!Step, Use!Stops
  <2>3. CASE ~(e \in due /\ e = x)
    BY <1>g, <1>4, <2>1, <2>3
  <2> QED
    BY <2>2, <2>3
<1>5. ASSUME NEW c \in Cmds, NEW x \in Envs, GiveBack(c, x) PROVE Moves
  <2>1. PICK r \in stops[c] : r[1] = x /\ lease' = GivenBack(c, x, r[2])
    BY <1>5 DEF GiveBack
  <2>2. alive' = alive /\ due' = due /\ c \in alive
    BY <1>5 DEF GiveBack, Stopping
  <2>3. lease[x] = Placeholder(c, r[2])
    BY <2>1, <2>2 DEF HeldWhileStopped
  <2>4. lease'[x] = Free /\ \A y \in Envs \ {x} : lease'[y] = lease[y]
    BY <2>1, <2>3 DEF GivenBack, Placeholder, Granted, TypeOK
  <2>5. CASE e # x
    BY <1>g, <2>2, <2>4, <2>5
  <2>6. CASE e = x
    <3>1. lease'[e].kind = "free" /\ lease[e].kind = "stop"
      BY <2>3, <2>4, <2>6 DEF Free, Placeholder, Granted
    <3>2. e \notin due
      <4> SUFFICES ASSUME e \in due' PROVE FALSE
        BY <2>2
      <4>1. PICK d \in (alive \cap Cmds)' : \E s \in stops'[d] : s[1] = e
        BY DEF StopsPending
      <4>2. PICK s \in stops'[d] : s[1] = e
        BY <4>1
      <4>3. lease'[e] = Placeholder(d, s[2])
        BY <4>2 DEF HeldWhileStopped
      <4> QED
        BY <3>1, <4>3 DEF Placeholder, Granted
    <3> QED
      BY <1>b, <1>c, <3>1, <3>2 DEF Use!Step, Use!Frees
  <2> QED
    BY <2>5, <2>6
<1>6. ASSUME NEW a \in Agents, Exit(a) PROVE Moves
  <2>1. lease' = lease /\ due' = due /\ alive' = alive \ {a}
    BY <1>6 DEF Exit, store
  <2>2. CASE lease[e].kind \in Kinds /\ Live(lease[e]) /\ lease[e].owner = a
    BY <1>b, <1>c, <2>1, <2>2 DEF Use!Step, Use!Dies, Use!State
  <2>3. CASE ~(lease[e].kind \in Kinds /\ Live(lease[e]) /\ lease[e].owner = a)
    BY <1>b, <1>c, <1>d, <2>1, <2>3 DEF Live
  <2> QED
    BY <2>2, <2>3
<1>7. ASSUME NEW x \in Envs, Lapse(x) PROVE Moves
  <2>1. due' = due /\ alive' = alive /\ (e # x => lease'[e] = lease[e])
    BY <1>7 DEF Lapse, TypeOK
  <2>2. CASE e # x
    BY <1>7, <2>1, <2>2, <1>b, <1>c, <1>d DEF Live
  <2>3. CASE e = x
    <3>1. lease[e].kind \in Kinds /\ ~lease[e].lapsed
      BY <1>7, <1>d, <2>3 DEF Lapse, Undisturbed, IsHeld
    <3>2. lease'[e] = [lease[e] EXCEPT !.lapsed = TRUE]
      BY <1>7, <2>3 DEF Lapse, TypeOK
    <3>3. /\ lease'[e].kind = lease[e].kind /\ lease'[e].owner = lease[e].owner
          /\ lease'[e].keep = lease[e].keep /\ lease'[e].lapsed
      BY <1>a, <3>2 DEF Leases
    <3>4. UseOf(e)' = Use!State("over", lease[e].owner, EndsInStop(lease[e]))
      BY <1>c, <3>1, <3>3 DEF EndsInStop
    <3> QED
      BY <1>b, <3>1, <3>4 DEF Use!Step, Use!Dies, Use!State
  <2> QED
    BY <2>2, <2>3
<1>8. ASSUME NEW c \in Cmds, Operation(c) PROVE Moves
  <2>1. ASSUME NEW a \in Agents, NEW x \in Envs, NEW kind \in Kinds, NEW keep \in BOOLEAN,
               NEW steal \in BOOLEAN, Acquire(c, a, x, kind, keep, steal)
        PROVE  Moves
    <3>1. MayTake(c, x, FALSE) /\ Grant(c, a, {x}, x, kind, keep) /\ a \in alive
      BY <2>1 DEF Acquire, MayTake, Undisturbed
    <3>2. {x} \in SUBSET Envs /\ x \in {x}
      OBVIOUS
    <3> QED
      BY <1>2, <3>1, <3>2
  <2>2. ASSUME NEW a \in Agents, NEW x \in Envs, NEW kind \in Kinds, NEW keep \in BOOLEAN,
               NEW E \in SUBSET Envs, AcquireFromPool(c, a, E, x, kind, keep)
        PROVE  Moves
    BY <1>2, <2>2 DEF AcquireFromPool
  <2> HIDE DEF Moves
  <2> QED
    BY <1>1, <1>3, <1>8, <2>1, <2>2 DEF Operation
<1>9. ASSUME UNCHANGED vars PROVE Moves
  BY <1>9, <1>b, <1>c, <1>d DEF vars, store, Live
<1> HIDE DEF Moves
<1>10. ASSUME Disturbance PROVE Moves
  <2>1. \A c \in Cmds : ~Crash(c)
    BY DEF Crash, Undisturbed
  <2> QED
    BY <1>6, <1>7, <1>10, <2>1 DEF Disturbance
<1>11. Moves
  <2>1. CASE Next
    BY <1>4, <1>5, <1>8, <1>10, <2>1 DEF Next, RunStops
  <2> QED
    BY <1>9, <2>1
<1> QED
  BY <1>11 DEF Moves

\* Leases give exclusive use of environments, and stop the environment of a
\* session that ended before anybody else gets it.
THEOREM ImplementsUseHolds ==
  ASSUME Undisturbed
  PROVE  Spec => ImplementsUse
<1>1. Init => Use!Init
  <2> SUFFICES ASSUME Init, NEW e \in Envs PROVE UseOf(e) = Use!Unused
    BY DEF Use!Init
  <2>1. lease[e] = Free
    BY DEF Init
  <2> QED
    BY <2>1 DEF UseOf, Free, Kinds, Use!Unused, Use!State
<1>2. UInv /\ UInv' /\ [Next]_vars => [Use!Next]_([e \in Envs |-> UseOf(e)])
  <2> SUFFICES ASSUME UInv, UInv', [Next]_vars
               PROVE  Use!Next
    OBVIOUS
  <2>1. \A e \in Envs : UseOf(e)' = UseOf(e) \/ Use!Step(UseOf(e), UseOf(e)')
    BY StepMoves
  <2>2. \A e \in Envs : UseOf(e)' \in Use!States
    <3> SUFFICES ASSUME NEW e \in Envs PROVE UseOf(e)' \in Use!States
      OBVIOUS
    <3>1. /\ lease'[e] \in Leases
          /\ lease'[e].kind \in Kinds => lease'[e].owner \in Agents
      BY DEF UInv, IInv, TypeOK, FilesFit
    <3>2. CASE lease'[e].kind = "free"
      BY <3>2 DEF UseOf, Kinds, Use!States, Use!Phases
    <3>3. CASE lease'[e].kind = "stop"
      BY <3>3 DEF UseOf, Kinds, Use!States, Use!Phases
    <3>4. CASE lease'[e].kind \in Kinds
      BY <3>1, <3>4 DEF UseOf, Use!States, Use!Phases, EndsInStop, Kinds
    <3> QED
      BY <3>1, <3>2, <3>3, <3>4 DEF Leases
  <2> QED
    BY <2>1, <2>2 DEF Use!Next
<1> QED
  BY <1>1, <1>2, UndisturbedInductive, PTL DEF Spec, ImplementsUse, Use!Spec
=============================================================================
