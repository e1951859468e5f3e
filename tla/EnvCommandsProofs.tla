------------------------- MODULE EnvCommandsProofs -------------------------
(***************************************************************************)
(* That no edit of the registry is lost, and no account or port slot given *)
(* twice, for any number of processes, names, slots and accounts; and that *)
(* the commands that share a host keep accounts clean, strand nothing and  *)
(* undo no start, where no two work on one environment at a time.          *)
(***************************************************************************)
EXTENDS EnvCommands, TLAPS

-----------------------------------------------------------------------------
(* The registry *)

\* What the edits make of a registry.
LEMMA NewIsRegistry ==
  ASSUME NEW r \in Registries, NEW s \in Slugs, NEW a \in Accounts, NEW k \in Slots
  PROVE  NewEnvironment(r, s, a, k) \in Registries
BY DEF Registries, NewEnvironment

\* A registry without one of its environments is a registry.
LEMMA RemovedIsRegistry ==
  ASSUME NEW r \in Registries, NEW s \in Slugs
  PROVE  RemoveEnvironment(r, s) \in Registries
<1>1. 0 \in Slots
  BY RegistryAssumption DEF Slots
<1>. QED
  BY <1>1 DEF Registries, RemoveEnvironment

\* So is one with an account more that is retired.
LEMMA RetiredIsRegistry ==
  ASSUME NEW r \in Registries, NEW a \in Accounts
  PROVE  RetireAccount(r, a) \in Registries
BY DEF Registries, RetireAccount

\* And so is the empty one.
LEMMA NoneIsRegistry == NoEnvironments \in Registries
<1>1. 0 \in Slots
  BY RegistryAssumption DEF Slots
<1>. QED
  BY <1>1 DEF Registries, NoEnvironments

\* Distinctness of a registry r, as DistinctAllocations says it of the file.
Distinct(r) ==
  \A s, t \in Registered(r) : s # t => r.slot[s] # r.slot[t] /\ r.acct[s] # r.acct[t]

\* The abstract specification means the same by the data.
LEMMA SameData ==
  ASSUME NEW r, NEW s, NEW a, NEW k
  PROVE  /\ Edits!Registries = Registries
         /\ Edits!Slots = Slots
         /\ Edits!Registered(r) = Registered(r)
         /\ Edits!AllocatesAccountID(r, a) <=> AllocatesAccountID(r, a)
         /\ Edits!AllocatesPortSlot(r, s, k) <=> AllocatesPortSlot(r, s, k)
         /\ Edits!NewEnvironment(r, s, a, k) = NewEnvironment(r, s, a, k)
         /\ Edits!RemoveEnvironment(r, s) = RemoveEnvironment(r, s)
         /\ Edits!RetireAccount(r, a) = RetireAccount(r, a)
<1>1. Edits!ControlPlaneAccount = ControlPlaneAccount /\ Edits!Slots = Slots
  BY DEF Edits!ControlPlaneAccount, ControlPlaneAccount, Edits!Slots, Slots
<1>2. Edits!Registries = Registries
  BY <1>1 DEF Edits!Registries, Registries
<1>3. Edits!Registered(r) = Registered(r)
  BY <1>1 DEF Edits!Registered, Registered
<1>4. Edits!FreeSlots(r) = FreeSlots(r) /\ Edits!FreeAccounts(r) = FreeAccounts(r)
  BY <1>1, <1>3 DEF Edits!FreeSlots, FreeSlots, Edits!FreeAccounts, FreeAccounts
<1>5. Edits!AllocatesAccountID(r, a) <=> AllocatesAccountID(r, a)
  BY <1>4 DEF Edits!AllocatesAccountID, AllocatesAccountID
<1>6. Edits!AllocatesPortSlot(r, s, k) <=> AllocatesPortSlot(r, s, k)
  BY <1>4 DEF Edits!AllocatesPortSlot, AllocatesPortSlot
<1>7. Edits!NewEnvironment(r, s, a, k) = NewEnvironment(r, s, a, k)
  BY DEF Edits!NewEnvironment, NewEnvironment
<1>8. Edits!RemoveEnvironment(r, s) = RemoveEnvironment(r, s)
  BY <1>1 DEF Edits!RemoveEnvironment, RemoveEnvironment
<1>9. Edits!RetireAccount(r, a) = RetireAccount(r, a)
  BY DEF Edits!RetireAccount, RetireAccount
<1>. QED
  BY <1>1, <1>2, <1>3, <1>5, <1>6, <1>7, <1>8, <1>9

\* Distinct allocations are the same in both specifications, now
LEMMA SameDistinct == DistinctAllocations <=> Distinct(file)
BY SameData DEF DistinctAllocations, Edits!DistinctAllocations, Distinct

\* and in the next state.
LEMMA SameDistinctNext == DistinctAllocations' <=> Distinct(file')
BY SameData DEF DistinctAllocations, Edits!DistinctAllocations, Distinct

\* A new environment shares nothing with another.
LEMMA NewIsDistinct ==
  ASSUME NEW r \in Registries, Distinct(r),
         NEW s \in Slugs, s \notin Registered(r),
         NEW a \in Accounts, AllocatesAccountID(r, a),
         NEW k \in Slots, AllocatesPortSlot(r, s, k)
  PROVE  Distinct(NewEnvironment(r, s, a, k))
<1>. DEFINE n == NewEnvironment(r, s, a, k)
<1>1. /\ n.acct = [r.acct EXCEPT ![s] = a]
      /\ n.slot = [r.slot EXCEPT ![s] = k]
  BY DEF NewEnvironment, Registries
<1>2. /\ r.acct \in [Slugs -> Accounts \cup {ControlPlaneAccount}]
      /\ r.slot \in [Slugs -> Slots]
  BY DEF Registries
<1>3. \A t \in Registered(n) : t # s => t \in Registered(r)
  BY <1>1, <1>2 DEF Registered
<1>4. \A t \in Registered(r) : t # s => r.slot[t] # k /\ r.acct[t] # a
  BY DEF AllocatesPortSlot, AllocatesAccountID, FreeSlots, FreeAccounts
<1>5. \A t \in Registered(n) : t \in Slugs
  BY DEF Registered
<1>. SUFFICES ASSUME NEW t \in Registered(n), NEW u \in Registered(n), t # u
              PROVE  n.slot[t] # n.slot[u] /\ n.acct[t] # n.acct[u]
  BY DEF Distinct
<1>6. CASE t = s
  BY <1>1, <1>2, <1>3, <1>4, <1>5, <1>6
<1>7. CASE u = s
  BY <1>1, <1>2, <1>3, <1>4, <1>5, <1>7
<1>8. CASE t # s /\ u # s
  BY <1>1, <1>2, <1>3, <1>5, <1>8 DEF Distinct
<1>. QED
  BY <1>6, <1>7, <1>8

\* Removing an environment makes no two others share anything.
LEMMA RemovedIsDistinct ==
  ASSUME NEW r \in Registries, Distinct(r), NEW s \in Slugs
  PROVE  Distinct(RemoveEnvironment(r, s))
<1>. DEFINE n == RemoveEnvironment(r, s)
<1>1. /\ n.acct = [r.acct EXCEPT ![s] = ControlPlaneAccount]
      /\ n.slot = [r.slot EXCEPT ![s] = 0]
  BY DEF RemoveEnvironment, Registries
<1>2. /\ r.acct \in [Slugs -> Accounts \cup {ControlPlaneAccount}]
      /\ r.slot \in [Slugs -> Slots]
  BY DEF Registries
<1>3. \A t \in Registered(n) : t \in Registered(r) /\ t # s /\ t \in Slugs
  BY <1>1, <1>2 DEF Registered
<1>. QED
  BY <1>1, <1>2, <1>3 DEF Distinct

\* Nor does retiring an account.
LEMMA RetiredIsDistinct ==
  ASSUME NEW r \in Registries, Distinct(r), NEW a \in Accounts
  PROVE  Distinct(RetireAccount(r, a))
<1>1. /\ RetireAccount(r, a).acct = r.acct
      /\ RetireAccount(r, a).slot = r.slot
  BY DEF RetireAccount, Registries
<1>. QED
  BY <1>1 DEF Distinct, Registered

\* Init and every step keep the invariant.
LEMMA InvInit ==
  ASSUME NEW r \in Registries, Distinct(r), RegistryInit(r)
  PROVE  RegistryInv
<1>1. DistinctAllocations
  BY SameDistinct DEF RegistryInit
<1>2. copy \in [Procs -> Registries]
  BY NoneIsRegistry DEF RegistryInit
<1>. QED
  BY <1>1, <1>2 DEF RegistryInit, RegistryInv

\* A save by the one who holds the lock keeps it, if what it saves is sound.
LEMMA SaveKeepsInv ==
  ASSUME RegistryInv, NEW p \in Procs, NEW r \in Registries, Distinct(r), Save(p, r)
  PROVE  RegistryInv'
<1>1. holders' = {}
  BY DEF RegistryInv, Save
<1>2. copy' \in [Procs -> Registries]
  BY NoneIsRegistry DEF RegistryInv, Save
<1>3. DistinctAllocations'
  BY SameDistinctNext DEF Save
<1>. QED
  BY <1>1, <1>2, <1>3 DEF RegistryInv, Save

\* Letting go of the lock without a save keeps it.
LEMMA AbandonKeepsInv ==
  ASSUME RegistryInv, NEW p \in Procs, Abandon(p)
  PROVE  RegistryInv'
<1>1. holders' = {}
  BY DEF RegistryInv, Abandon
<1>2. copy' \in [Procs -> Registries]
  BY NoneIsRegistry DEF RegistryInv, Abandon
<1>3. DistinctAllocations'
  BY DEF Abandon, RegistryInv, DistinctAllocations, Edits!DistinctAllocations
<1>. QED
  BY <1>1, <1>2, <1>3 DEF RegistryInv, Abandon

\* A process that takes the lock has the file as it is.
LEMMA LockKeepsInv ==
  ASSUME RegistryInv, NEW p \in Procs, LockRegistry(p)
  PROVE  RegistryInv'
<1>1. holders' = {p}
  BY DEF LockRegistry
<1>2. copy' \in [Procs -> Registries] /\ copy'[p] = file'
  BY DEF RegistryInv, LockRegistry
<1>3. DistinctAllocations'
  BY DEF LockRegistry, RegistryInv, DistinctAllocations, Edits!DistinctAllocations
<1>. QED
  BY <1>1, <1>2, <1>3 DEF RegistryInv, LockRegistry

\* Under the lock the copy is the file.
LEMMA CopyIsFile ==
  ASSUME RegistryInv, NEW p \in Procs, p \in holders
  PROVE  copy[p] = file /\ file \in Registries /\ Distinct(file)
BY SameDistinct DEF RegistryInv

\* So every step keeps it, one edit after the other.
LEMMA InvNext ==
  ASSUME RegistryInv, [RegistryNext]_registryVars
  PROVE  RegistryInv'
<1>1. CASE UNCHANGED registryVars
  BY <1>1 DEF registryVars, RegistryInv, DistinctAllocations, Edits!DistinctAllocations
<1>2. ASSUME NEW p \in Procs, LockRegistry(p)
      PROVE  RegistryInv'
  BY <1>2, LockKeepsInv
<1>3. ASSUME NEW p \in Procs, Abandon(p)
      PROVE  RegistryInv'
  BY <1>3, AbandonKeepsInv
<1>4. ASSUME NEW p \in Procs, SaveOther(p)
      PROVE  RegistryInv'
  <2>1. Save(p, copy[p]) /\ p \in holders
    BY <1>4 DEF SaveOther, Save
  <2>2. copy[p] \in Registries /\ Distinct(copy[p])
    BY <2>1, CopyIsFile
  <2>. QED
    BY <2>1, <2>2, SaveKeepsInv
<1>5. ASSUME NEW p \in Procs, NEW s \in Slugs, SaveNew(p, s)
      PROVE  RegistryInv'
  <2>1. PICK a \in Accounts, k \in Slots :
          /\ AllocatesAccountID(copy[p], a)
          /\ AllocatesPortSlot(copy[p], s, k)
          /\ Save(p, NewEnvironment(copy[p], s, a, k))
    BY <1>5 DEF SaveNew
  <2>2. p \in holders /\ s \notin Registered(copy[p])
    BY <1>5, <2>1 DEF Save, SaveNew
  <2>3. copy[p] \in Registries /\ Distinct(copy[p])
    BY <2>2, CopyIsFile
  <2>4. /\ NewEnvironment(copy[p], s, a, k) \in Registries
        /\ Distinct(NewEnvironment(copy[p], s, a, k))
    BY <2>1, <2>2, <2>3, NewIsRegistry, NewIsDistinct
  <2>. QED
    BY <2>1, <2>4, SaveKeepsInv
<1>6. ASSUME NEW p \in Procs, NEW s \in Slugs, SavePurged(p, s)
      PROVE  RegistryInv'
  <2>1. Save(p, RemoveEnvironment(copy[p], s)) /\ p \in holders
    BY <1>6 DEF SavePurged, Save
  <2>2. copy[p] \in Registries /\ Distinct(copy[p])
    BY <2>1, CopyIsFile
  <2>. QED
    BY <2>1, <2>2, RemovedIsRegistry, RemovedIsDistinct, SaveKeepsInv
<1>7. ASSUME NEW p \in Procs, NEW s \in Slugs, NEW a \in Accounts, SaveDeleted(p, s, a)
      PROVE  RegistryInv'
  <2>. DEFINE n == RemoveEnvironment(copy[p], s)
  <2>1. Save(p, RetireAccount(n, a)) /\ p \in holders
    BY <1>7 DEF SaveDeleted, Save
  <2>2. n \in Registries /\ Distinct(n)
    BY <2>1, CopyIsFile, RemovedIsRegistry, RemovedIsDistinct
  <2>3. RetireAccount(n, a) \in Registries /\ Distinct(RetireAccount(n, a))
    BY <2>2, RetiredIsRegistry, RetiredIsDistinct
  <2>. QED
    BY <2>1, <2>3, SaveKeepsInv
<1>. QED
  BY <1>1, <1>2, <1>3, <1>4, <1>5, <1>6, <1>7 DEF RegistryNext

(***************************************************************************)
(* Whoever holds the lock has the file as it is, and everything is sound.  *)
(***************************************************************************)
THEOREM Invariant == RegistrySpec => []RegistryInv
<1>1. ASSUME NEW r \in Registries, RegistryInit(r),
             \A s, t \in Registered(r) :
               s # t => r.slot[s] # r.slot[t] /\ r.acct[s] # r.acct[t]
      PROVE  RegistryInv
  BY <1>1, InvInit DEF Distinct
<1>2. (\E r \in Registries :
         /\ \A s, t \in Registered(r) :
              s # t => r.slot[s] # r.slot[t] /\ r.acct[s] # r.acct[t]
         /\ RegistryInit(r)) => RegistryInv
  BY <1>1
<1>3. RegistryInv /\ [RegistryNext]_registryVars => RegistryInv'
  BY InvNext
<1>. QED
  BY <1>2, <1>3, PTL DEF RegistrySpec

(***************************************************************************)
(* No two environments share a port slot or an account, whichever commands *)
(* register and remove them at the same time (registry.Update).            *)
(***************************************************************************)
THEOREM AllocationsDistinct == RegistrySpec => []DistinctAllocations
<1>1. RegistryInv => DistinctAllocations
  BY DEF RegistryInv
<1>. QED
  BY <1>1, Invariant, PTL

\* A step of a process is one edit of the file as it is, or none.
LEMMA StepIsEdit ==
  ASSUME RegistryInv, [RegistryNext]_registryVars
  PROVE  [Edits!EditsNext]_file
<1>1. CASE UNCHANGED registryVars
  BY <1>1 DEF registryVars
<1>2. ASSUME NEW p \in Procs, LockRegistry(p) \/ Abandon(p)
      PROVE  UNCHANGED file
  BY <1>2 DEF LockRegistry, Abandon
<1>3. ASSUME NEW p \in Procs, SaveOther(p)
      PROVE  UNCHANGED file
  BY <1>3, CopyIsFile DEF SaveOther, Save
<1>4. ASSUME NEW p \in Procs, NEW s \in Slugs, SaveNew(p, s)
      PROVE  Edits!Adds(s)
  <2>1. PICK a \in Accounts, k \in Slots :
          /\ AllocatesAccountID(copy[p], a)
          /\ AllocatesPortSlot(copy[p], s, k)
          /\ Save(p, NewEnvironment(copy[p], s, a, k))
    BY <1>4 DEF SaveNew
  <2>2. p \in holders /\ s \notin Registered(copy[p])
    BY <1>4, <2>1 DEF Save, SaveNew
  <2>3. copy[p] = file
    BY <2>2, CopyIsFile
  <2>4. file' = NewEnvironment(file, s, a, k)
    BY <2>1, <2>3 DEF Save
  <2>. QED
    BY <2>1, <2>2, <2>3, <2>4, SameData DEF Edits!Adds
<1>5. ASSUME NEW p \in Procs, NEW s \in Slugs, SavePurged(p, s)
      PROVE  Edits!Purges(s)
  <2>1. p \in holders
    BY <1>5 DEF SavePurged, Save
  <2>. QED
    BY <1>5, <2>1, CopyIsFile, SameData DEF SavePurged, Save, Edits!Purges
<1>6. ASSUME NEW p \in Procs, NEW s \in Slugs, NEW a \in Accounts, SaveDeleted(p, s, a)
      PROVE  Edits!Deletes(s, a)
  <2>1. p \in holders
    BY <1>6 DEF SaveDeleted, Save
  <2>. QED
    BY <1>6, <2>1, CopyIsFile, SameData DEF SaveDeleted, Save, Edits!Deletes
<1>. QED
  BY <1>1, <1>2, <1>3, <1>4, <1>5, <1>6 DEF RegistryNext, Edits!EditsNext

(***************************************************************************)
(* No edit is lost: the processes and their copies implement a registry    *)
(* that is edited in place.                                                *)
(***************************************************************************)
THEOREM NoEditLost == RegistrySpec => ImplementsEdits
<1>1. RegistryInv => file \in Edits!Registries /\ Edits!DistinctAllocations
  BY SameData DEF RegistryInv, DistinctAllocations
<1>2. RegistryInv /\ [RegistryNext]_registryVars => [Edits!EditsNext]_file
  BY StepIsEdit
<1>3. RegistrySpec => [][RegistryNext]_registryVars
  BY DEF RegistrySpec
<1>. QED
  BY <1>1, <1>2, <1>3, Invariant, PTL DEF ImplementsEdits, Edits!EditsSpec

-----------------------------------------------------------------------------
(* What a step leaves alone *)

\* Every row but p's stays as it is.
Moves(p) ==
  \A q \in Procs \ {p} :
    /\ phase'[q] = phase[q] /\ env'[q] = env[q] /\ view'[q] = view[q]
    /\ before'[q] = before[q] /\ list'[q] = list[q] /\ doomed'[q] = doomed[q]

\* The commands' variables have their types.
RowsOK ==
  /\ phase \in [Procs -> InWindow \cup
       {"idle", "adding", "delete", "deleting", "purge", "purged", "unregistering",
        "stop", "looked", "first", "start", "cp-ready"}]
  /\ env \in [Procs -> Slugs \cup {NoSlug}]
  /\ view \in [Procs -> [Slugs -> Accounts \cup {ControlPlaneAccount}]]
  /\ before \in [Procs -> SUBSET Containers]
  /\ touched \in [Procs -> SUBSET Slugs]
  /\ list \in [Procs -> SUBSET (Slugs \X Containers)]
  /\ doomed \in [Procs -> Slugs \cup {NoSlug}]

\* And so have those of the host.
HostOK ==
  /\ substrate \subseteq Procs
  /\ started \subseteq up /\ up \subseteq made /\ made \subseteq Containers
  /\ asked \subseteq Slugs /\ missed \subseteq Containers /\ left \in 0 .. MaxCommands


\* Together they are TypeOK.
LEMMA TypeParts == TypeOK <=> RegistryInv /\ RowsOK /\ HostOK
BY DEF TypeOK, RowsOK, HostOK

\* A command that ends forgets everything but what it touched.
LEMMA EndsRow ==
  ASSUME RowsOK, NEW p \in Procs, Ends(p)
  PROVE  /\ Moves(p)
         /\ phase'[p] = "idle" /\ env'[p] = NoSlug /\ view'[p] = NoView
         /\ before'[p] = {} /\ list'[p] = {} /\ doomed'[p] = NoSlug
         /\ touched' \in [Procs -> SUBSET Slugs] => RowsOK'
<1>1. NoView \in [Slugs -> Accounts \cup {ControlPlaneAccount}]
  BY DEF NoView
<1>2. /\ Moves(p)
      /\ phase'[p] = "idle" /\ env'[p] = NoSlug /\ view'[p] = NoView
      /\ before'[p] = {} /\ list'[p] = {} /\ doomed'[p] = NoSlug
  BY DEF Ends, Goes, Moves, RowsOK
<1>3. touched' \in [Procs -> SUBSET Slugs] => RowsOK'
  BY <1>1 DEF Ends, Goes, RowsOK
<1> QED
  BY <1>2, <1>3

\* Of what is registered the account is known, and of nothing else.
LEMMA RegisteredAccount ==
  ASSUME file \in Registries, NEW s \in Slugs
  PROVE  /\ file.acct[s] \in Accounts \cup {ControlPlaneAccount}
         /\ s \in Registered(file) <=> file.acct[s] # ControlPlaneAccount
         /\ ControlPlaneAccount \notin Accounts
         /\ file.retired \subseteq Accounts
BY RegistryAssumption DEF Registries, Registered, ControlPlaneAccount

\* A container is known by its name and its account.
LEMMA ContainerParts ==
  ASSUME NEW c \in Containers
  PROVE  /\ c[1] \in Slugs /\ c[2] \in Accounts
         /\ \A s, a : c = Container(s, a) <=> c[1] = s /\ c[2] = a
BY DEF Containers, Container

-----------------------------------------------------------------------------
(* The registry *)

\* What types need, also of commands that share an environment: a command knows
\* its environment, and one that works on its account has read it.
Typed ==
  /\ TypeOK
  /\ \A p \in Procs :
       /\ env[p] = NoSlug => phase[p] \in {"idle", "start", "cp", "cp-sweep"}
       /\ phase[p] \in {"delete", "deleting", "env"} => view[p][env[p]] \in Accounts

\* A command that has its environment for itself is one of them.
LEMMA OwnIsTyped ==
  ASSUME TypeOK, OwnEnvironment
  PROVE  Typed
<1>1. ASSUME NEW p \in Procs, phase[p] \in {"delete", "deleting", "env"}
      PROVE  view[p][env[p]] \in Accounts
  <2>1. env[p] # NoSlug /\ env[p] \in Slugs
    BY <1>1 DEF OwnEnvironment, TypeOK
  <2>2. env[p] \in Registered(file) /\ view[p][env[p]] = file.acct[env[p]]
    BY <1>1, <2>1 DEF OwnEnvironment, Knows, InWindow
  <2> QED
    BY <2>1, <2>2, RegisteredAccount DEF TypeOK, RegistryInv
<1> QED
  BY <1>1 DEF Typed, OwnEnvironment

\* Whatever a command does to the registry is one step of Registry.
LEMMA CommandIsEdit ==
  ASSUME Typed, [Next]_vars
  PROVE  [RegistryNext]_registryVars
<1>1. CASE UNCHANGED vars
  BY <1>1 DEF vars, registryVars
<1>2. ASSUME NEW p \in Procs, NEW s \in Slugs, Gives(p, s)
      PROVE  [RegistryNext]_registryVars
  BY <1>2 DEF Gives, Add, Delete, Purge, Stop, StartEnv, StartFirst, RegistryNext
<1>3. ASSUME NEW p \in Procs, Registers(p)
      PROVE  [RegistryNext]_registryVars
  <2>1. env[p] \in Slugs \cup {NoSlug} /\ (env[p] = NoSlug => phase[p] \in {"idle", "start", "cp", "cp-sweep"})
    BY DEF Typed, TypeOK
  <2>2. CASE SaveAdded(p)
    BY <2>1, <2>2 DEF SaveAdded, RegistryNext
  <2>3. CASE LockToDelete(p) \/ LockToUnregister(p) \/ LockFirst(p)
    BY <2>3 DEF LockToDelete, LockToUnregister, LockFirst, RegistryNext
  <2>4. CASE SaveWithout(p)
    <3>1. phase[p] = "deleting" /\ env[p] \in Slugs
      BY <2>1, <2>4 DEF SaveWithout
    <3>2. view[p][env[p]] \in Accounts
      BY <3>1 DEF Typed
    <3> QED
      BY <2>4, <3>1, <3>2 DEF SaveWithout, RegistryNext
  <2>5. CASE SaveUnregistered(p)
    BY <2>1, <2>5 DEF SaveUnregistered, RegistryNext
  <2>6. CASE SaveFirst(p)
    BY <2>1, <2>6 DEF SaveFirst, RegistryNext
  <2> QED
    BY <1>3, <2>2, <2>3, <2>4, <2>5, <2>6 DEF Registers
<1>4. ASSUME NEW p \in Procs,
             \/ StartControlPlane(p) \/ Destroy(p) \/ StopContainers(p)
             \/ Starting(p) \/ (\E c \in Containers : Wake(p, c)) \/ ControlPlaneFails(p)
      PROVE  UNCHANGED registryVars
  BY <1>4 DEF StartControlPlane, Destroy, StopContainers, Starting, Wake, ControlPlaneFails,
     OpenControlPlane, CloseControlPlane, OpenEnv, BringUp, CloseEnv, BeginSweep, StopWoken, Judge
<1>5. ASSUME NEW p \in Procs, Quit(p)
      PROVE  [RegistryNext]_registryVars
  BY <1>5 DEF Quit, RegistryNext
<1> QED
  BY <1>1, <1>2, <1>3, <1>4, <1>5 DEF Next
\* The stamps of a step have their types, and only add what was worked on.
LEMMA StampedRows ==
  ASSUME RowsOK, NEW s \in Slugs
  PROVE  /\ Stamped(s) \in [Procs -> SUBSET Slugs]
         /\ \A q \in Procs :
              /\ Stamped(s)[q] \subseteq touched[q] \cup {s}
              /\ phase[q] \in InWindow => Stamped(s)[q] = touched[q] \cup {s}
BY DEF RowsOK, Stamped

-----------------------------------------------------------------------------
(* Types, whichever commands overlap *)

\* A command that is given has read what it needs.
LEMMA GivesTyped ==
  ASSUME Typed, RegistryInv', NEW p \in Procs, NEW s \in Slugs, Gives(p, s)
  PROVE  Typed'
<1>1. PICK to \in {"adding", "delete", "purge", "stop", "start", "looked"} : Begins(p, s, to)
  BY DEF Gives, Add, Delete, Purge, Stop, StartEnv, StartFirst
<1>2. RowsOK /\ HostOK /\ RegistryInv /\ file \in Registries
  BY TypeParts DEF Typed, RegistryInv
<1>3. /\ phase' = [phase EXCEPT ![p] = to] /\ env' = [env EXCEPT ![p] = s]
      /\ left > 0 /\ left' = left - 1
  BY <1>1 DEF Begins, Goes
<1>4. phase'[p] = to
  BY <1>2, <1>3 DEF RowsOK
<1>5. /\ UNCHANGED <<before, touched, list, doomed, substrate, made, up, started, missed>>
      /\ asked' = asked \/ asked' = asked \cup {s}
      /\ view' = view \/ view' = [view EXCEPT ![p] = file.acct]
      /\ to = "delete" => view' = [view EXCEPT ![p] = file.acct] /\ s \in Registered(file)
  BY <1>1, <1>4 DEF Gives, Add, Delete, Purge, Stop, StartEnv, StartFirst, Begins, Goes, Loads,
     sweepVars, RowsOK
<1>6. file.acct \in [Slugs -> Accounts \cup {ControlPlaneAccount}]
  BY <1>2 DEF Registries
<1>7. RowsOK'
  BY <1>2, <1>3, <1>5, <1>6 DEF RowsOK
<1>8. HostOK'
  <2>1. left' \in 0 .. MaxCommands
    BY <1>2, <1>3, CommandsAssumption DEF HostOK
  <2> QED
    BY <1>2, <1>5, <2>1 DEF HostOK
<1>9. ASSUME NEW q \in Procs
      PROVE  /\ env'[q] = NoSlug => phase'[q] \in {"idle", "start", "cp", "cp-sweep"}
             /\ phase'[q] \in {"delete", "deleting", "env"} => view'[q][env'[q]] \in Accounts
  <2>1. CASE q # p
    <3>1. phase'[q] = phase[q] /\ env'[q] = env[q] /\ view'[q] = view[q]
      BY <1>2, <1>3, <1>5, <2>1 DEF RowsOK
    <3> QED
      BY <3>1 DEF Typed
  <2>2. CASE q = p
    <3>1. env'[q] = s /\ s # NoSlug
      BY <1>2, <1>3, <2>2, NoSlugAssumption DEF RowsOK
    <3>2. to = "delete" => view'[q][s] = file.acct[s] /\ file.acct[s] \in Accounts
      BY <1>2, <1>5, <2>2, RegisteredAccount DEF RowsOK
    <3> QED
      BY <1>4, <2>2, <3>1, <3>2
  <2> QED
    BY <2>1, <2>2
<1>10. TypeOK'
  BY <1>7, <1>8 DEF TypeOK, RowsOK, HostOK
<1> QED
  BY <1>9, <1>10 DEF Typed

\* What a step leaves to show of types, when it is p's.
LEMMA MovesTyped ==
  ASSUME Typed, RegistryInv', NEW p \in Procs, Moves(p), RowsOK', HostOK',
         env'[p] = NoSlug => phase'[p] \in {"idle", "start", "cp", "cp-sweep"},
         phase'[p] \in {"delete", "deleting", "env"} => view'[p][env'[p]] \in Accounts
  PROVE  Typed'
<1>1. ASSUME NEW q \in Procs
      PROVE  /\ env'[q] = NoSlug => phase'[q] \in {"idle", "start", "cp", "cp-sweep"}
             /\ phase'[q] \in {"delete", "deleting", "env"} => view'[q][env'[q]] \in Accounts
  <2>1. CASE q # p
    <3>1. phase'[q] = phase[q] /\ env'[q] = env[q] /\ view'[q] = view[q]
      BY <2>1 DEF Moves
    <3> QED
      BY <3>1 DEF Typed
  <2> QED
    BY <2>1
<1>2. TypeOK'
  BY DEF TypeOK, RowsOK, HostOK
<1> QED
  BY <1>1, <1>2 DEF Typed

\* A command that ends, whatever it leaves on the host.
LEMMA EndsTyped ==
  ASSUME Typed, RegistryInv', NEW p \in Procs, Ends(p),
         touched' \in [Procs -> SUBSET Slugs], HostOK'
  PROVE  Typed'
<1>1. RowsOK
  BY TypeParts DEF Typed
<1>2. /\ Moves(p) /\ RowsOK'
      /\ phase'[p] = "idle" /\ env'[p] = NoSlug
  BY <1>1, EndsRow
<1> QED
  BY <1>2, MovesTyped

\* A command that only goes on to its next phase, which needs nothing new.
LEMMA GoesTyped ==
  ASSUME Typed, RegistryInv', NEW p \in Procs, NEW to, Goes(p, to), HostOK',
         to \in InWindow \cup
           {"deleting", "purged", "unregistering", "first", "start", "cp-ready"},
         UNCHANGED <<env, view, before, touched>>,
         list' \in [Procs -> SUBSET (Slugs \X Containers)],
         \A q \in Procs \ {p} : list'[q] = list[q],
         doomed' = doomed,
         env[p] = NoSlug => to \in {"start", "cp", "cp-sweep"},
         to = "deleting" => phase[p] = "delete",
         to # "env"
  PROVE  Typed'
<1>1. RowsOK
  BY TypeParts DEF Typed
<1>2. phase' = [phase EXCEPT ![p] = to] /\ phase'[p] = to
  BY <1>1 DEF Goes, RowsOK
<1>3. RowsOK'
  BY <1>1, <1>2 DEF RowsOK, InWindow
<1>4. Moves(p)
  BY <1>1, <1>2 DEF Moves, RowsOK
<1>5. to = "deleting" => view'[p][env'[p]] \in Accounts
  BY DEF Typed
<1>6. phase'[p] \in {"delete", "deleting", "env"} => to = "deleting"
  BY <1>2 DEF InWindow
<1>7. env'[p] = NoSlug => phase'[p] \in {"idle", "start", "cp", "cp-sweep"}
  BY <1>2
<1> QED
  BY <1>3, <1>4, <1>5, <1>6, <1>7, MovesTyped

\* What stops containers stops those there are.
LEMMA StopsTyped ==
  ASSUME HostOK, NEW cs \in SUBSET made, Stops(cs)
  PROVE  /\ up' = up \ cs /\ started' = started \ cs /\ missed' \subseteq Containers
BY DEF HostOK, Stops

\* Steps on the registry.
LEMMA RegistersTyped ==
  ASSUME Typed, RegistryInv', NEW p \in Procs, Registers(p)
  PROVE  Typed'
<1>1. RowsOK /\ HostOK /\ touched \in [Procs -> SUBSET Slugs]
  BY TypeParts DEF Typed, RowsOK
<1>2. CASE SaveAdded(p) \/ SaveWithout(p) \/ SaveUnregistered(p)
  <2>1. Ends(p) /\ touched' = touched /\ UNCHANGED hostVars
    BY <1>2 DEF SaveAdded, SaveWithout, SaveUnregistered
  <2>2. HostOK'
    BY <1>1, <2>1 DEF HostOK, hostVars
  <2> QED
    BY <1>1, <2>1, <2>2, EndsTyped
<1>3. CASE LockToDelete(p) \/ LockToUnregister(p) \/ LockFirst(p)
  <2>1. PICK to \in {"deleting", "unregistering", "first"} :
          /\ Goes(p, to)
          /\ to = "deleting" => phase[p] = "delete"
          /\ phase[p] \in {"delete", "purged", "looked"}
    BY <1>3 DEF LockToDelete, LockToUnregister, LockFirst
  <2>2. UNCHANGED <<env, view, sweepVars, hostVars>>
    BY <1>3 DEF LockToDelete, LockToUnregister, LockFirst
  <2>3. HostOK'
    BY <1>1, <2>2 DEF HostOK, hostVars
  <2>4. env[p] # NoSlug
    BY <2>1 DEF Typed
  <2>5. list' = list /\ doomed' = doomed /\ UNCHANGED <<env, view, before, touched>>
    BY <2>2 DEF sweepVars
  <2>6. list' \in [Procs -> SUBSET (Slugs \X Containers)]
    BY <1>1, <2>5 DEF RowsOK
  <2> QED
    BY <2>1, <2>3, <2>4, <2>5, <2>6, GoesTyped
<1>4. CASE SaveFirst(p)
  <2>1. phase[p] = "first" /\ env[p] \in Slugs \cup {NoSlug} /\ UNCHANGED <<substrate, made, up, started, missed, left>>
    BY <1>1, <1>4 DEF SaveFirst, RowsOK
  <2>2. env[p] \in Slugs
    BY <2>1 DEF Typed
  <2>3. CASE Goes(p, "start") /\ asked' = asked \cup {env[p]} /\ UNCHANGED <<env, view, sweepVars>>
    <3>1. HostOK'
      BY <1>1, <2>1, <2>2, <2>3 DEF HostOK
    <3>2. list' = list /\ doomed' = doomed /\ UNCHANGED <<env, view, before, touched>>
      BY <2>3 DEF sweepVars
    <3>3. list' \in [Procs -> SUBSET (Slugs \X Containers)]
      BY <1>1, <3>2 DEF RowsOK
    <3> QED
      BY <2>2, <2>3, <3>1, <3>2, <3>3, GoesTyped, NoSlugAssumption
  <2>4. CASE Ends(p) /\ UNCHANGED <<touched, asked>>
    <3>1. HostOK'
      BY <1>1, <2>1, <2>4 DEF HostOK
    <3> QED
      BY <1>1, <2>4, <3>1, EndsTyped
  <2> QED
    BY <1>4, <2>3, <2>4 DEF SaveFirst
<1> QED
  BY <1>2, <1>3, <1>4 DEF Registers

\* Steps that stop a command's own containers.
LEMMA StopsOwnTyped ==
  ASSUME Typed, RegistryInv', NEW p \in Procs, Destroy(p) \/ StopContainers(p)
  PROVE  Typed'
<1>1. RowsOK /\ HostOK /\ touched \in [Procs -> SUBSET Slugs]
      /\ list \in [Procs -> SUBSET (Slugs \X Containers)]
  BY TypeParts DEF Typed, RowsOK
<1>2. CASE Destroy(p)
  <2>. DEFINE gone == Labelled(view[p], env[p])
  <2>1. /\ phase[p] = "purge" /\ made' = made \ gone /\ Stops(gone \cap up)
        /\ asked' = asked \ {env[p]} /\ Goes(p, "purged")
        /\ UNCHANGED <<env, view, sweepVars, substrate, left>>
    BY <1>2 DEF Destroy
  <2>2. gone \cap up \in SUBSET made
    BY DEF Labelled
  <2>3. up' = up \ (gone \cap up) /\ started' = started \ (gone \cap up) /\ missed' \subseteq Containers
    BY <1>1, <2>1, <2>2, StopsTyped
  <2>4. HostOK'
    <3> HIDE DEF gone
    <3> QED
      BY <1>1, <2>1, <2>3 DEF HostOK
  <2>5. list' = list /\ doomed' = doomed /\ UNCHANGED <<env, view, before, touched>>
    BY <2>1 DEF sweepVars
  <2>6. env[p] # NoSlug
    BY <2>1 DEF Typed
  <2> QED
    BY <1>1, <2>1, <2>4, <2>5, <2>6, GoesTyped
<1>3. CASE StopContainers(p)
  <2>1. /\ Stops({Of(p)} \cap made) /\ asked' = asked \ {env[p]} /\ Ends(p)
        /\ UNCHANGED <<touched, substrate, made, left>>
    BY <1>3 DEF StopContainers
  <2>2. {Of(p)} \cap made \in SUBSET made
    OBVIOUS
  <2>3. /\ up' = up \ ({Of(p)} \cap made) /\ started' = started \ ({Of(p)} \cap made)
        /\ missed' \subseteq Containers
    BY <1>1, <2>1, <2>2, StopsTyped
  <2>4. HostOK'
    BY <1>1, <2>1, <2>3 DEF HostOK
  <2> QED
    BY <1>1, <2>1, <2>4, EndsTyped
<1> QED
  BY <1>2, <1>3

\* Windows open and close.
LEMMA WindowTyped ==
  ASSUME Typed, RegistryInv', NEW p \in Procs,
         OpenControlPlane(p) \/ CloseControlPlane(p) \/ OpenEnv(p) \/ CloseEnv(p)
  PROVE  Typed'
<1>1. RowsOK /\ HostOK /\ touched \in [Procs -> SUBSET Slugs] /\ file \in Registries
      /\ env[p] \in Slugs \cup {NoSlug}
  BY TypeParts DEF Typed, RowsOK, RegistryInv
<1>2. /\ file.acct \in [Slugs -> Accounts \cup {ControlPlaneAccount}]
      /\ RunningEnvContainers(file.acct) \subseteq Containers
  BY <1>1 DEF Registries, RunningEnvContainers, HostOK
<1>3. CASE OpenControlPlane(p)
  <2>1. /\ phase' = [phase EXCEPT ![p] = "cp"] /\ view' = [view EXCEPT ![p] = file.acct]
        /\ before' = [before EXCEPT ![p] = RunningEnvContainers(file.acct)]
        /\ touched' = [touched EXCEPT ![p] = {}]
        /\ substrate' = {p}
        /\ UNCHANGED <<env, list, doomed, made, up, started, asked, missed, left>>
    BY <1>3 DEF OpenControlPlane, Opens, Loads, Goes
  <2>2. RowsOK'
    BY <1>1, <1>2, <2>1 DEF RowsOK, InWindow
  <2>3. HostOK'
    BY <1>1, <2>1 DEF HostOK
  <2>4. Moves(p) /\ phase'[p] = "cp"
    BY <1>1, <2>1 DEF Moves, RowsOK
  <2> QED
    BY <2>2, <2>3, <2>4, MovesTyped
<1>4. CASE CloseControlPlane(p)
  <2>1. /\ substrate' = substrate \ {p} /\ touched' = [touched EXCEPT ![p] = {}]
        /\ UNCHANGED <<made, up, started, asked, missed, left>>
    BY <1>4 DEF CloseControlPlane
  <2>2. HostOK' /\ touched' \in [Procs -> SUBSET Slugs]
    BY <1>1, <2>1 DEF HostOK
  <2>3. CASE env[p] = NoSlug
    <3>1. Ends(p)
      BY <1>4, <2>3 DEF CloseControlPlane
    <3> QED
      BY <2>2, <3>1, EndsTyped
  <2>4. CASE env[p] # NoSlug
    <3>1. /\ phase' = [phase EXCEPT ![p] = "cp-ready"] /\ view' = [view EXCEPT ![p] = NoView]
          /\ before' = [before EXCEPT ![p] = {}] /\ UNCHANGED <<env, list, doomed>>
      BY <1>4, <2>4 DEF CloseControlPlane, Goes
    <3>2. NoView \in [Slugs -> Accounts \cup {ControlPlaneAccount}]
      BY DEF NoView
    <3>3. RowsOK'
      BY <1>1, <2>2, <3>1, <3>2 DEF RowsOK
    <3>4. Moves(p) /\ phase'[p] = "cp-ready" /\ env'[p] # NoSlug
      BY <1>1, <2>4, <3>1 DEF Moves, RowsOK
    <3> QED
      BY <2>2, <3>3, <3>4, MovesTyped
  <2> QED
    BY <2>3, <2>4
<1>5. CASE OpenEnv(p)
  <2>1. HostOK'
    BY <1>1, <1>5 DEF OpenEnv, HostOK, hostVars
  <2>2. CASE env[p] \in Registered(file)
    <3>1. env[p] \in Slugs /\ file.acct[env[p]] \in Accounts
      BY <1>1, <2>2, RegisteredAccount DEF Registered
    <3>2. Stamped(env[p]) \in [Procs -> SUBSET Slugs]
      BY <1>1, <3>1, StampedRows
    <3>3. /\ phase' = [phase EXCEPT ![p] = "env"] /\ view' = [view EXCEPT ![p] = file.acct]
          /\ before' = [before EXCEPT ![p] = RunningEnvContainers(file.acct)]
          /\ touched' = [Stamped(env[p]) EXCEPT ![p] = {}]
          /\ UNCHANGED <<env, list, doomed>>
      BY <1>5, <2>2 DEF OpenEnv, Opens, Loads, Goes
    <3>4. touched' \in [Procs -> SUBSET Slugs]
      BY <3>2, <3>3
    <3>5. RowsOK'
      BY <1>1, <1>2, <3>3, <3>4 DEF RowsOK, InWindow
    <3>6. Moves(p) /\ env'[p] # NoSlug /\ view'[p][env'[p]] \in Accounts
      BY <1>1, <3>1, <3>3, NoSlugAssumption DEF Moves, RowsOK
    <3> QED
      BY <2>1, <3>5, <3>6, MovesTyped
  <2>3. CASE env[p] \notin Registered(file)
    <3>1. Ends(p) /\ touched' = touched
      BY <1>5, <2>3 DEF OpenEnv
    <3> QED
      BY <1>1, <2>1, <3>1, EndsTyped
  <2> QED
    BY <2>2, <2>3
<1>6. CASE CloseEnv(p)
  <2>1. /\ phase[p] = "env-sweep" /\ touched' = [Stamped(env[p]) EXCEPT ![p] = {}]
        /\ Ends(p) /\ UNCHANGED hostVars
    BY <1>6 DEF CloseEnv
  <2>2. env[p] \in Slugs
    BY <1>1, <2>1 DEF Typed
  <2>3. touched' \in [Procs -> SUBSET Slugs]
    BY <1>1, <2>1, <2>2, StampedRows
  <2>4. HostOK'
    BY <1>1, <2>1 DEF HostOK, hostVars
  <2> QED
    BY <2>1, <2>3, <2>4, EndsTyped
<1> QED
  BY <1>3, <1>4, <1>5, <1>6

\* What happens inside a window.
LEMMA SweepTyped ==
  ASSUME Typed, RegistryInv', NEW p \in Procs,
         \/ BringUp(p) \/ BeginSweep(p) \/ StopWoken(p)
         \/ \E s \in Slugs : Judge(p, s)
         \/ \E c \in Containers : Wake(p, c)
  PROVE  Typed'
<1>1. RowsOK /\ HostOK /\ env[p] \in Slugs \cup {NoSlug}
      /\ list \in [Procs -> SUBSET (Slugs \X Containers)] /\ doomed \in [Procs -> Slugs \cup {NoSlug}]
  BY TypeParts DEF Typed, RowsOK
<1>2. CASE BringUp(p)
  <2>1. /\ phase[p] = "env" /\ made' = made \cup {Of(p)} /\ up' = up \cup {Of(p)}
        /\ started' = started \/ started' = started \cup {Of(p)}
        /\ asked' = asked \cup {env[p]} /\ Goes(p, "env-up")
        /\ UNCHANGED <<env, view, sweepVars, substrate, missed, left>>
    BY <1>2 DEF BringUp
  <2>2. env[p] \in Slugs /\ env[p] # NoSlug /\ view[p][env[p]] \in Accounts
    BY <1>1, <2>1, NoSlugAssumption DEF Typed
  <2>3. Of(p) \in Containers
    BY <2>2 DEF Of, Container, Containers
  <2>4. HostOK'
    BY <1>1, <2>1, <2>2, <2>3 DEF HostOK
  <2>5. list' = list /\ doomed' = doomed /\ UNCHANGED <<env, view, before, touched>>
    BY <2>1 DEF sweepVars
  <2> QED
    BY <1>1, <2>1, <2>2, <2>4, <2>5, GoesTyped DEF InWindow
<1>3. CASE BeginSweep(p)
  <2>1. PICK to \in {"cp-sweep", "env-sweep"} :
          /\ Goes(p, to)
          /\ to = "env-sweep" => phase[p] \in {"env", "env-up"}
    BY <1>3 DEF BeginSweep
  <2>2. /\ list' = [list EXCEPT ![p] = ContainersByEnv(view[p])]
        /\ UNCHANGED <<env, view, before, touched, doomed, hostVars>>
    BY <1>3 DEF BeginSweep
  <2>3. ContainersByEnv(view[p]) \subseteq Slugs \X Containers
    BY <1>1 DEF ContainersByEnv, HostOK
  <2>4. HostOK'
    BY <1>1, <2>2 DEF HostOK, hostVars
  <2>5. env[p] = NoSlug => to = "cp-sweep"
    BY <2>1 DEF Typed
  <2>6. /\ list' \in [Procs -> SUBSET (Slugs \X Containers)]
        /\ \A q \in Procs \ {p} : list'[q] = list[q]
    BY <1>1, <2>2, <2>3
  <2> QED
    BY <2>1, <2>2, <2>4, <2>5, <2>6, GoesTyped DEF InWindow
<1>4. CASE StopWoken(p) \/ \E s \in Slugs : Judge(p, s)
  <2>1. PICK s \in Slugs \cup {NoSlug} : list' = Without(p, s) \/ list' = list
    BY <1>1, <1>4 DEF StopWoken, Judge
  <2>2. /\ list' \in [Procs -> SUBSET (Slugs \X Containers)]
        /\ \A q \in Procs \ {p} : list'[q] = list[q]
    BY <1>1, <2>1 DEF Without
  <2>3. PICK s1 \in Slugs \cup {NoSlug} : doomed' = [doomed EXCEPT ![p] = s1] \/ doomed' = doomed
    BY <1>1, <1>4 DEF StopWoken, Judge
  <2>4. /\ doomed' \in [Procs -> Slugs \cup {NoSlug}]
        /\ \A q \in Procs \ {p} : doomed'[q] = doomed[q]
    BY <1>1, <2>3
  <2>5. UNCHANGED <<phase, env, view, before, touched, substrate, made, asked, left>>
    BY <1>4 DEF StopWoken, Judge, hostVars
  <2>6. HostOK'
    <3>1. CASE StopWoken(p)
      <4>. DEFINE woken == {c \in up \ before[p] : <<doomed[p], c>> \in list[p]}
      <4>1. Stops(woken) /\ woken \in SUBSET made
        BY <1>1, <3>1 DEF StopWoken, HostOK
      <4>. HIDE DEF woken
      <4>2. up' = up \ woken /\ started' = started \ woken /\ missed' \subseteq Containers
        BY <1>1, <4>1, StopsTyped
      <4> QED
        BY <1>1, <2>5, <4>2 DEF HostOK
    <3>2. CASE \E t \in Slugs : Judge(p, t)
      BY <1>1, <3>2 DEF Judge, hostVars, HostOK
    <3> QED
      BY <1>4, <3>1, <3>2
  <2>7. RowsOK'
    BY <1>1, <2>2, <2>4, <2>5 DEF RowsOK
  <2>8. Moves(p)
    BY <2>2, <2>4, <2>5 DEF Moves
  <2> QED
    BY <2>5, <2>6, <2>7, <2>8, MovesTyped DEF Typed
<1>5. ASSUME NEW c \in Containers, Wake(p, c) PROVE Typed'
  <2>1. /\ c \in made /\ up' = up \cup {c}
        /\ UNCHANGED <<commandVars, substrate, made, started, asked, missed, left>>
    BY <1>5 DEF Wake
  <2>2. HostOK'
    BY <1>1, <2>1 DEF HostOK
  <2>3. RowsOK' /\ Moves(p) /\ UNCHANGED <<phase, env, view>>
    BY <1>1, <2>1 DEF RowsOK, Moves, commandVars
  <2> QED
    BY <2>2, <2>3, MovesTyped DEF Typed
<1> QED
  BY <1>2, <1>3, <1>4, <1>5

\* A command is cut off.
LEMMA CutOffTyped ==
  ASSUME Typed, RegistryInv', NEW p \in Procs, ControlPlaneFails(p) \/ Quit(p)
  PROVE  Typed'
<1>1. RowsOK /\ HostOK /\ touched \in [Procs -> SUBSET Slugs] /\ env[p] \in Slugs \cup {NoSlug}
  BY TypeParts DEF Typed, RowsOK
<1>2. /\ Ends(p) /\ substrate' = substrate \ {p} /\ started' \subseteq started
      /\ missed' = missed \/ missed' = missed \cup (up \ before[p])
      /\ UNCHANGED <<made, up, asked, left>>
  BY DEF ControlPlaneFails, Quit
<1>3. HostOK'
  BY <1>1, <1>2 DEF HostOK
<1>4. touched' \in [Procs -> SUBSET Slugs]
  <2>1. CASE touched' = [touched EXCEPT ![p] = {}]
    BY <1>1, <2>1
  <2>2. CASE Starter(p) /\ touched' = [Stamped(env[p]) EXCEPT ![p] = {}]
    <3>1. env[p] \in Slugs
      BY <1>1, <2>2 DEF Typed, Starter
    <3>2. Stamped(env[p]) \in [Procs -> SUBSET Slugs]
      BY <1>1, <3>1, StampedRows
    <3> QED
      BY <2>2, <3>2
  <2> QED
    BY <2>1, <2>2 DEF ControlPlaneFails, Quit
<1> QED
  BY <1>2, <1>3, <1>4, EndsTyped

\* Every command and every step keeps the types, and is an edit of the registry.
LEMMA NextTyped ==
  ASSUME Typed, [Next]_vars
  PROVE  Typed'
<1>0. RegistryInv'
  BY CommandIsEdit, InvNext DEF Typed, TypeOK
<1>1. CASE UNCHANGED vars
  BY <1>0, <1>1 DEF vars, commandVars, hostVars, Typed, TypeOK
<1>2. ASSUME NEW p \in Procs, StartControlPlane(p) PROVE Typed'
  <2>1. /\ phase[p] = "idle" /\ left > 0 /\ left' = left - 1 /\ Goes(p, "start")
        /\ UNCHANGED <<env, view, sweepVars, substrate, made, up, started, asked, missed>>
    BY <1>2 DEF StartControlPlane
  <2>2. RowsOK /\ HostOK /\ list \in [Procs -> SUBSET (Slugs \X Containers)]
    BY TypeParts DEF Typed, RowsOK
  <2>3. left' \in 0 .. MaxCommands
    BY <2>1, <2>2, CommandsAssumption DEF HostOK
  <2>4. HostOK'
    BY <2>1, <2>2, <2>3 DEF HostOK
  <2>5. list' = list /\ doomed' = doomed /\ UNCHANGED <<env, view, before, touched>>
    BY <2>1 DEF sweepVars
  <2> QED
    BY <1>0, <2>1, <2>2, <2>4, <2>5, GoesTyped
<1> QED
  BY <1>0, <1>1, <1>2, GivesTyped, RegistersTyped, StopsOwnTyped, WindowTyped, SweepTyped,
     CutOffTyped DEF Next, Starting
-----------------------------------------------------------------------------------------------------------------------------------------------------
(* Steps outside the windows *)

\* p does something to the registry, or begins or ends a command; no window
\* opens or closes, nothing starts or stops.
Quiet(p) ==
  /\ Moves(p) /\ phase[p] \notin InWindow /\ phase'[p] \notin InWindow
  /\ before'[p] \in {before[p], {}} /\ list'[p] \in {list[p], {}}
  /\ doomed'[p] \in {doomed[p], NoSlug}
  /\ touched' = touched /\ made' = made /\ up' = up
  /\ started' = started /\ missed' = missed /\ asked \subseteq asked'

\* Who is active stays active, when p's window is not an environment's.
LEMMA SameActive ==
  ASSUME NEW p \in Procs, Moves(p),
         phase[p] \notin {"env", "env-up", "env-sweep"},
         phase'[p] \notin {"env", "env-up", "env-sweep"}
  PROVE  \A s : Active(s)' <=> Active(s)
BY DEF Moves, Active, Starter

\* What is registered for another command's environment stays.
OthersKept(p) ==
  \A q \in Procs \ {p} :
    phase[q] \in Knows \cup Starts /\ env[q] # NoSlug
      => file'.acct[env[q]] = file.acct[env[q]]

\* What such a step keeps, of what it does to the registry.
LEMMA QuietKeeps ==
  ASSUME IInv, NEW p \in Procs, Quiet(p),
         file.retired \subseteq file'.retired,
         OthersKept(p),
         phase'[p] \in Starts => env'[p] \in asked' \cup {NoSlug},
         \A c \in started : file'.acct[c[1]] = c[2],
         phase'[p] \in {"delete", "deleting"} => \A c \in started : c[1] # env'[p]
  PROVE  SweepLists' /\ WindowsExcuse' /\ WindowsKnow' /\ WokenWillStop' /\ StartedIsKept'
<1>1. /\ ~Sweeping(p) /\ ~Sweeping(p)' /\ list[p] = {} /\ list'[p] = {}
      /\ doomed[p] = NoSlug /\ doomed'[p] = NoSlug
  BY DEF IInv, SweepLists, Sweeping, InWindow, Quiet
<1>2. \A q \in Procs \ {p} :
        /\ phase'[q] = phase[q] /\ env'[q] = env[q] /\ view'[q] = view[q]
        /\ before'[q] = before[q] /\ list'[q] = list[q] /\ doomed'[q] = doomed[q]
        /\ Sweeping(q)' <=> Sweeping(q)
  BY DEF Quiet, Moves, Sweeping
<1>3. /\ \A q \in Procs : before'[q] \subseteq before[q]
      /\ \A q \in Procs : phase'[q] \in InWindow => q # p /\ phase[q] \in InWindow
      /\ \A q \in Procs : phase[q] \in InWindow => q # p
  BY <1>2 DEF Quiet
<1>4. \A s : Active(s)' <=> Active(s)
  BY SameActive DEF Quiet, InWindow
<1>5. made \subseteq Containers /\ up \subseteq made /\ started \subseteq made
  BY DEF IInv, TypeOK
<1>6. SweepLists'
  BY <1>1, <1>2 DEF IInv, SweepLists
<1>7. \A c : Excused(c) => Excused(c)'
  BY DEF Quiet, Excused
<1>8. WindowsExcuse'
  <2> SUFFICES ASSUME NEW q \in Procs, NEW c \in made
               PROVE  /\ c \in before'[q] => c \in up \cup missed
                      /\ c[1] \in touched[q] => Excused(c)'
                      /\ phase'[q] \in Starts /\ env'[q] = c[1]
                           => c[1] \in asked'
    BY DEF WindowsExcuse, Quiet
  <2>1. c \in before'[q] => c \in up \cup missed
    BY <1>3 DEF IInv, WindowsExcuse
  <2>2. c[1] \in touched[q] => Excused(c)'
    BY <1>7 DEF IInv, WindowsExcuse
  <2>3. phase'[q] \in Starts /\ env'[q] = c[1] => c[1] \in asked'
    <3>1. CASE q = p
      BY <1>5, <3>1, NoSlugAssumption, ContainerParts
    <3>2. CASE q # p
      BY <1>2, <3>2 DEF IInv, WindowsExcuse, Quiet
    <3> QED
      BY <3>1, <3>2
  <2> QED
    BY <2>1, <2>2, <2>3
<1>9. WindowsKnow'
  <2> SUFFICES ASSUME NEW q \in Procs, phase[q] \in InWindow, q # p
               PROVE  /\ \A c \in made : c[1] \in touched[q] \/ view[q][c[1]] = c[2]
                                           \/ c[2] \in file'.retired
                      /\ \A s \in Slugs : Active(s) => s \in touched[q] \/ view[q][s] = file'.acct[s]
    BY <1>2, <1>3, <1>4 DEF WindowsKnow, Quiet
  <2>1. \A c \in made : c[1] \in touched[q] \/ view[q][c[1]] = c[2] \/ c[2] \in file.retired
    BY DEF IInv, WindowsKnow
  <2>2. ASSUME NEW s \in Slugs, Active(s)
        PROVE  s \in touched[q] \/ view[q][s] = file'.acct[s]
    <3>1. PICK r \in Procs : env[r] = s /\ phase[r] \in {"env", "env-up", "env-sweep"}
      BY <2>2 DEF Active, Starter
    <3>2. r # p /\ phase[r] \in Starts
      BY <3>1 DEF Quiet, InWindow, Starts
    <3>3. s # NoSlug
      BY NoSlugAssumption
    <3>4. file'.acct[s] = file.acct[s]
      BY <3>1, <3>2, <3>3 DEF OthersKept
    <3> QED
      BY <2>2, <3>4 DEF IInv, WindowsKnow
  <2> QED
    BY <2>1, <2>2
<1>10. WokenWillStop'
  <2> SUFFICES ASSUME NEW c \in up, ~Excused(c) PROVE \E q \in Procs : WillStop(q, c)'
    BY <1>7 DEF WokenWillStop, Quiet
  <2>1. PICK q \in Procs : WillStop(q, c)
    BY DEF IInv, WokenWillStop
  <2>2. q # p
    BY <2>1, <1>1 DEF WillStop, Quiet, InWindow
  <2>3. WillStop(q, c)'
    BY <1>2, <2>1, <2>2 DEF WillStop, Quiet
  <2> QED
    BY <2>3
<1>11. StartedIsKept'
  <2> SUFFICES ASSUME NEW c \in started, NEW q \in Procs
               PROVE  /\ phase'[q] \in {"delete", "deleting"} => c[1] # env'[q]
                      /\ phase'[q] \in InWindow /\ c \notin before'[q] =>
                           \A s \in Slugs : view'[q][s] = c[2] => s = c[1] /\ Exempt(q, s)'
                      /\ doomed'[q] # NoSlug /\ <<doomed'[q], c>> \in list'[q] => c \in before'[q]
    BY DEF StartedIsKept, Quiet
  <2>1. CASE q = p
    BY <1>1, <2>1 DEF Quiet
  <2>2. CASE q # p
    <3>1. \A s : Exempt(q, s)' <=> Exempt(q, s)
      BY <1>2, <1>4, <2>2 DEF Exempt, Quiet
    <3>2. /\ phase[q] \in {"delete", "deleting"} => c[1] # env[q]
          /\ phase[q] \in InWindow /\ c \notin before[q] =>
               \A s \in Slugs : view[q][s] = c[2] => s = c[1] /\ Exempt(q, s)
          /\ doomed[q] # NoSlug /\ <<doomed[q], c>> \in list[q] => c \in before[q]
      BY DEF IInv, StartedIsKept
    <3> QED
      BY <1>2, <2>2, <3>1, <3>2
  <2> QED
    BY <2>1, <2>2
<1> QED
  BY <1>6, <1>8, <1>9, <1>10, <1>11

\* p's row of OwnEnvironment.
OwnRow(p) ==
  /\ phase[p] = "idle" => env[p] = NoSlug
  /\ env[p] = NoSlug => phase[p] \in {"idle", "start", "cp", "cp-sweep"}
  /\ p \in holders <=> phase[p] \in Locking
  /\ env[p] # NoSlug /\ phase[p] \in Knows \cup Starts => env[p] \in Registered(file)
  /\ env[p] # NoSlug /\ phase[p] \in Knows => view[p][env[p]] = file.acct[env[p]]

\* No other command is disturbed by one that works on its own environment.
LEMMA OwnKeeps ==
  ASSUME RowsOK, OwnEnvironment, NEW p \in Procs, Moves(p),
         OthersKept(p),
         \A q \in Procs \ {p} : q \in holders' <=> q \in holders,
         \/ env'[p] = NoSlug \/ phase'[p] \in Registering
         \/ \A q \in Procs \ {p} : env[q] = env'[p] => phase[q] \in Registering,
         OwnRow(p)'
  PROVE  OwnEnvironment'
<1>1. ASSUME NEW q \in Procs, NEW r \in Procs, env'[q] = env'[r], env'[q] # NoSlug,
             {phase'[q], phase'[r]} \cap Registering = {}
      PROVE  q = r
  <2>1. CASE q # p /\ r # p
    <3>1. /\ phase'[q] = phase[q] /\ phase'[r] = phase[r]
          /\ env'[q] = env[q] /\ env'[r] = env[r]
      BY <2>1 DEF Moves
    <3>2. \A a, b \in Procs :
            /\ env[a] = env[b] /\ env[a] # NoSlug
            /\ {phase[a], phase[b]} \cap Registering = {}
            => a = b
      BY DEF OwnEnvironment
    <3> QED
      BY ONLY <1>1, <3>1, <3>2
  <2>2. CASE q = p /\ r # p
    BY <1>1, <2>2 DEF Moves
  <2>3. CASE q # p /\ r = p
    BY <1>1, <2>3 DEF Moves
  <2> QED
    BY <2>1, <2>2, <2>3
<1>2. ASSUME NEW q \in Procs
      PROVE  OwnRow(q)'
  <2>1. CASE q = p
    BY <2>1
  <2>2. CASE q # p
    <3>1. /\ phase'[q] = phase[q] /\ env'[q] = env[q] /\ view'[q] = view[q]
          /\ q \in holders' <=> q \in holders
          /\ OwnRow(q)
      BY <2>2 DEF Moves, OwnEnvironment, OwnRow
    <3>2. env[q] # NoSlug /\ phase[q] \in Knows \cup Starts
            => env[q] \in Slugs /\ file'.acct[env[q]] = file.acct[env[q]]
      BY <2>2 DEF RowsOK, OthersKept
    <3>3. env[q] # NoSlug /\ phase[q] \in Knows \cup Starts
            => (env[q] \in Registered(file)' <=> env[q] \in Registered(file))
      BY <3>2 DEF Registered
    <3> QED
      BY <3>1, <3>2, <3>3 DEF OwnRow
  <2> QED
    BY <2>1, <2>2
<1> QED
  BY <1>1, <1>2 DEF OwnEnvironment, OwnRow

\* What the proofs of one command at a time rest on.
OneAtATime == "overlap" \notin Faults

\* A command that begins has its environment for itself.
LEMMA BeginsRow ==
  ASSUME TypeOK, OwnEnvironment, OneAtATime, NEW p \in Procs, NEW s \in Slugs, NEW to,
         Begins(p, s, to)
  PROVE  /\ phase[p] = "idle" /\ env[p] = NoSlug /\ phase'[p] = to /\ env'[p] = s
         /\ s # NoSlug
         /\ phase' = [phase EXCEPT ![p] = to] /\ env' = [env EXCEPT ![p] = s]
         /\ \A q \in Procs \ {p} : phase'[q] = phase[q] /\ env'[q] = env[q]
         /\ \/ to \in Registering
            \/ \A q \in Procs \ {p} : env[q] = s => phase[q] \in Registering
         /\ left' \in 0 .. MaxCommands
<1>1. /\ phase[p] = "idle" /\ left > 0 /\ left' = left - 1
      /\ \/ to \in Registering
         \/ \A q \in Procs \ {p} : env[q] = s => phase[q] \in Registering
  BY DEF Begins, Alone, OneAtATime
<1>2. left \in 0 .. MaxCommands /\ MaxCommands \in Nat
  BY CommandsAssumption DEF TypeOK
<1>3. s # NoSlug /\ env[p] = NoSlug
  BY <1>1, NoSlugAssumption DEF OwnEnvironment
<1>4. phase' = [phase EXCEPT ![p] = to] /\ env' = [env EXCEPT ![p] = s]
  BY DEF Begins, Goes
<1>5. /\ phase'[p] = to /\ env'[p] = s
      /\ \A q \in Procs \ {p} : phase'[q] = phase[q] /\ env'[q] = env[q]
  BY <1>4 DEF TypeOK
<1> QED
  BY <1>1, <1>2, <1>3, <1>4, <1>5

\* The registry stays sound.
LEMMA RegistryKept ==
  ASSUME TypeOK, OwnEnvironment, Next
  PROVE  RegistryInv'
BY CommandIsEdit, InvNext, OwnIsTyped DEF TypeOK

\* A command is given.
LEMMA GivesIInv ==
  ASSUME IInv, OneAtATime, NEW p \in Procs, NEW s \in Slugs, Gives(p, s)
  PROVE  IInv'
<1>1. PICK to \in {"adding", "delete", "purge", "stop", "start", "looked"} : Begins(p, s, to)
  BY DEF Gives, Add, Delete, Purge, Stop, StartEnv, StartFirst
<1>2. /\ phase[p] = "idle" /\ env[p] = NoSlug /\ phase'[p] = to /\ env'[p] = s
      /\ s # NoSlug
      /\ phase' = [phase EXCEPT ![p] = to] /\ env' = [env EXCEPT ![p] = s]
      /\ \A q \in Procs \ {p} : phase'[q] = phase[q] /\ env'[q] = env[q]
      /\ \/ to \in Registering
         \/ \A q \in Procs \ {p} : env[q] = s => phase[q] \in Registering
      /\ left' \in 0 .. MaxCommands
  BY <1>1, BeginsRow DEF IInv
<1>3. /\ UNCHANGED <<file, before, touched, list, doomed, substrate, made, up, started, missed>>
      /\ to = "adding" => LockRegistry(p) /\ view' = view
      /\ to # "adding" => holders' = holders
      /\ to = "looked" => view' = view
      /\ to \in {"delete", "purge", "stop"} => Loads(p) /\ s \in Registered(file)
      /\ to = "start" => view' = view /\ s \in Registered(file)
      /\ asked' = IF to = "start" THEN asked \cup {s} ELSE asked
      /\ to = "delete" => Container(s, file.acct[s]) \notin up
  BY <1>2 DEF Gives, Add, Delete, Purge, Stop, StartEnv, StartFirst, Begins, Goes,
     LockRegistry, registryVars, sweepVars
<1>4. /\ RowsOK /\ HostOK /\ RegistryInv /\ file \in Registries
      /\ OwnEnvironment /\ Addressed /\ StartedIsKept
  BY TypeParts DEF IInv, RegistryInv
<1>5. view' \in [Procs -> [Slugs -> Accounts \cup {ControlPlaneAccount}]]
      /\ view'[p] \in {view[p], file.acct}
      /\ (to \in {"delete", "purge", "stop"} => view'[p] = file.acct)
      /\ \A q \in Procs \ {p} : view'[q] = view[q]
  BY <1>3, <1>4 DEF Loads, Registries, RowsOK
<1>6. Moves(p)
  BY <1>2, <1>3, <1>5 DEF Moves
<1>7. TypeOK'
  <2>1. RowsOK'
    <3>1. phase' \in [Procs -> InWindow \cup
       {"idle", "adding", "delete", "deleting", "purge", "purged", "unregistering",
        "stop", "looked", "first", "start", "cp-ready"}]
      BY <1>2, <1>4 DEF RowsOK
    <3>2. env' \in [Procs -> Slugs \cup {NoSlug}]
      BY <1>2, <1>4 DEF RowsOK
    <3> QED
      BY <3>1, <3>2, <1>3, <1>4, <1>5 DEF RowsOK
  <2>2. HostOK'
    BY <1>2, <1>3, <1>4 DEF HostOK
  <2>3. RegistryInv'
    BY RegistryKept DEF IInv, Next
  <2> QED
    BY <2>1, <2>2, <2>3 DEF TypeOK, RowsOK, HostOK
<1>8. p \in holders' <=> to = "adding"
  BY <1>2, <1>3, <1>4 DEF LockRegistry, OwnEnvironment, Locking
<1>9. \A q \in Procs \ {p} : q \in holders' <=> q \in holders
  BY <1>3 DEF LockRegistry
<1>10. OwnRow(p)'
  BY <1>2, <1>3, <1>5, <1>8 DEF OwnRow, Locking, Knows, Starts, InWindow
<1>11. OwnEnvironment'
  <2>1. OthersKept(p)
    BY <1>3 DEF OthersKept
  <2> QED
    BY <1>2, <1>4, <1>6, <1>9, <1>10, <2>1, OwnKeeps
<1>12. Addressed'
  BY <1>2, <1>3, <1>5, <1>4 DEF Addressed
<1>13. to = "delete" => \A c \in started : c[1] # s
  <2> SUFFICES ASSUME to = "delete", NEW c \in started, c[1] = s PROVE FALSE
    OBVIOUS
  <2>1. c \in up /\ c \in Containers /\ file.acct[s] = c[2]
    BY <1>4 DEF HostOK, StartedIsKept
  <2> QED
    BY <1>3, <2>1, ContainerParts
<1>14. Quiet(p)
  BY <1>2, <1>3, <1>6 DEF Quiet, InWindow
<1>15. \A c \in started : file'.acct[c[1]] = c[2]
  BY <1>3, <1>4 DEF StartedIsKept
<1>16. /\ phase'[p] \in Starts => env'[p] \in asked'
       /\ phase'[p] \in {"delete", "deleting"} => \A c \in started : c[1] # env'[p]
  BY <1>2, <1>3, <1>13 DEF Starts, InWindow
<1>17. SweepLists' /\ WindowsExcuse' /\ WindowsKnow' /\ WokenWillStop' /\ StartedIsKept'
  <2>1. OthersKept(p)
    BY <1>3 DEF OthersKept
  <2> QED
    BY <1>3, <1>14, <1>15, <1>16, <2>1, QuietKeeps
<1> QED
  BY <1>7, <1>11, <1>12, <1>17 DEF IInv

\* A command asks for the registry lock, or a start of the control plane begins.
LEMMA LocksIInv ==
  ASSUME IInv, NEW p \in Procs,
         StartControlPlane(p) \/ LockToDelete(p) \/ LockToUnregister(p) \/ LockFirst(p)
  PROVE  IInv'
<1>1. /\ RowsOK /\ HostOK /\ RegistryInv
      /\ OwnEnvironment /\ Addressed /\ StartedIsKept
  BY TypeParts DEF IInv
<1>2. PICK to \in {"start", "deleting", "unregistering", "first"} :
        /\ phase' = [phase EXCEPT ![p] = to]
        /\ UNCHANGED <<file, env, view, before, touched, list, doomed, substrate, made, up,
                       started, asked, missed>>
        /\ IF to = "start" THEN phase[p] = "idle" /\ left > 0 /\ left' = left - 1 /\ holders' = holders
           ELSE LockRegistry(p) /\ left' = left
        /\ to = "deleting" => phase[p] = "delete"
        /\ to = "unregistering" => phase[p] = "purged"
        /\ to = "first" => phase[p] = "looked"
  BY DEF StartControlPlane, LockToDelete, LockToUnregister, LockFirst, Goes, LockRegistry, registryVars,
     sweepVars, hostVars
<1>3. phase'[p] = to /\ \A q \in Procs \ {p} : phase'[q] = phase[q]
  BY <1>1, <1>2 DEF RowsOK
<1>4. Moves(p) /\ Quiet(p)
  BY <1>2, <1>3 DEF Moves, Quiet, InWindow
<1>5. TypeOK'
  <2>1. RowsOK'
    BY <1>1, <1>2 DEF RowsOK
  <2>2. left \in 0 .. MaxCommands /\ MaxCommands \in Nat
    BY <1>1, CommandsAssumption DEF HostOK
  <2>3. left' \in 0 .. MaxCommands
    BY <1>2, <2>2
  <2>4. HostOK'
    BY <1>1, <1>2, <2>3 DEF HostOK
  <2>5. RegistryInv'
    BY RegistryKept DEF IInv, Next, Registers
  <2> QED
    BY <2>1, <2>4, <2>5 DEF TypeOK, RowsOK, HostOK
<1>6. p \in holders' <=> to # "start"
  BY <1>1, <1>2 DEF OwnEnvironment, Locking, LockRegistry
<1>7. OwnRow(p)'
  BY <1>1, <1>2, <1>3, <1>6 DEF OwnRow, OwnEnvironment, Locking, Knows, Starts, InWindow
<1>8. OwnEnvironment'
  <2>1. OthersKept(p)
    BY <1>2 DEF OthersKept
  <2>2. \A q \in Procs \ {p} : q \in holders' <=> q \in holders
    BY <1>2 DEF LockRegistry
  <2>3. \/ env'[p] = NoSlug \/ phase'[p] \in Registering
        \/ \A q \in Procs \ {p} : env[q] = env'[p] => phase[q] \in Registering
    <3>1. to \in {"deleting", "unregistering"} => phase[p] \notin Registering
      BY <1>2 DEF Registering
    <3>2. to = "start" => env'[p] = NoSlug
      BY <1>1, <1>2 DEF OwnEnvironment
    <3>3. to = "first" => phase'[p] \in Registering
      BY <1>3 DEF Registering
    <3>4. phase[p] \notin Registering /\ env[p] # NoSlug =>
            \A q \in Procs \ {p} : env[q] = env[p] => phase[q] \in Registering
      BY <1>1 DEF OwnEnvironment
    <3> QED
      BY <1>2, <3>1, <3>2, <3>3, <3>4
  <2> QED
    BY <1>1, <1>4, <1>7, <2>1, <2>2, <2>3, OwnKeeps
<1>9. Addressed'
  BY <1>1, <1>2, <1>3 DEF Addressed
<1>10. phase'[p] \in Starts => env'[p] = NoSlug
  BY <1>1, <1>2, <1>3 DEF Starts, InWindow, OwnEnvironment
<1>11. phase'[p] \in {"delete", "deleting"} => \A c \in started : c[1] # env'[p]
  BY <1>1, <1>2, <1>3 DEF StartedIsKept
<1>12. \A c \in started : file'.acct[c[1]] = c[2]
  BY <1>1, <1>2 DEF StartedIsKept
<1>13. SweepLists' /\ WindowsExcuse' /\ WindowsKnow' /\ WokenWillStop' /\ StartedIsKept'
  <2>1. OthersKept(p)
    BY <1>2 DEF OthersKept
  <2> QED
    BY <1>2, <1>4, <1>10, <1>11, <1>12, <2>1, QuietKeeps
<1> QED
  BY <1>5, <1>8, <1>9, <1>13 DEF IInv

-----------------------------------------------------------------------------
(* Saves *)

\* What a save makes of the accounts: s gets one that is free,
LEMMA SaveNewAccounts ==
  ASSUME RegistryInv, NEW p \in Procs, NEW s \in Slugs, SaveNew(p, s)
  PROVE  /\ p \in holders /\ holders' = {} /\ file.acct[s] = ControlPlaneAccount
         /\ file'.acct[s] \in Accounts \ file.retired
         /\ \A t \in Slugs \ {s} : file'.acct[t] = file.acct[t]
         /\ file'.retired = file.retired
<1>1. PICK a \in Accounts, k \in Slots :
        /\ AllocatesAccountID(copy[p], a)
        /\ Save(p, NewEnvironment(copy[p], s, a, k))
  BY DEF SaveNew
<1>2. /\ p \in holders /\ holders = {p} /\ copy[p] = file
      /\ file' = NewEnvironment(file, s, a, k) /\ holders' = {}
  BY <1>1 DEF Save, RegistryInv
<1>3. file.acct \in [Slugs -> Accounts \cup {ControlPlaneAccount}] /\ file \in Registries
  BY DEF RegistryInv, Registries
<1>4. file'.acct = [file.acct EXCEPT ![s] = a] /\ file'.retired = file.retired
  BY <1>2, <1>3 DEF NewEnvironment, Registries
<1>5. a \notin file.retired
  BY <1>1, <1>2 DEF AllocatesAccountID, FreeAccounts
<1>6. file.acct[s] = ControlPlaneAccount
  BY <1>2 DEF SaveNew, Registered
<1> QED
  BY <1>2, <1>3, <1>4, <1>5, <1>6

\* or loses its own, which a delete retires.
LEMMA SaveRemovedAccounts ==
  ASSUME RegistryInv, NEW p \in Procs, NEW s \in Slugs, NEW a \in Accounts,
         SavePurged(p, s) \/ SaveDeleted(p, s, a)
  PROVE  /\ p \in holders /\ holders' = {}
         /\ file'.acct[s] = ControlPlaneAccount
         /\ \A t \in Slugs \ {s} : file'.acct[t] = file.acct[t]
         /\ SavePurged(p, s) => file'.retired = file.retired
         /\ SaveDeleted(p, s, a) => file'.retired = file.retired \cup {a}
<1>1. /\ p \in holders /\ holders = {p} /\ copy[p] = file /\ holders' = {}
      /\ SavePurged(p, s) => file' = RemoveEnvironment(file, s)
      /\ SaveDeleted(p, s, a) => file' = RetireAccount(RemoveEnvironment(file, s), a)
  BY DEF SavePurged, SaveDeleted, Save, RegistryInv
<1>2. file.acct \in [Slugs -> Accounts \cup {ControlPlaneAccount}] /\ file \in Registries
  BY DEF RegistryInv, Registries
<1>3. /\ RemoveEnvironment(file, s) \in Registries
      /\ RemoveEnvironment(file, s).acct = [file.acct EXCEPT ![s] = ControlPlaneAccount]
      /\ RemoveEnvironment(file, s).retired = file.retired
  BY <1>2, RemovedIsRegistry DEF RemoveEnvironment, Registries
<1>4. /\ file'.acct = [file.acct EXCEPT ![s] = ControlPlaneAccount]
      /\ SavePurged(p, s) => file'.retired = file.retired
      /\ SaveDeleted(p, s, a) => file'.retired = file.retired \cup {a}
  BY <1>1, <1>3 DEF RetireAccount, Registries
<1> QED
  BY <1>1, <1>2, <1>4

\* Two environments have two accounts.
LEMMA TwoAccounts ==
  ASSUME RegistryInv, NEW s \in Slugs, NEW t \in Slugs, s # t, file.acct[s] = file.acct[t]
  PROVE  file.acct[s] = ControlPlaneAccount
BY SameDistinct DEF RegistryInv, Distinct, Registered
\* What the command that holds the lock makes of its environment's account.
LEMMA SaveAccounts ==
  ASSUME IInv, NEW p \in Procs,
         SaveAdded(p) \/ SaveWithout(p) \/ SaveUnregistered(p) \/ SaveFirst(p)
  PROVE  /\ env[p] \in Slugs /\ p \in holders /\ holders = {p} /\ holders' = {}
         /\ \A t \in Slugs \ {env[p]} : file'.acct[t] = file.acct[t]
         /\ \/ file'.acct[env[p]] = file.acct[env[p]] /\ file'.retired = file.retired
            \/ /\ file.acct[env[p]] = ControlPlaneAccount /\ file'.retired = file.retired
               /\ file'.acct[env[p]] \in Accounts \ file.retired
            \/ /\ phase[p] = "deleting" /\ file'.acct[env[p]] = ControlPlaneAccount
               /\ file'.retired = file.retired \cup {file.acct[env[p]]}
            \/ /\ phase[p] = "unregistering" /\ file'.acct[env[p]] = ControlPlaneAccount
               /\ file'.retired = file.retired
<1>1. RowsOK /\ HostOK /\ RegistryInv /\ OwnEnvironment
  BY TypeParts DEF IInv
<1>2. /\ phase[p] \in Locking /\ p \in holders /\ holders = {p} /\ copy[p] = file
      /\ env[p] \in Slugs
  <2>1. phase[p] \in Locking
    BY DEF SaveAdded, SaveWithout, SaveUnregistered, SaveFirst, Locking
  <2>2. p \in holders /\ env[p] \in Slugs
    BY <1>1, <2>1 DEF OwnEnvironment, RowsOK, Locking
  <2> QED
    BY <1>1, <2>1, <2>2 DEF RegistryInv
<1>3. CASE SaveNew(p, env[p])
  BY <1>1, <1>2, <1>3, SaveNewAccounts
<1>4. CASE Abandon(p) \/ SaveOther(p)
  <2>1. file' = file /\ holders' = {}
    BY <1>2, <1>4 DEF Abandon, SaveOther, Save
  <2> QED
    BY <1>2, <2>1
<1>5. CASE SaveWithout(p) /\ SaveDeleted(p, env[p], view[p][env[p]])
  <2>1. phase[p] = "deleting"
    BY <1>5 DEF SaveWithout
  <2>2. view[p][env[p]] = file.acct[env[p]] /\ env[p] \in Registered(file)
    BY <1>1, <1>2, <2>1, NoSlugAssumption DEF OwnEnvironment, Knows
  <2>3. view[p][env[p]] \in Accounts
    BY <1>1, <1>2, <2>2, RegisteredAccount DEF RegistryInv
  <2> QED
    BY <1>1, <1>2, <1>5, <2>1, <2>2, <2>3, SaveRemovedAccounts
<1>6. CASE SaveUnregistered(p) /\ SavePurged(p, env[p])
  <2>1. phase[p] = "unregistering"
    BY <1>6 DEF SaveUnregistered
  <2>2. file.acct[env[p]] \in Accounts
    BY <1>1, <1>2, <2>1, RegisteredAccount, NoSlugAssumption
    DEF RegistryInv, OwnEnvironment, Knows
  <2> QED
    BY <1>1, <1>2, <1>6, <2>1, <2>2, SaveRemovedAccounts
<1> QED
  BY <1>3, <1>4, <1>5, <1>6 DEF SaveAdded, SaveWithout, SaveUnregistered, SaveFirst

\* A command saves what it did to the registry, and ends or begins to start.
LEMMA SavesIInv ==
  ASSUME IInv, OneAtATime, NEW p \in Procs,
         SaveAdded(p) \/ SaveWithout(p) \/ SaveUnregistered(p) \/ SaveFirst(p)
  PROVE  IInv'
<1>. DEFINE s == env[p]
<1>1. /\ RowsOK /\ HostOK /\ RegistryInv /\ file \in Registries
      /\ OwnEnvironment /\ Addressed /\ StartedIsKept
  BY TypeParts DEF IInv, RegistryInv
<1>2. /\ s \in Slugs /\ p \in holders /\ holders = {p} /\ holders' = {}
      /\ \A t \in Slugs \ {s} : file'.acct[t] = file.acct[t]
      /\ \/ file'.acct[s] = file.acct[s] /\ file'.retired = file.retired
         \/ /\ file.acct[s] = ControlPlaneAccount /\ file'.retired = file.retired
            /\ file'.acct[s] \in Accounts \ file.retired
         \/ /\ phase[p] = "deleting" /\ file'.acct[s] = ControlPlaneAccount
            /\ file'.retired = file.retired \cup {file.acct[s]}
         \/ /\ phase[p] = "unregistering" /\ file'.acct[s] = ControlPlaneAccount
            /\ file'.retired = file.retired
  BY SaveAccounts
<1>3. phase[p] \in {"adding", "deleting", "unregistering", "first"} /\ s # NoSlug
  BY <1>2, NoSlugAssumption DEF SaveAdded, SaveWithout, SaveUnregistered, SaveFirst
<1>4. /\ UNCHANGED <<touched, substrate, made, up, started, missed, left>>
      /\ \/ Ends(p) /\ asked' = asked
         \/ /\ phase' = [phase EXCEPT ![p] = "start"] /\ s \in Registered(file)'
            /\ asked' = asked \cup {s}
            /\ UNCHANGED <<env, view, before, list, doomed>>
            /\ Alone(p, s)
  BY DEF SaveAdded, SaveWithout, SaveUnregistered, SaveFirst, hostVars, sweepVars, Goes
<1>5. /\ Moves(p) /\ RowsOK'
      /\ before'[p] \in {before[p], {}} /\ list'[p] \in {list[p], {}}
      /\ doomed'[p] \in {doomed[p], NoSlug}
      /\ \/ phase'[p] = "idle" /\ env'[p] = NoSlug
         \/ phase'[p] = "start" /\ env'[p] = s /\ s \in Registered(file)' /\ s \in asked'
            /\ Alone(p, s)
  <2>1. CASE Ends(p)
    BY <1>1, <1>4, <2>1, EndsRow DEF RowsOK
  <2>2. CASE ~Ends(p)
    BY <1>1, <1>4, <2>2 DEF Moves, RowsOK
  <2> QED
    BY <2>1, <2>2
<1>6. TypeOK'
  <2>1. HostOK'
    BY <1>1, <1>2, <1>4 DEF HostOK
  <2>2. RegistryInv'
    BY RegistryKept DEF IInv, Next, Registers
  <2> QED
    BY <1>5, <2>1, <2>2 DEF TypeOK, RowsOK, HostOK
<1>7. OthersKept(p)
  <2> SUFFICES ASSUME NEW q \in Procs \ {p}, phase[q] \in Knows \cup Starts, env[q] # NoSlug
               PROVE  file'.acct[env[q]] = file.acct[env[q]]
    BY DEF OthersKept
  <2>1. env[q] \in Slugs /\ file.acct[env[q]] # ControlPlaneAccount
    BY <1>1, RegisteredAccount DEF OwnEnvironment, RowsOK
  <2>2. phase[q] \notin Registering
    BY DEF Registering, Knows, Starts, InWindow
  <2>3. phase[p] \in {"deleting", "unregistering"} => env[q] # s
    BY <1>1, <2>2 DEF OwnEnvironment, Registering
  <2> QED
    BY <1>2, <2>1, <2>3
<1>8. OwnEnvironment'
  <2>1. \A q \in Procs \ {p} : q \in holders' <=> q \in holders
    BY <1>2
  <2>2. \/ env'[p] = NoSlug \/ phase'[p] \in Registering
        \/ \A q \in Procs \ {p} : env[q] = env'[p] => phase[q] \in Registering
    BY <1>5 DEF Alone, OneAtATime
  <2>3. OwnRow(p)'
    BY <1>2, <1>3, <1>5 DEF OwnRow, Locking, Knows, Starts, InWindow
  <2> QED
    BY <1>1, <1>5, <1>7, <2>1, <2>2, <2>3, OwnKeeps
<1>9. made \subseteq Containers /\ started \subseteq made
  BY <1>1 DEF HostOK
<1>10. phase[p] \in {"deleting", "unregistering"} => view[p][s] = file.acct[s]
  BY <1>1, <1>3 DEF OwnEnvironment, Knows
<1>11. Addressed'
  <2>1. ASSUME NEW c \in made
        PROVE  file'.acct[c[1]] = c[2] \/ c[2] \in file'.retired
    <3>1. c[1] \in Slugs /\ c[2] \in Accounts
      BY <1>9, ContainerParts
    <3>2. file.acct[c[1]] = c[2] \/ c[2] \in file.retired
      BY <1>1 DEF Addressed
    <3>3. phase[p] = "unregistering" => c[2] # file.acct[s]
      BY <1>1, <1>10 DEF Addressed
    <3> QED
      BY <1>1, <1>2, <3>1, <3>2, <3>3, RegisteredAccount
  <2>2. ASSUME NEW t \in Slugs
        PROVE  file'.acct[t] \notin file'.retired
    <3>1. file.acct[t] \notin file.retired /\ file.acct[s] \notin file.retired
      BY <1>1, <1>2 DEF Addressed
    <3>2. ControlPlaneAccount \notin file.retired
      BY <1>1, <1>2, RegisteredAccount
    <3>3. phase[p] = "deleting" => file.acct[s] # ControlPlaneAccount
      BY <1>1, <1>2, <1>3, RegisteredAccount DEF OwnEnvironment, Knows
    <3>4. phase[p] = "deleting" /\ t # s => file.acct[t] # file.acct[s]
      BY <1>1, <1>2, <3>3, TwoAccounts
    <3> QED
      BY <1>2, <3>1, <3>2, <3>3, <3>4
  <2>3. ASSUME NEW q \in Procs, phase'[q] \in {"purged", "unregistering"}, NEW c \in made
        PROVE  c[2] # view'[q][env'[q]]
    <3>1. q # p
      BY <1>5, <2>3
    <3> QED
      BY <1>1, <1>5, <2>3, <3>1 DEF Addressed, Moves
  <2> QED
    BY <1>4, <2>1, <2>2, <2>3 DEF Addressed
<1>12. \A c \in started : file'.acct[c[1]] = c[2]
  <2> SUFFICES ASSUME NEW c \in started PROVE file'.acct[c[1]] = c[2]
    OBVIOUS
  <2>1. c[1] \in Slugs /\ c[2] \in Accounts /\ file.acct[c[1]] = c[2]
    BY <1>1, <1>9, ContainerParts DEF StartedIsKept
  <2>2. phase[p] = "deleting" => c[1] # s
    BY <1>1 DEF StartedIsKept
  <2>3. phase[p] = "unregistering" => c[1] # s
    BY <1>1, <1>9, <1>10, <2>1 DEF Addressed
  <2> QED
    BY <1>1, <1>2, <2>1, <2>2, <2>3, RegisteredAccount
<1>13. Quiet(p)
  BY <1>3, <1>4, <1>5 DEF Quiet, InWindow
<1>14. /\ phase'[p] \in Starts => env'[p] \in asked' \cup {NoSlug}
       /\ phase'[p] \in {"delete", "deleting"} => \A c \in started : c[1] # env'[p]
       /\ file.retired \subseteq file'.retired
  BY <1>2, <1>5 DEF Starts, InWindow
<1>15. SweepLists' /\ WindowsExcuse' /\ WindowsKnow' /\ WokenWillStop' /\ StartedIsKept'
  BY <1>7, <1>12, <1>13, <1>14, QuietKeeps
<1> QED
  BY <1>6, <1>8, <1>11, <1>15 DEF IInv
-----------------------------------------------------------------------------
(* Steps that stop containers *)

\* p stops cs and removes gone, and no window changes but in what it has left
\* to look at.
Stopping(p, cs, gone) ==
  /\ Moves(p) /\ Stops(cs) /\ made' = made \ gone /\ gone \cap up \subseteq cs
  /\ file' = file /\ touched' = touched /\ asked' \subseteq asked
  /\ phase'[p] \in InWindow <=> phase[p] \in InWindow
  /\ phase[p] \in InWindow =>
       /\ phase'[p] = phase[p] /\ env'[p] = env[p]
       /\ view'[p] = view[p] /\ before'[p] = before[p]
  /\ before'[p] \subseteq before[p] /\ doomed'[p] = NoSlug
  /\ phase'[p] \notin {"delete", "deleting"}

\* What such a step keeps, when it forgets of no environment that it was asked
\* for but of p's own, whose container it stops.
LEMMA StopsKeeps ==
  ASSUME IInv, NEW p \in Procs, NEW cs, NEW gone, Stopping(p, cs, gone),
         \A c \in made \ (gone \cup cs) :
           c[1] \in asked => c[1] \in asked' \/ c[2] \in file.retired,
         \A q \in Procs : phase'[q] \in Starts /\ env'[q] # NoSlug =>
           /\ phase[q] \in Starts /\ env[q] = env'[q]
           /\ env[q] \in asked => env[q] \in asked',
         \A c \in up \ cs : WillStop(p, c) => WillStop(p, c)'
  PROVE  WindowsExcuse' /\ WindowsKnow' /\ WokenWillStop' /\ StartedIsKept'
<1>1. /\ up' = up \ cs /\ started' = started \ cs
      /\ missed' = (missed \ cs) \cup
           {c \in cs : \E q \in Procs : c \in before[q] \/ c[1] \in touched[q]}
      /\ made' = made \ gone /\ file' = file /\ touched' = touched
  BY DEF Stopping, Stops
<1>2. \A q \in Procs \ {p} :
        /\ phase'[q] = phase[q] /\ env'[q] = env[q] /\ view'[q] = view[q]
        /\ before'[q] = before[q] /\ list'[q] = list[q] /\ doomed'[q] = doomed[q]
        /\ Sweeping(q)' <=> Sweeping(q)
  BY DEF Stopping, Moves, Sweeping
<1>3. \A q \in Procs :
        /\ phase'[q] \in InWindow <=> phase[q] \in InWindow
        /\ phase[q] \in InWindow =>
             /\ phase'[q] = phase[q] /\ env'[q] = env[q]
             /\ view'[q] = view[q] /\ before'[q] = before[q]
        /\ before'[q] \subseteq before[q]
  BY <1>2 DEF Stopping
<1>4. \A s : Active(s)' <=> Active(s)
  BY <1>3 DEF Active, Starter, InWindow
<1>5. made \subseteq Containers /\ up \subseteq made /\ started \subseteq made
  BY DEF IInv, TypeOK
<1>6. \A c \in made' \ cs : Excused(c) => Excused(c)'
  BY <1>1 DEF Excused
<1>7. WindowsExcuse'
  <2> SUFFICES ASSUME NEW q \in Procs, NEW c \in made'
               PROVE  /\ c \in before'[q] => c \in up' \cup missed'
                      /\ c[1] \in touched[q] => Excused(c)'
                      /\ phase'[q] \in Starts /\ env'[q] = c[1] => c[1] \in asked'
    BY <1>1 DEF WindowsExcuse
  <2>1. c \in made /\ c \in Containers
    BY <1>1, <1>5
  <2>2. c \in before'[q] => c \in up' \cup missed'
    <3>1. c \in before'[q] => c \in before[q] /\ c \in up \cup missed
      BY <1>3, <2>1 DEF IInv, WindowsExcuse
    <3> QED
      BY <1>1, <3>1
  <2>3. c[1] \in touched[q] => Excused(c)'
    <3>1. CASE c \in cs
      BY <1>1, <3>1 DEF Excused
    <3>2. CASE c \notin cs
      BY <1>6, <2>1, <3>2 DEF IInv, WindowsExcuse
    <3> QED
      BY <3>1, <3>2
  <2>4. phase'[q] \in Starts /\ env'[q] = c[1] => c[1] \in asked'
    <3>1. c[1] # NoSlug
      BY <2>1, NoSlugAssumption, ContainerParts
    <3> QED
      BY <2>1, <3>1 DEF IInv, WindowsExcuse
  <2> QED
    BY <2>2, <2>3, <2>4
<1>8. WindowsKnow'
  BY <1>1, <1>3, <1>4 DEF IInv, WindowsKnow
<1>9. WokenWillStop'
  <2> SUFFICES ASSUME NEW c \in up', ~Excused(c)' PROVE \E q \in Procs : WillStop(q, c)'
    BY DEF WokenWillStop
  <2>1. c \in up /\ c \notin cs /\ c \in made'
    BY <1>1, <1>5 DEF Stopping
  <2>2. PICK q \in Procs : WillStop(q, c)
    BY <1>6, <2>1 DEF IInv, WokenWillStop
  <2>3. CASE q = p
    BY <2>1, <2>2, <2>3
  <2>4. CASE q # p
    BY <1>1, <1>2, <2>2, <2>4 DEF WillStop
  <2> QED
    BY <2>3, <2>4
<1>10. StartedIsKept'
  <2> SUFFICES ASSUME NEW c \in started', NEW q \in Procs
               PROVE  /\ file'.acct[c[1]] = c[2]
                      /\ phase'[q] \in {"delete", "deleting"} => c[1] # env'[q]
                      /\ phase'[q] \in InWindow /\ c \notin before'[q] =>
                           \A s \in Slugs : view'[q][s] = c[2] => s = c[1] /\ Exempt(q, s)'
                      /\ doomed'[q] # NoSlug /\ <<doomed'[q], c>> \in list'[q] => c \in before'[q]
    BY DEF StartedIsKept
  <2>1. /\ file.acct[c[1]] = c[2]
        /\ phase[q] \in {"delete", "deleting"} => c[1] # env[q]
        /\ phase[q] \in InWindow /\ c \notin before[q] =>
             \A s \in Slugs : view[q][s] = c[2] => s = c[1] /\ Exempt(q, s)
        /\ doomed[q] # NoSlug /\ <<doomed[q], c>> \in list[q] => c \in before[q]
    BY <1>1 DEF IInv, StartedIsKept
  <2>2. phase[q] \in InWindow => \A s : Exempt(q, s)' <=> Exempt(q, s)
    BY <1>1, <1>3, <1>4 DEF Exempt
  <2>3. phase'[q] \in {"delete", "deleting"} => c[1] # env'[q]
    BY <1>2, <2>1 DEF Stopping
  <2>4. doomed'[q] # NoSlug /\ <<doomed'[q], c>> \in list'[q] => c \in before'[q]
    BY <1>2, <2>1 DEF Stopping
  <2>5. file'.acct[c[1]] = c[2]
    BY <1>1, <2>1
  <2>6. phase'[q] \in InWindow /\ c \notin before'[q] =>
          \A s \in Slugs : view'[q][s] = c[2] => s = c[1] /\ Exempt(q, s)'
    BY <1>3, <2>1, <2>2
  <2> QED
    BY <2>3, <2>4, <2>5, <2>6
<1> QED
  BY <1>7, <1>8, <1>9, <1>10

\* Of an environment only what a delete left has another account.
LEMMA OwnContainer ==
  ASSUME IInv, NEW p \in Procs, phase[p] \in Knows, env[p] # NoSlug,
         NEW c \in made, c[1] = env[p]
  PROVE  c = Of(p) \/ c[2] \in file.retired
<1>1. view[p][env[p]] = file.acct[env[p]] /\ c \in Containers
  BY DEF IInv, OwnEnvironment, TypeOK
<1>2. c[2] = file.acct[env[p]] \/ c[2] \in file.retired
  BY DEF IInv, Addressed
<1> QED
  BY <1>1, <1>2, ContainerParts DEF Of

\* And its account is nobody else's.
LEMMA OwnAccount ==
  ASSUME IInv, NEW p \in Procs, phase[p] \in Knows, env[p] # NoSlug,
         NEW c \in made, c[2] = view[p][env[p]]
  PROVE  c = Of(p) /\ c[1] = env[p]
<1>1. /\ view[p][env[p]] = file.acct[env[p]] /\ env[p] \in Slugs /\ c \in Containers
      /\ RegistryInv
  BY DEF IInv, OwnEnvironment, TypeOK
<1>2. c[2] = file.acct[c[1]]
  BY <1>1 DEF IInv, Addressed
<1>3. c[1] \in Slugs /\ c[2] \in Accounts
  BY <1>1, ContainerParts
<1>4. c[1] = env[p]
  BY <1>1, <1>2, <1>3, TwoAccounts, RegisteredAccount DEF RegistryInv
<1> QED
  BY <1>1, <1>4, ContainerParts DEF Of

\* A purge destroys what its environment deployed, or a stop stops it.
LEMMA StopsOwnIInv ==
  ASSUME IInv, NEW p \in Procs, Destroy(p) \/ StopContainers(p)
  PROVE  IInv'
<1>1. /\ RowsOK /\ HostOK /\ RegistryInv /\ OwnEnvironment /\ Addressed
  BY TypeParts DEF IInv
<1>2. /\ phase[p] \in {"purge", "stop"} /\ phase[p] \in Knows
      /\ env[p] # NoSlug /\ env[p] \in Slugs
  <2>1. phase[p] \in {"purge", "stop"}
    BY DEF Destroy, StopContainers
  <2> QED
    BY <1>1, <2>1 DEF Knows, OwnEnvironment, RowsOK
<1>3. PICK cs, gone :
        /\ Stops(cs) /\ made' = made \ gone /\ gone \cap up \subseteq cs
        /\ asked' = asked \ {env[p]}
        /\ UNCHANGED <<file, holders, copy, touched, substrate, left>>
        /\ \/ /\ phase[p] = "purge" /\ phase' = [phase EXCEPT ![p] = "purged"]
              /\ UNCHANGED <<env, view, before, list, doomed>>
              /\ gone = Labelled(view[p], env[p])
           \/ phase[p] = "stop" /\ Ends(p) /\ gone = {} /\ cs = {Of(p)} \cap made
  <2>1. CASE Destroy(p)
    <3> DEFINE g == Labelled(view[p], env[p])
    <3>1. Stops(g \cap up) /\ made' = made \ g
      BY <2>1 DEF Destroy
    <3> QED
      BY <2>1, <3>1 DEF Destroy, registryVars, sweepVars, Goes
  <2>2. CASE StopContainers(p)
    BY <2>2 DEF StopContainers, registryVars
  <2> QED
    BY <2>1, <2>2
<1>4. /\ Moves(p) /\ RowsOK' /\ ~Sweeping(p) /\ ~Sweeping(p)'
      /\ before'[p] \in {before[p], {}} /\ list'[p] = {} /\ doomed'[p] = NoSlug
      /\ \/ phase'[p] = "purged" /\ env'[p] = env[p] /\ view'[p] = view[p]
            /\ gone = Labelled(view[p], env[p])
         \/ phase'[p] = "idle" /\ env'[p] = NoSlug
  <2>1. list[p] = {} /\ doomed[p] = NoSlug
    BY <1>2 DEF IInv, SweepLists, Sweeping
  <2>2. CASE phase[p] = "purge"
    BY <1>1, <1>3, <2>1, <2>2 DEF Moves, RowsOK, Sweeping
  <2>3. CASE phase[p] = "stop"
    BY <1>1, <1>3, <2>3, EndsRow DEF RowsOK, Sweeping
  <2> QED
    BY <1>2, <2>2, <2>3
<1>5. TypeOK'
  <2>1. HostOK'
    <3>1. missed' \subseteq missed \cup cs /\ started' = started \ cs /\ up' = up \ cs
      BY <1>3 DEF Stops
    <3>2. cs \subseteq Containers \/ missed' \subseteq Containers
      <4>1. CASE Destroy(p)
        BY <1>1, <4>1 DEF Destroy, Stops, HostOK
      <4>2. CASE StopContainers(p)
        BY <1>1, <4>2 DEF StopContainers, Stops, HostOK
      <4> QED
        BY <4>1, <4>2
    <3> QED
      BY <1>1, <1>3, <3>1, <3>2 DEF HostOK
  <2>2. RegistryInv'
    BY RegistryKept DEF IInv, Next
  <2> QED
    BY <1>4, <2>1, <2>2 DEF TypeOK, RowsOK, HostOK
<1>6. OwnEnvironment'
  <2>1. OthersKept(p) /\ \A q \in Procs \ {p} : q \in holders' <=> q \in holders
    BY <1>3 DEF OthersKept
  <2>2. OwnRow(p)
    BY <1>1 DEF OwnEnvironment, OwnRow
  <2>3. OwnRow(p)'
    BY <1>2, <1>3, <1>4, <2>2 DEF OwnRow, Locking, Knows, Starts, InWindow, Registered
  <2>4. env'[p] = NoSlug \/ \A q \in Procs \ {p} : env[q] = env'[p] => phase[q] \in Registering
    BY <1>1, <1>2, <1>4 DEF OwnEnvironment, Registering
  <2> QED
    BY <1>1, <1>4, <2>1, <2>3, <2>4, OwnKeeps
<1>7. SweepLists'
  <2>1. \A q \in Procs \ {p} :
          /\ view'[q] = view[q] /\ list'[q] = list[q] /\ doomed'[q] = doomed[q]
          /\ Sweeping(q)' <=> Sweeping(q)
    BY <1>4 DEF Moves, Sweeping
  <2> QED
    BY <1>4, <2>1 DEF IInv, SweepLists
<1>8. Addressed'
  <2>1. phase'[p] = "purged" => \A c \in made' : c[2] # view'[p][env'[p]]
    BY <1>3, <1>4 DEF Labelled
  <2>2. \A q \in Procs : phase'[q] = "unregistering" => q # p
    BY <1>4
  <2> QED
    BY <1>1, <1>3, <1>4, <2>1, <2>2 DEF Addressed, Moves
<1>9. Stopping(p, cs, gone)
  BY <1>2, <1>3, <1>4 DEF Stopping, InWindow
<1>10. \A c \in made \ (gone \cup cs) :
         c[1] \in asked => c[1] \in asked' \/ c[2] \in file.retired
  <2> SUFFICES ASSUME NEW c \in made \ (gone \cup cs), c[1] = env[p]
               PROVE  c[2] \in file.retired
    BY <1>3
  <2>1. c # Of(p)
    BY <1>2, <1>3, ContainerParts DEF Labelled, Of, Container
  <2> QED
    BY <1>2, <2>1, OwnContainer
<1>11. \A q \in Procs : phase'[q] \in Starts /\ env'[q] # NoSlug =>
         /\ phase[q] \in Starts /\ env[q] = env'[q]
         /\ env[q] \in asked => env[q] \in asked'
  <2> SUFFICES ASSUME NEW q \in Procs, phase'[q] \in Starts, env'[q] # NoSlug
               PROVE  /\ phase[q] \in Starts /\ env[q] = env'[q]
                      /\ env[q] # env[p]
    BY <1>3
  <2>1. q # p
    BY <1>4 DEF Starts, InWindow
  <2>2. phase[q] \in Starts /\ env[q] = env'[q]
    BY <1>4, <2>1 DEF Moves
  <2>3. {phase[q], phase[p]} \cap Registering = {}
    BY <1>2, <2>2 DEF Starts, InWindow, Registering
  <2> QED
    BY <1>1, <2>1, <2>2, <2>3 DEF OwnEnvironment
<1>12. \A c : ~WillStop(p, c)
  BY <1>2 DEF WillStop, Sweeping
<1>13. WindowsExcuse' /\ WindowsKnow' /\ WokenWillStop' /\ StartedIsKept'
  BY <1>9, <1>10, <1>11, <1>12, StopsKeeps
<1> QED
  BY <1>5, <1>6, <1>7, <1>8, <1>13 DEF IInv

\* A sweep stops what was woken of the environment it has judged.
LEMMA StopWokenIInv ==
  ASSUME IInv, NEW p \in Procs, StopWoken(p)
  PROVE  IInv'
<1>. DEFINE cs == {c \in up \ before[p] : <<doomed[p], c>> \in list[p]}
<1>1. RowsOK /\ HostOK /\ RegistryInv /\ OwnEnvironment /\ Addressed
  BY TypeParts DEF IInv
<1>2. /\ Sweeping(p) /\ doomed[p] # NoSlug /\ Stops(cs)
      /\ list' = [list EXCEPT ![p] = {x \in @ : x[1] # doomed[p]}]
      /\ doomed' = [doomed EXCEPT ![p] = NoSlug]
      /\ UNCHANGED <<file, holders, copy, phase, env, view, before, touched, substrate, made,
                     asked, left>>
  BY DEF StopWoken, Without, registryVars
<1>3. /\ Moves(p) /\ doomed'[p] = NoSlug
      /\ list'[p] = {x \in list[p] : x[1] # doomed[p]}
      /\ \A q \in Procs : Sweeping(q)' <=> Sweeping(q)
  BY <1>1, <1>2 DEF Moves, RowsOK, Sweeping
<1>4. TypeOK'
  <2>1. RowsOK'
    BY <1>1, <1>2 DEF RowsOK
  <2>2. HostOK'
    <3>1. cs \subseteq Containers
      BY <1>1 DEF HostOK
    <3> QED
      BY <1>1, <1>2, <3>1 DEF HostOK, Stops
  <2>3. RegistryInv'
    BY <1>1, <1>2 DEF RegistryInv, DistinctAllocations, Edits!DistinctAllocations
  <2> QED
    BY <2>1, <2>2, <2>3 DEF TypeOK, RowsOK, HostOK
<1>5. OwnEnvironment'
  BY <1>1, <1>2 DEF OwnEnvironment
<1>6. SweepLists'
  BY <1>2, <1>3 DEF IInv, SweepLists, Moves
<1>7. Addressed'
  BY <1>1, <1>2 DEF Addressed
<1>8. Stopping(p, cs, {})
  BY <1>2, <1>3 DEF Stopping, Sweeping
<1>9. \A c \in up \ cs : WillStop(p, c) => WillStop(p, c)'
  <2> SUFFICES ASSUME NEW c \in up \ cs, WillStop(p, c) PROVE WillStop(p, c)'
    OBVIOUS
  <2>1. c \notin before[p] /\ c[1] \notin touched[p] /\ <<c[1], c>> \in list[p]
    BY <1>2 DEF WillStop, Sweeping
  <2>2. c[1] # doomed[p]
    BY <2>1
  <2>3. <<c[1], c>> \in list'[p]
    BY <1>3, <2>1, <2>2
  <2> QED
    BY <1>2, <1>3, <2>1, <2>3 DEF WillStop
<1>10. WindowsExcuse' /\ WindowsKnow' /\ WokenWillStop' /\ StartedIsKept'
  <2> HIDE DEF cs
  <2> QED
    BY <1>2, <1>8, <1>9, StopsKeeps
<1> QED
  BY <1>4, <1>5, <1>6, <1>7, <1>10 DEF IInv
-----------------------------------------------------------------------------
(* Windows: opening, waking, bringing up *)

\* A step of a start keeps what every command knows of its own environment.
LEMMA StartOwnKeeps ==
  ASSUME RowsOK, OwnEnvironment, NEW p \in Procs, Moves(p), file' = file,
         \A q \in Procs \ {p} : q \in holders' <=> q \in holders,
         env'[p] = NoSlug \/ (env'[p] = env[p] /\ phase[p] \notin Registering),
         OwnRow(p)'
  PROVE  OwnEnvironment'
<1>1. OthersKept(p)
  BY DEF OthersKept
<1>2. \/ env'[p] = NoSlug
      \/ \A q \in Procs \ {p} : env[q] = env'[p] => phase[q] \in Registering
  BY DEF OwnEnvironment
<1> QED
  BY <1>1, <1>2, OwnKeeps

\* Who stamps an environment has been asked to start it.
LEMMA StartIsAsked ==
  ASSUME IInv, NEW q \in Procs, phase[q] \in Starts, NEW c \in made, c[1] = env[q]
  PROVE  Excused(c)
BY DEF IInv, WindowsExcuse, Excused

\* What a step that opens a window keeps.
LEMMA OpensIInv ==
  ASSUME IInv, NEW p \in Procs,
         OpenControlPlane(p) \/ (OpenEnv(p) /\ env[p] \in Registered(file))
  PROVE  IInv'
<1>1. /\ RowsOK /\ HostOK /\ RegistryInv /\ OwnEnvironment /\ Addressed /\ file \in Registries
  BY TypeParts DEF IInv, RegistryInv
<1>2. PICK to \in {"cp", "env"} :
        /\ phase' = [phase EXCEPT ![p] = to]
        /\ view' = [view EXCEPT ![p] = file.acct]
        /\ before' = [before EXCEPT ![p] = RunningEnvContainers(file.acct)]
        /\ UNCHANGED <<file, holders, copy, env, list, doomed, made, up, started, asked,
                       missed, left>>
        /\ substrate' \subseteq Procs
        /\ \/ phase[p] = "start" /\ to = "cp" /\ touched' = [touched EXCEPT ![p] = {}]
           \/ phase[p] = "cp-ready" /\ to = "env" /\ touched' = [Stamped(env[p]) EXCEPT ![p] = {}]
  BY <1>1 DEF OpenControlPlane, OpenEnv, Opens, Loads, Goes, registryVars, hostVars, HostOK
<1>3. /\ Moves(p) /\ phase'[p] = to /\ env'[p] = env[p] /\ view'[p] = file.acct
      /\ before'[p] = RunningEnvContainers(file.acct)
      /\ list'[p] = list[p] /\ doomed'[p] = doomed[p]
  BY <1>1, <1>2 DEF Moves, RowsOK
<1>4. phase[p] \in Starts /\ phase[p] \notin InWindow /\ phase[p] \notin Registering
  BY <1>2 DEF Starts, InWindow, Registering
<1>5. list[p] = {} /\ doomed[p] = NoSlug
  BY <1>2 DEF IInv, SweepLists, Sweeping
<1>6. /\ touched' \in [Procs -> SUBSET Slugs] /\ touched'[p] = {}
      /\ \A q \in Procs \ {p} :
           /\ touched'[q] \subseteq touched[q] \cup {env[p]}
           /\ phase[q] \in InWindow => touched[q] \subseteq touched'[q]
           /\ phase[q] \in InWindow /\ to = "env" => env[p] \in touched'[q]
  <2>1. phase[p] = "cp-ready" => env[p] \in Slugs
    BY <1>1 DEF OwnEnvironment, RowsOK
  <2> QED
    <3>1. CASE touched' = [touched EXCEPT ![p] = {}] /\ to = "cp"
      BY <1>1, <3>1 DEF RowsOK
    <3>2. CASE touched' = [Stamped(env[p]) EXCEPT ![p] = {}] /\ env[p] \in Slugs
      <4>1. /\ Stamped(env[p]) \in [Procs -> SUBSET Slugs]
            /\ \A q \in Procs :
                 Stamped(env[p])[q] = IF phase[q] \in InWindow THEN touched[q] \cup {env[p]} ELSE {}
        BY <1>1, <3>2 DEF RowsOK, Stamped
      <4> QED
        BY <3>2, <4>1
    <3> QED
      BY <1>2, <2>1, <3>1, <3>2
<1>7. TypeOK'
  <2>1. RowsOK'
    <3>1. RunningEnvContainers(file.acct) \subseteq Containers
      BY <1>1 DEF RunningEnvContainers, HostOK
    <3>2. file.acct \in [Slugs -> Accounts \cup {ControlPlaneAccount}]
      BY <1>1 DEF Registries
    <3>3. phase' \in [Procs -> InWindow \cup
             {"idle", "adding", "delete", "deleting", "purge", "purged", "unregistering",
              "stop", "looked", "first", "start", "cp-ready"}]
      BY <1>1, <1>2 DEF RowsOK, InWindow
    <3> QED
      BY <1>1, <1>2, <1>6, <3>1, <3>2, <3>3 DEF RowsOK
  <2>2. HostOK'
    BY <1>1, <1>2 DEF HostOK
  <2>3. RegistryInv'
    BY <1>1, <1>2 DEF RegistryInv, DistinctAllocations, Edits!DistinctAllocations
  <2> QED
    BY <2>1, <2>2, <2>3 DEF TypeOK, RowsOK, HostOK
<1>8. OwnEnvironment'
  <2>1. OwnRow(p)
    BY <1>1 DEF OwnEnvironment, OwnRow
  <2>2. OwnRow(p)'
    BY <1>2, <1>3, <1>4, <2>1 DEF OwnRow, Locking, Knows, Starts, InWindow
  <2> QED
    BY <1>1, <1>2, <1>3, <1>4, <2>2, StartOwnKeeps
<1>9. \A q \in Procs \ {p} :
        /\ phase'[q] = phase[q] /\ env'[q] = env[q] /\ view'[q] = view[q]
        /\ before'[q] = before[q] /\ list'[q] = list[q] /\ doomed'[q] = doomed[q]
        /\ Sweeping(q)' <=> Sweeping(q)
  BY <1>3 DEF Moves, Sweeping
<1>10. SweepLists'
  BY <1>3, <1>5, <1>9 DEF IInv, SweepLists
<1>11. Addressed'
  <2>1. ASSUME NEW q \in Procs, phase'[q] \in {"purged", "unregistering"}
        PROVE  \A c \in made : c[2] # view'[q][env'[q]]
    <3>1. q # p
      BY <1>3, <2>1
    <3>2. phase'[q] = phase[q] /\ view'[q] = view[q] /\ env'[q] = env[q]
      BY <1>9, <3>1
    <3> QED
      BY <1>1, <2>1, <3>2 DEF Addressed
  <2>2. /\ \A c \in made : file.acct[c[1]] = c[2] \/ c[2] \in file.retired
        /\ \A s \in Slugs : file.acct[s] \notin file.retired
        /\ file' = file /\ made' = made
    BY <1>1, <1>2 DEF Addressed
  <2> QED
    BY <2>1, <2>2 DEF Addressed
<1>12. /\ made \subseteq Containers /\ up \subseteq made /\ started \subseteq up
       /\ \A c : Excused(c) <=> Excused(c)'
  BY <1>1, <1>2 DEF HostOK, Excused
<1>13. /\ \A s : Active(s) => Active(s)'
       /\ \A s : Active(s)' => Active(s) \/ (to = "env" /\ s = env[p])
  BY <1>2, <1>3, <1>9 DEF Active, Starter
<1>14. WindowsExcuse'
  <2> SUFFICES ASSUME NEW q \in Procs, NEW c \in made
               PROVE  /\ c \in before'[q] => c \in up \cup missed
                      /\ c[1] \in touched'[q] => Excused(c)
                      /\ phase'[q] \in Starts /\ env'[q] = c[1] => c[1] \in asked
    BY <1>2, <1>12 DEF WindowsExcuse
  <2>1. c \in before'[q] => c \in up \cup missed
    BY <1>3, <1>9 DEF IInv, WindowsExcuse, RunningEnvContainers
  <2>2. c[1] \in touched'[q] => Excused(c)
    BY <1>4, <1>6, StartIsAsked DEF IInv, WindowsExcuse
  <2>3. phase'[q] \in Starts /\ env'[q] = c[1] => c[1] \in asked
    BY <1>3, <1>4, <1>9 DEF IInv, WindowsExcuse
  <2> QED
    BY <2>1, <2>2, <2>3
<1>15. WindowsKnow'
  <2> SUFFICES ASSUME NEW q \in Procs, phase'[q] \in InWindow
               PROVE  /\ \A c \in made : c[1] \in touched'[q] \/ view'[q][c[1]] = c[2]
                                           \/ c[2] \in file.retired
                      /\ \A s \in Slugs : Active(s)' => s \in touched'[q] \/ view'[q][s] = file.acct[s]
    BY <1>2 DEF WindowsKnow
  <2>1. CASE q = p
    BY <1>1, <1>3, <2>1 DEF Addressed
  <2>2. CASE q # p
    BY <1>6, <1>9, <1>13, <2>2 DEF IInv, WindowsKnow
  <2> QED
    BY <2>1, <2>2
<1>16. WokenWillStop'
  <2> SUFFICES ASSUME NEW c \in up, ~Excused(c) PROVE \E q \in Procs : WillStop(q, c)'
    BY <1>2, <1>12 DEF WokenWillStop
  <2>1. PICK q \in Procs : WillStop(q, c)
    BY DEF IInv, WokenWillStop
  <2>2. q # p
    BY <1>4, <2>1 DEF WillStop, Sweeping, InWindow
  <2>3. c[1] # env[p]
    BY <1>4, <1>12, StartIsAsked
  <2>4. WillStop(q, c)'
    BY <1>6, <1>9, <2>1, <2>2, <2>3 DEF WillStop
  <2> QED
    BY <2>4
<1>17. StartedIsKept'
  <2> SUFFICES ASSUME NEW c \in started, NEW q \in Procs
               PROVE  /\ phase'[q] \in {"delete", "deleting"} => c[1] # env'[q]
                      /\ phase'[q] \in InWindow /\ c \notin before'[q] =>
                           \A s \in Slugs : view'[q][s] = c[2] => s = c[1] /\ Exempt(q, s)'
                      /\ doomed'[q] # NoSlug /\ <<doomed'[q], c>> \in list'[q] => c \in before'[q]
    BY <1>2 DEF IInv, StartedIsKept
  <2>1. CASE q = p
    <3>1. phase'[p] \notin {"delete", "deleting"} /\ doomed'[p] = NoSlug
      BY <1>2, <1>3, <1>5
    <3>2. ASSUME NEW s \in Slugs, view'[p][s] = c[2]
          PROVE  c \in before'[p]
      BY <1>3, <1>12, <3>2 DEF RunningEnvContainers
    <3> QED
      BY <2>1, <3>1, <3>2
  <2>2. CASE q # p
    <3>1. phase[q] \in InWindow => \A s : Exempt(q, s) => Exempt(q, s)'
      BY <1>6, <1>9, <1>13, <2>2 DEF Exempt
    <3> QED
      BY <1>9, <2>2, <3>1 DEF IInv, StartedIsKept
  <2> QED
    BY <2>1, <2>2
<1> QED
  BY <1>7, <1>8, <1>10, <1>11, <1>14, <1>15, <1>16, <1>17 DEF IInv

\* What Floci wakes in a window is excused, or that window is going to stop it.
LEMMA WakeIInv ==
  ASSUME IInv, NEW p \in Procs, NEW c \in Containers, Wake(p, c)
  PROVE  IInv'
<1>1. /\ phase[p] \in {"cp", "env"} /\ c \in made \ up /\ up' = up \cup {c}
      /\ UNCHANGED <<file, holders, copy, phase, env, view, before, touched, list, doomed,
                     substrate, made, started, asked, missed, left>>
  BY DEF Wake, registryVars, commandVars
<1>2. TypeOK'
  BY <1>1 DEF IInv, TypeOK, RegistryInv, DistinctAllocations, Edits!DistinctAllocations
<1>3. OwnEnvironment' /\ SweepLists' /\ Addressed'
  <2>1. OwnEnvironment'
    BY <1>1 DEF IInv, OwnEnvironment
  <2>2. SweepLists'
    BY <1>1 DEF IInv, SweepLists, Sweeping
  <2>3. Addressed'
    BY <1>1 DEF IInv, Addressed
  <2> QED
    BY <2>1, <2>2, <2>3
<1>4. /\ \A d : Excused(d)' <=> Excused(d)
      /\ \A s : Active(s)' <=> Active(s)
      /\ \A q, d : WillStop(q, d)' <=> WillStop(q, d)
      /\ \A q, s : Exempt(q, s)' <=> Exempt(q, s)
  BY <1>1 DEF Excused, Active, Starter, WillStop, Sweeping, Exempt
<1>5. WindowsExcuse' /\ WindowsKnow' /\ StartedIsKept'
  BY <1>1, <1>4 DEF IInv, WindowsExcuse, WindowsKnow, StartedIsKept
<1>6. Excused(c) \/ WillStop(p, c)
  BY <1>1 DEF IInv, WindowsExcuse, WindowsKnow, WillStop, Excused, InWindow
<1>7. WokenWillStop'
  BY <1>1, <1>4, <1>6 DEF IInv, WokenWillStop
<1> QED
  BY <1>2, <1>3, <1>5, <1>7 DEF IInv

\* A start brings up what its environment deploys.
LEMMA BringUpIInv ==
  ASSUME IInv, NEW p \in Procs, BringUp(p)
  PROVE  IInv'
<1>. PICK o : o = Of(p)
  OBVIOUS
<1>1. RowsOK /\ HostOK /\ RegistryInv /\ OwnEnvironment /\ Addressed /\ file \in Registries
  BY TypeParts DEF IInv, RegistryInv
<1>2. /\ phase[p] = "env" /\ phase' = [phase EXCEPT ![p] = "env-up"]
      /\ made' = made \cup {o} /\ up' = up \cup {o} /\ asked' = asked \cup {env[p]}
      /\ started' = IF Undone(o) THEN started ELSE started \cup {o}
      /\ UNCHANGED <<file, holders, copy, env, view, before, touched, list, doomed,
                     substrate, missed, left>>
  BY DEF BringUp, Goes, registryVars, sweepVars
<1>3. /\ phase'[p] = "env-up" /\ \A q \in Procs \ {p} : phase'[q] = phase[q]
      /\ phase[p] \in InWindow /\ phase[p] \in Knows /\ phase[p] \in Starts
  BY <1>1, <1>2 DEF RowsOK, InWindow, Knows, Starts
<1>4. /\ env[p] \in Slugs /\ env[p] # NoSlug /\ view[p][env[p]] = file.acct[env[p]]
      /\ file.acct[env[p]] \in Accounts
  <2>1. env[p] # NoSlug
    BY <1>1, <1>2 DEF OwnEnvironment
  <2>2. /\ env[p] \in Slugs /\ env[p] \in Registered(file)
        /\ view[p][env[p]] = file.acct[env[p]]
    BY <1>1, <1>3, <2>1 DEF OwnEnvironment, RowsOK
  <2> QED
    BY <1>1, <2>1, <2>2, RegisteredAccount
<1>5. o \in Containers /\ o[1] = env[p] /\ o[2] = file.acct[env[p]]
  BY <1>4 DEF Of, Container, Containers
<1>6. TypeOK'
  <2>1. RowsOK'
    BY <1>1, <1>2 DEF RowsOK, InWindow
  <2>2. HostOK'
    BY <1>1, <1>2, <1>4, <1>5 DEF HostOK
  <2>3. RegistryInv'
    BY <1>1, <1>2 DEF RegistryInv, DistinctAllocations, Edits!DistinctAllocations
  <2> QED
    BY <2>1, <2>2, <2>3 DEF TypeOK, RowsOK, HostOK
<1>7. OwnEnvironment'
  <2>1. OwnRow(p)
    BY <1>1 DEF OwnEnvironment, OwnRow
  <2>2. OwnRow(p)'
    BY <1>2, <1>3, <2>1 DEF OwnRow, Locking, Knows, Starts, InWindow
  <2>3. Moves(p) /\ phase[p] \notin Registering
    BY <1>2, <1>3 DEF Moves, Registering
  <2> QED
    BY <1>1, <1>2, <2>2, <2>3, StartOwnKeeps
<1>8. \A q \in Procs : /\ phase'[q] \in InWindow <=> phase[q] \in InWindow
                       /\ phase'[q] \in Starts <=> phase[q] \in Starts
                       /\ Sweeping(q)' <=> Sweeping(q)
  BY <1>2, <1>3 DEF Sweeping, InWindow, Starts
<1>9. SweepLists'
  BY <1>2, <1>8 DEF IInv, SweepLists
<1>10. Addressed'
  <2>1. ASSUME NEW q \in Procs, phase'[q] \in {"purged", "unregistering"}
        PROVE  o[2] # view[q][env[q]]
    <3>1. q # p /\ phase[q] = phase'[q] /\ phase[q] \in Knows
      BY <1>3, <2>1 DEF Knows
    <3>2. {phase[p], phase[q]} \cap Registering = {}
      BY <1>2, <2>1, <3>1 DEF Registering
    <3>3. env[q] # NoSlug
      BY <1>1, <2>1, <3>1 DEF OwnEnvironment
    <3>4. env[q] \in Slugs /\ env[q] # env[p] /\ view[q][env[q]] = file.acct[env[q]]
      BY <1>1, <1>4, <3>1, <3>2, <3>3 DEF OwnEnvironment, RowsOK
    <3> QED
      BY <1>1, <1>4, <1>5, <3>4, TwoAccounts, RegisteredAccount
  <2> QED
    BY <1>1, <1>2, <1>3, <1>5, <2>1 DEF Addressed
<1>11. /\ \A c : Excused(c) => Excused(c)'
       /\ \A s : Active(s)' <=> Active(s)
       /\ \A q \in Procs : \A c : WillStop(q, c) => WillStop(q, c)'
       /\ Active(env[p])
  BY <1>2, <1>3, <1>8 DEF Excused, Active, Starter, WillStop
<1>12. \A q \in Procs : \A s : Exempt(q, s)' <=> Exempt(q, s)
  BY <1>2, <1>11 DEF Exempt
<1>13. o[1] \in asked' /\ Excused(o)'
  BY <1>2, <1>5 DEF Excused
<1>14. WindowsExcuse'
  BY <1>2, <1>8, <1>11, <1>13 DEF IInv, WindowsExcuse
<1>15. WindowsKnow'
  <2>1. \A q \in Procs : phase[q] \in InWindow => o[1] \in touched[q] \/ view[q][o[1]] = o[2]
    BY <1>4, <1>5, <1>11 DEF IInv, WindowsKnow
  <2> QED
    BY <1>2, <1>8, <1>11, <2>1 DEF IInv, WindowsKnow
<1>16. WokenWillStop'
  BY <1>2, <1>11, <1>13 DEF IInv, WokenWillStop
<1>17. StartedIsKept'
  <2> SUFFICES ASSUME NEW c \in started', NEW q \in Procs
               PROVE  /\ file'.acct[c[1]] = c[2]
                      /\ phase'[q] \in {"delete", "deleting"} => c[1] # env'[q]
                      /\ phase'[q] \in InWindow /\ c \notin before'[q] =>
                           \A s \in Slugs : view'[q][s] = c[2] => s = c[1] /\ Exempt(q, s)'
                      /\ doomed'[q] # NoSlug /\ <<doomed'[q], c>> \in list'[q] => c \in before'[q]
    BY DEF StartedIsKept
  <2>. /\ file' = file /\ env' = env /\ view' = view /\ before' = before
       /\ doomed' = doomed /\ list' = list
       /\ phase'[q] \in InWindow <=> phase[q] \in InWindow
       /\ \A s : Exempt(q, s)' <=> Exempt(q, s)
    BY <1>2, <1>8, <1>12
  <2>1. CASE c \in started
    BY <1>3, <2>1 DEF IInv, StartedIsKept
  <2>2. CASE c = o /\ ~Undone(o)
    <3>1. phase'[q] \in {"delete", "deleting"} => c[1] # env[q]
      BY <1>1, <1>2, <1>3, <1>4, <1>5, <2>2 DEF OwnEnvironment, Registering
    <3>2. phase[q] \in InWindow => \A s \in Slugs : view[q][s] = c[2] => s = c[1]
      BY <2>2 DEF Undone
    <3>3. Exempt(q, c[1])
      BY <1>5, <1>11, <2>2 DEF Exempt
    <3>4. ~(doomed[q] # NoSlug /\ <<doomed[q], c>> \in list[q])
      BY <2>2 DEF Undone
    <3> QED
      BY <1>5, <2>2, <3>1, <3>2, <3>3, <3>4
  <2> QED
    BY <1>2, <2>1, <2>2
<1> QED
  BY <1>6, <1>7, <1>9, <1>10, <1>14, <1>15, <1>16, <1>17 DEF IInv
-----------------------------------------------------------------------------
(* Windows: sweeping *)

\* What a step inside p's window that moves nothing keeps.
LEMMA SweepOwnKeeps ==
  ASSUME IInv, NEW p \in Procs, Moves(p), RowsOK',
         UNCHANGED <<file, holders, copy, env, view, before, touched, hostVars>>,
         phase[p] \in InWindow, phase'[p] \in InWindow,
         Starter(p)' <=> Starter(p)
  PROVE  /\ TypeOK' /\ OwnEnvironment' /\ Addressed' /\ WindowsExcuse' /\ WindowsKnow'
         /\ \A c : Excused(c)' <=> Excused(c)
         /\ \A q \in Procs : phase'[q] \in InWindow <=> phase[q] \in InWindow
         /\ \A q \in Procs : \A s : Exempt(q, s)' <=> Exempt(q, s)
<1>1. RowsOK /\ HostOK /\ RegistryInv /\ OwnEnvironment /\ Addressed
  BY TypeParts DEF IInv
<1>2. UNCHANGED <<substrate, made, up, started, asked, missed, left>>
  BY DEF hostVars
<1>3. TypeOK'
  <2>1. HostOK'
    BY <1>1, <1>2 DEF HostOK
  <2>2. RegistryInv'
    BY <1>1 DEF RegistryInv, DistinctAllocations, Edits!DistinctAllocations
  <2> QED
    BY <2>1, <2>2 DEF TypeOK, RowsOK, HostOK
<1>4. phase[p] \notin Registering /\ phase[p] \in Knows /\ phase'[p] \in Knows
      /\ phase[p] \notin Locking /\ phase'[p] \notin Locking
      /\ phase[p] \in Starts /\ phase'[p] \in Starts
      /\ phase[p] # "idle" /\ phase'[p] # "idle"
  BY DEF InWindow, Registering, Knows, Locking, Starts
<1>5. OwnEnvironment'
  <2>1. OwnRow(p)
    BY <1>1 DEF OwnEnvironment, OwnRow
  <2>2. env[p] = NoSlug => phase'[p] \in {"cp", "cp-sweep"}
    BY <2>1 DEF OwnRow, InWindow, Starter
  <2>3. OwnRow(p)'
    BY <1>4, <2>1, <2>2 DEF OwnRow
  <2> QED
    BY <1>1, <1>4, <2>3, StartOwnKeeps
<1>6. \A q \in Procs :
        /\ phase'[q] \in InWindow <=> phase[q] \in InWindow
        /\ phase'[q] \in Starts <=> phase[q] \in Starts
        /\ Starter(q)' <=> Starter(q)
        /\ phase'[q] \in {"purged", "unregistering"} => phase'[q] = phase[q]
  <2> SUFFICES ASSUME NEW q \in Procs
               PROVE  /\ phase'[q] \in InWindow <=> phase[q] \in InWindow
                      /\ phase'[q] \in Starts <=> phase[q] \in Starts
                      /\ Starter(q)' <=> Starter(q)
                      /\ phase'[q] \in {"purged", "unregistering"} => phase'[q] = phase[q]
    OBVIOUS
  <2>1. CASE q = p
    BY <1>4, <2>1 DEF InWindow
  <2>2. CASE q # p
    BY <2>2 DEF Moves, Starter
  <2> QED
    BY <2>1, <2>2
<1>7. Addressed'
  BY <1>1, <1>2, <1>6 DEF Addressed
<1>8. /\ \A c : Excused(c)' <=> Excused(c)
      /\ \A s : Active(s)' <=> Active(s)
  BY <1>2, <1>6 DEF Excused, Active
<1>9. \A q \in Procs : \A s : Exempt(q, s)' <=> Exempt(q, s)
  BY <1>8 DEF Exempt
<1>10. WindowsExcuse' /\ WindowsKnow'
  BY <1>2, <1>6, <1>8 DEF IInv, WindowsExcuse, WindowsKnow
<1> QED
  BY <1>3, <1>5, <1>6, <1>7, <1>8, <1>9, <1>10

\* A sweep begins with the containers of every name its window knows.
LEMMA BeginSweepIInv ==
  ASSUME IInv, NEW p \in Procs, BeginSweep(p)
  PROVE  IInv'
<1>1. RowsOK /\ HostOK
  BY TypeParts DEF IInv
<1>2. PICK to \in {"cp-sweep", "env-sweep"} :
        /\ phase' = [phase EXCEPT ![p] = to]
        /\ list' = [list EXCEPT ![p] = ContainersByEnv(view[p])]
        /\ UNCHANGED <<file, holders, copy, env, view, before, touched, doomed, hostVars>>
        /\ \/ phase[p] = "cp" /\ to = "cp-sweep"
           \/ phase[p] \in {"env", "env-up"} /\ to = "env-sweep"
  BY DEF BeginSweep, Goes, registryVars
<1>3. /\ phase'[p] = to /\ list'[p] = ContainersByEnv(view[p])
      /\ \A q \in Procs \ {p} : phase'[q] = phase[q] /\ list'[q] = list[q]
  BY <1>1, <1>2 DEF RowsOK
<1>4. Moves(p)
  BY <1>2, <1>3 DEF Moves
<1>5. list[p] = {} /\ doomed[p] = NoSlug /\ ~Sweeping(p) /\ Sweeping(p)'
  BY <1>2, <1>3 DEF IInv, SweepLists, Sweeping
<1>6. \A q \in Procs \ {p} : Sweeping(q)' <=> Sweeping(q)
  BY <1>3 DEF Sweeping
<1>7. RowsOK'
  <2>1. ContainersByEnv(view[p]) \subseteq Slugs \X Containers
    BY <1>1 DEF ContainersByEnv, HostOK
  <2> QED
    BY <1>1, <1>2, <2>1 DEF RowsOK, InWindow
<1>8. /\ TypeOK' /\ OwnEnvironment' /\ Addressed' /\ WindowsExcuse' /\ WindowsKnow'
      /\ \A c : Excused(c)' <=> Excused(c)
      /\ \A q \in Procs : phase'[q] \in InWindow <=> phase[q] \in InWindow
      /\ \A q \in Procs : \A s : Exempt(q, s)' <=> Exempt(q, s)
  <2>1. /\ phase[p] \in InWindow /\ phase'[p] \in InWindow
        /\ Starter(p)' <=> Starter(p)
    BY <1>2, <1>3 DEF InWindow, Starter
  <2> QED
    BY <1>2, <1>4, <1>7, <2>1, SweepOwnKeeps
<1>9. SweepLists'
  <2>1. \A x \in list'[p] : view[p][x[1]] = x[2][2]
    BY <1>3 DEF ContainersByEnv, Labelled
  <2> QED
    BY <1>2, <1>3, <1>5, <1>6, <2>1 DEF IInv, SweepLists
<1>10. WokenWillStop'
  <2> SUFFICES ASSUME NEW c \in up, ~Excused(c) PROVE \E q \in Procs : WillStop(q, c)'
    BY <1>2, <1>8 DEF WokenWillStop, hostVars
  <2>1. PICK q \in Procs : WillStop(q, c)
    BY DEF IInv, WokenWillStop
  <2>2. CASE q # p
    BY <1>2, <1>3, <1>6, <2>1, <2>2 DEF WillStop
  <2>3. CASE q = p
    <3>1. c \in made /\ c \in Containers
      BY <1>1 DEF HostOK
    <3>2. c \notin before[p] /\ c[1] \notin touched[p] /\ view[p][c[1]] = c[2]
      BY <1>5, <2>1, <2>3 DEF WillStop
    <3>3. c[1] \in Slugs /\ c[2] # ControlPlaneAccount
      BY <3>1, ContainerParts, RegistryAssumption DEF ControlPlaneAccount
    <3>4. <<c[1], c>> \in list'[p]
      BY <1>3, <3>1, <3>2, <3>3 DEF ContainersByEnv, Labelled
    <3> QED
      BY <1>2, <1>5, <2>3, <3>2, <3>4 DEF WillStop
  <2> QED
    BY <2>2, <2>3
<1>11. StartedIsKept'
  <2> SUFFICES ASSUME NEW c \in started, NEW q \in Procs
               PROVE  /\ file'.acct[c[1]] = c[2]
                      /\ phase'[q] \in {"delete", "deleting"} => c[1] # env'[q]
                      /\ phase'[q] \in InWindow /\ c \notin before'[q] =>
                           \A s \in Slugs : view'[q][s] = c[2] => s = c[1] /\ Exempt(q, s)'
                      /\ doomed'[q] # NoSlug /\ <<doomed'[q], c>> \in list'[q] => c \in before'[q]
    BY <1>2 DEF StartedIsKept, hostVars
  <2>1. phase'[q] \in {"delete", "deleting"} => phase'[q] = phase[q]
    BY <1>2, <1>3
  <2>2. doomed'[q] # NoSlug => list'[q] = list[q]
    BY <1>2, <1>3, <1>5
  <2> QED
    BY <1>2, <1>8, <2>1, <2>2 DEF IInv, StartedIsKept
<1> QED
  BY <1>8, <1>9, <1>10, <1>11 DEF IInv

\* A sweep judges a name: exempt, or to be stopped.
LEMMA JudgeIInv ==
  ASSUME IInv, NEW p \in Procs, NEW s \in Slugs, Judge(p, s)
  PROVE  IInv'
<1>1. RowsOK /\ HostOK
  BY TypeParts DEF IInv
<1>2. /\ Sweeping(p) /\ doomed[p] = NoSlug
      /\ \E x \in list[p] : x[1] = s
      /\ \/ Exempt(p, s) /\ list' = [list EXCEPT ![p] = {x \in @ : x[1] # s}] /\ doomed' = doomed
         \/ ~Exempt(p, s) /\ doomed' = [doomed EXCEPT ![p] = s] /\ list' = list
      /\ UNCHANGED <<file, holders, copy, phase, env, view, before, touched, hostVars>>
  BY DEF Judge, Without, registryVars
<1>3. /\ Moves(p) /\ \A q \in Procs : list'[q] \subseteq list[q]
      /\ \/ Exempt(p, s) /\ list'[p] = {x \in list[p] : x[1] # s} /\ doomed'[p] = NoSlug
         \/ ~Exempt(p, s) /\ list'[p] = list[p] /\ doomed'[p] = s
  <2>1. CASE Exempt(p, s)
    BY <1>1, <1>2, <2>1 DEF RowsOK, Moves
  <2>2. CASE ~Exempt(p, s)
    BY <1>1, <1>2, <2>2 DEF RowsOK, Moves
  <2> QED
    BY <2>1, <2>2
<1>4. \A q \in Procs \ {p} : list'[q] = list[q] /\ doomed'[q] = doomed[q]
  BY <1>3 DEF Moves
<1>5. RowsOK'
  <2>1. list' \in [Procs -> SUBSET (Slugs \X Containers)]
    <3>1. list \in [Procs -> SUBSET (Slugs \X Containers)]
      BY <1>1 DEF RowsOK
    <3>2. {x \in list[p] : x[1] # s} \in SUBSET (Slugs \X Containers)
      BY <3>1
    <3> QED
      BY <1>2, <3>1, <3>2
  <2>2. doomed' \in [Procs -> Slugs \cup {NoSlug}]
    BY <1>1, <1>2 DEF RowsOK
  <2> QED
    BY <1>1, <1>2, <2>1, <2>2 DEF RowsOK
<1>6. /\ TypeOK' /\ OwnEnvironment' /\ Addressed' /\ WindowsExcuse' /\ WindowsKnow'
      /\ \A c : Excused(c)' <=> Excused(c)
      /\ \A q \in Procs : \A t : Exempt(q, t)' <=> Exempt(q, t)
  <2>1. /\ phase[p] \in InWindow /\ phase'[p] \in InWindow
        /\ Starter(p)' <=> Starter(p)
    BY <1>2 DEF InWindow, Starter, Sweeping
  <2> QED
    BY <1>2, <1>3, <1>5, <2>1, SweepOwnKeeps
<1>7. SweepLists'
  <2> SUFFICES ASSUME NEW q \in Procs
               PROVE  /\ \A x \in list'[q] : Sweeping(q) /\ view[q][x[1]] = x[2][2]
                      /\ doomed'[q] # NoSlug => Sweeping(q) /\ \E x \in list'[q] : x[1] = doomed'[q]
    BY <1>2 DEF SweepLists, Sweeping
  <2>1. \A x \in list'[q] : Sweeping(q) /\ view[q][x[1]] = x[2][2]
    BY <1>3 DEF IInv, SweepLists
  <2>2. doomed'[q] # NoSlug => Sweeping(q) /\ \E x \in list'[q] : x[1] = doomed'[q]
    BY <1>2, <1>3, <1>4 DEF IInv, SweepLists
  <2> QED
    BY <2>1, <2>2
<1>8. WokenWillStop'
  <2> SUFFICES ASSUME NEW c \in up, ~Excused(c) PROVE \E q \in Procs : WillStop(q, c)'
    BY <1>2, <1>6 DEF WokenWillStop, hostVars
  <2>1. PICK q \in Procs : WillStop(q, c)
    BY DEF IInv, WokenWillStop
  <2>2. CASE <<c[1], c>> \in list[q] => <<c[1], c>> \in list'[q]
    BY <1>2, <2>1, <2>2 DEF WillStop, Sweeping
  <2>3. CASE <<c[1], c>> \in list[q] /\ <<c[1], c>> \notin list'[q]
    <3>1. q = p /\ c[1] = s /\ Exempt(p, s)
      BY <1>3, <1>4, <2>3
    <3>2. c[1] \notin touched[p]
      BY <2>1, <3>1 DEF WillStop
    <3>3. PICK r \in Procs : c[1] = env[r] /\ phase[r] \in Starts
      BY <1>2, <3>1, <3>2 DEF Exempt, Active, Starter, Sweeping, Starts, InWindow
    <3>4. c \in made
      BY <1>1 DEF HostOK
    <3> QED
      BY <3>3, <3>4, StartIsAsked
  <2> QED
    BY <2>2, <2>3
<1>9. StartedIsKept'
  <2> SUFFICES ASSUME NEW c \in started, NEW q \in Procs
               PROVE  /\ file'.acct[c[1]] = c[2]
                      /\ phase'[q] \in {"delete", "deleting"} => c[1] # env'[q]
                      /\ phase'[q] \in InWindow /\ c \notin before'[q] =>
                           \A t \in Slugs : view'[q][t] = c[2] => t = c[1] /\ Exempt(q, t)'
                      /\ doomed'[q] # NoSlug /\ <<doomed'[q], c>> \in list'[q] => c \in before'[q]
    <3>1. started' = started
      BY <1>2 DEF hostVars
    <3> QED
      BY <3>1 DEF StartedIsKept
  <2>1. ASSUME doomed'[q] # NoSlug, <<doomed'[q], c>> \in list'[q]
        PROVE  c \in before[q]
    <3>1. CASE doomed'[q] = doomed[q]
      BY <1>3, <2>1, <3>1 DEF IInv, StartedIsKept
    <3>2. CASE doomed'[q] # doomed[q]
      <4>1. q = p /\ ~Exempt(p, s) /\ <<s, c>> \in list[p]
        BY <1>2, <1>3, <1>4, <2>1, <3>2
      <4>2. view[p][s] = c[2] /\ phase[p] \in InWindow
        BY <1>2, <4>1 DEF IInv, SweepLists, Sweeping, InWindow
      <4> QED
        BY <4>1, <4>2 DEF IInv, StartedIsKept
    <3> QED
      BY <3>1, <3>2
  <2> QED
    BY <1>2, <1>6, <2>1 DEF IInv, StartedIsKept
<1> QED
  BY <1>6, <1>7, <1>8, <1>9 DEF IInv
-----------------------------------------------------------------------------
(* Windows: closing, or never opened *)

\* p's window is gone.  Who was starting an environment has stamped it in the
\* windows that are open, or what it brought up is not among what stays up.
Closes(p) ==
  /\ Moves(p) /\ phase'[p] \in {"idle", "cp-ready"}
  /\ before'[p] = {} /\ list'[p] = {} /\ doomed'[p] = NoSlug
  /\ file' = file /\ made' = made /\ up' = up /\ asked' = asked
  /\ missed \subseteq missed' /\ missed' \subseteq missed \cup up
  /\ started' \subseteq started
  /\ touched'[p] = {}
  /\ \A q \in Procs \ {p} :
       /\ phase[q] \in InWindow => touched[q] \subseteq touched'[q]
       /\ touched'[q] \subseteq touched[q] \cup {env[p]}
       /\ Starter(p) /\ phase[q] \in InWindow =>
            env[p] \in touched'[q] \/ \A c \in started' : c[1] # env[p]
       /\ ~Starter(p) => touched'[q] \subseteq touched[q]
  /\ phase'[p] = "cp-ready" => phase[p] = "cp-sweep" /\ env'[p] = env[p]
  /\ \A c \in up : WillStop(p, c) => Excused(c)'

\* What such a step keeps of the invariant, but for types and own environments.
LEMMA ClosesKeeps ==
  ASSUME IInv, NEW p \in Procs, Closes(p)
  PROVE  /\ SweepLists' /\ Addressed' /\ WindowsExcuse' /\ WindowsKnow'
         /\ WokenWillStop' /\ StartedIsKept'
<1>1. /\ made \subseteq Containers /\ up \subseteq made /\ started \subseteq up /\ Addressed
  BY DEF IInv, TypeOK
<1>2. \A q \in Procs \ {p} :
        /\ phase'[q] = phase[q] /\ env'[q] = env[q] /\ view'[q] = view[q]
        /\ before'[q] = before[q] /\ list'[q] = list[q] /\ doomed'[q] = doomed[q]
        /\ Sweeping(q)' <=> Sweeping(q)
        /\ Starter(q)' <=> Starter(q)
  BY DEF Closes, Moves, Sweeping, Starter
<1>3. phase'[p] \notin InWindow /\ ~Sweeping(p)' /\ ~Starter(p)'
      /\ phase'[p] \notin {"delete", "deleting", "purged", "unregistering"}
  BY DEF Closes, InWindow, Sweeping, Starter
<1>4. \A c : Excused(c) => Excused(c)'
  BY DEF Closes, Excused
<1>5. /\ \A s : Active(s)' => Active(s)
      /\ \A s : Active(s) => Active(s)' \/ (Starter(p) /\ s = env[p])
  BY <1>2, <1>3 DEF Active
<1>6. SweepLists'
  <2>1. list'[p] = {} /\ doomed'[p] = NoSlug
    BY DEF Closes
  <2> QED
    BY <1>2, <2>1 DEF IInv, SweepLists
<1>7. Addressed'
  <2>1. ASSUME NEW q \in Procs, phase'[q] \in {"purged", "unregistering"}
        PROVE  \A c \in made : c[2] # view'[q][env'[q]]
    <3>1. q # p
      BY <1>3, <2>1
    <3>2. phase'[q] = phase[q] /\ view'[q] = view[q] /\ env'[q] = env[q]
      BY <1>2, <3>1
    <3> QED
      BY <1>1, <2>1, <3>2 DEF Addressed
  <2>2. /\ \A c \in made : file.acct[c[1]] = c[2] \/ c[2] \in file.retired
        /\ \A s \in Slugs : file.acct[s] \notin file.retired
        /\ file' = file /\ made' = made
    BY <1>1 DEF Addressed, Closes
  <2> QED
    BY <2>1, <2>2 DEF Addressed
<1>8. WindowsExcuse'
  <2> SUFFICES ASSUME NEW q \in Procs, NEW c \in made
               PROVE  /\ c \in before'[q] => c \in up \cup missed'
                      /\ c[1] \in touched'[q] => Excused(c)'
                      /\ phase'[q] \in Starts /\ env'[q] = c[1] => c[1] \in asked
    BY DEF WindowsExcuse, Closes
  <2>1. CASE q = p
    <3>1. phase'[p] \in Starts => phase[p] \in Starts /\ env'[p] = env[p]
      BY DEF Closes, Starts, InWindow
    <3> QED
      BY <2>1, <3>1 DEF Closes, IInv, WindowsExcuse
  <2>2. CASE q # p
    <3>1. c \in before'[q] => c \in up \cup missed'
      BY <1>2, <2>2 DEF IInv, WindowsExcuse, Closes
    <3>2. ASSUME c[1] \in touched'[q]
          PROVE  Excused(c)'
      <4>1. CASE c[1] \in touched[q]
        BY <1>4, <4>1 DEF IInv, WindowsExcuse
      <4>2. CASE Starter(p) /\ c[1] = env[p]
        <5>1. phase[p] \in Starts
          BY <4>2 DEF Starter, Starts, InWindow
        <5> QED
          BY <1>4, <4>2, <5>1, StartIsAsked
      <4> QED
        BY <2>2, <3>2, <4>1, <4>2 DEF Closes
    <3>3. phase'[q] \in Starts /\ env'[q] = c[1] => c[1] \in asked
      BY <1>2, <2>2 DEF IInv, WindowsExcuse
    <3> QED
      BY <3>1, <3>2, <3>3
  <2> QED
    BY <2>1, <2>2
<1>9. WindowsKnow'
  <2> SUFFICES ASSUME NEW q \in Procs, phase'[q] \in InWindow
               PROVE  /\ \A c \in made : c[1] \in touched'[q] \/ view'[q][c[1]] = c[2]
                                           \/ c[2] \in file.retired
                      /\ \A s \in Slugs : Active(s) => s \in touched'[q] \/ view'[q][s] = file.acct[s]
    BY <1>5 DEF WindowsKnow, Closes
  <2>1. q # p
    BY <1>3
  <2>2. phase[q] \in InWindow /\ view'[q] = view[q] /\ touched[q] \subseteq touched'[q]
    BY <1>2, <2>1 DEF Closes
  <2> QED
    BY <2>2 DEF IInv, WindowsKnow
<1>10. WokenWillStop'
  <2> SUFFICES ASSUME NEW c \in up, ~Excused(c)' PROVE \E q \in Procs : WillStop(q, c)'
    BY DEF WokenWillStop, Closes
  <2>1. PICK q \in Procs : WillStop(q, c)
    BY <1>4 DEF IInv, WokenWillStop
  <2>2. q # p
    BY <2>1 DEF Closes
  <2>3. c[1] \notin touched'[q]
    <3>1. c[1] \notin touched[q]
      BY <2>1 DEF WillStop
    <3>2. Starter(p) => c[1] # env[p]
      <4>1. Starter(p) => phase[p] \in Starts
        BY DEF Starter, Starts, InWindow
      <4> QED
        BY <1>1, <1>4, <4>1, StartIsAsked
    <3> QED
      BY <2>2, <3>1, <3>2 DEF Closes
  <2>4. WillStop(q, c)'
    BY <1>2, <2>1, <2>2, <2>3 DEF WillStop
  <2> QED
    BY <2>4
<1>11. StartedIsKept'
  <2> SUFFICES ASSUME NEW c \in started', NEW q \in Procs
               PROVE  /\ file'.acct[c[1]] = c[2]
                      /\ phase'[q] \in {"delete", "deleting"} => c[1] # env'[q]
                      /\ phase'[q] \in InWindow /\ c \notin before'[q] =>
                           \A s \in Slugs : view'[q][s] = c[2] => s = c[1] /\ Exempt(q, s)'
                      /\ doomed'[q] # NoSlug /\ <<doomed'[q], c>> \in list'[q] => c \in before'[q]
    BY DEF StartedIsKept
  <2>1. c \in started /\ file'.acct[c[1]] = c[2]
    BY DEF Closes, IInv, StartedIsKept
  <2>2. CASE q = p
    BY <1>3, <2>1, <2>2 DEF Closes
  <2>3. CASE q # p
    <3>1. ASSUME phase[q] \in InWindow, NEW s \in Slugs, s = c[1], Exempt(q, s)
          PROVE  Exempt(q, s)'
      <4>1. CASE s = env[q]
        BY <1>2, <2>3, <4>1 DEF Exempt
      <4>2. CASE s \in touched[q]
        BY <2>3, <3>1, <4>2 DEF Exempt, Closes
      <4>3. CASE Active(s)
        BY <1>5, <2>3, <3>1, <4>3 DEF Exempt, Closes
      <4> QED
        BY <3>1, <4>1, <4>2, <4>3 DEF Exempt
    <3> QED
      BY <1>2, <2>1, <2>3, <3>1 DEF IInv, StartedIsKept
  <2> QED
    BY <2>2, <2>3
<1> QED
  BY <1>6, <1>7, <1>8, <1>9, <1>10, <1>11

\* A start that opens its environment's window closes that of the platform.
LEMMA CloseControlPlaneCloses ==
  ASSUME IInv, NEW p \in Procs, CloseControlPlane(p)
  PROVE  Closes(p) /\ RowsOK' /\ HostOK' /\ holders' = holders
<1>1. RowsOK /\ HostOK
  BY TypeParts DEF IInv
<1>2. /\ phase[p] = "cp-sweep" /\ list[p] = {} /\ doomed[p] = NoSlug
      /\ touched' = [touched EXCEPT ![p] = {}]
      /\ substrate' = substrate \ {p}
      /\ UNCHANGED <<file, holders, copy, made, up, started, asked, missed, left>>
  BY DEF CloseControlPlane, Swept, registryVars, IInv, SweepLists
<1>3. /\ touched' \in [Procs -> SUBSET Slugs] /\ touched'[p] = {}
      /\ \A q \in Procs \ {p} : touched'[q] = touched[q]
  BY <1>1, <1>2 DEF RowsOK
<1>4. HostOK'
  BY <1>1, <1>2 DEF HostOK
<1>5. ~Starter(p) /\ \A c : ~WillStop(p, c)
  BY <1>2 DEF Starter, WillStop
<1>6. /\ Moves(p) /\ RowsOK' /\ phase'[p] \in {"idle", "cp-ready"}
      /\ before'[p] = {} /\ list'[p] = {} /\ doomed'[p] = NoSlug
      /\ phase'[p] = "cp-ready" => phase[p] = "cp-sweep" /\ env'[p] = env[p]
  <2>1. CASE Ends(p)
    BY <1>1, <1>3, <2>1, EndsRow
  <2>2. CASE /\ Goes(p, "cp-ready")
             /\ view' = [view EXCEPT ![p] = NoView]
             /\ before' = [before EXCEPT ![p] = {}]
             /\ UNCHANGED <<env, list, doomed>>
    <3>1. NoView \in [Slugs -> Accounts \cup {ControlPlaneAccount}]
      BY DEF NoView
    <3>2. RowsOK'
      BY <1>1, <1>3, <2>2, <3>1 DEF RowsOK, Goes
    <3>3. phase'[p] = "cp-ready" /\ before'[p] = {} /\ env' = env /\ list' = list /\ doomed' = doomed
      BY <1>1, <2>2 DEF RowsOK, Goes
    <3>4. Moves(p)
      BY <1>1, <2>2 DEF RowsOK, Goes, Moves
    <3> QED
      BY <1>2, <3>2, <3>3, <3>4
  <2> QED
    BY <2>1, <2>2 DEF CloseControlPlane
<1> QED
  BY <1>2, <1>3, <1>4, <1>5, <1>6 DEF Closes

\* A start of the platform that fails closes its window.
LEMMA ControlPlaneFailsCloses ==
  ASSUME IInv, NEW p \in Procs, ControlPlaneFails(p)
  PROVE  Closes(p) /\ RowsOK' /\ HostOK' /\ holders' = holders
<1>1. RowsOK /\ HostOK
  BY TypeParts DEF IInv
<1>2. /\ phase[p] = "cp" /\ Ends(p)
      /\ touched' = [touched EXCEPT ![p] = {}]
      /\ substrate' = substrate \ {p}
      /\ missed' = missed \cup (up \ before[p])
      /\ UNCHANGED <<file, holders, copy, made, up, started, asked, left>>
  BY DEF ControlPlaneFails, registryVars
<1>3. /\ touched' \in [Procs -> SUBSET Slugs] /\ touched'[p] = {}
      /\ \A q \in Procs \ {p} : touched'[q] = touched[q]
  BY <1>1, <1>2 DEF RowsOK
<1>4. HostOK'
  BY <1>1, <1>2 DEF HostOK
<1>5. ~Starter(p) /\ \A c \in up : WillStop(p, c) => Excused(c)'
  BY <1>2 DEF Starter, WillStop, Excused
<1>6. /\ Moves(p) /\ RowsOK' /\ phase'[p] = "idle"
      /\ before'[p] = {} /\ list'[p] = {} /\ doomed'[p] = NoSlug
  BY <1>1, <1>2, <1>3, EndsRow
<1> QED
  BY <1>2, <1>3, <1>4, <1>5, <1>6 DEF Closes

\* A start that is done closes its window, and what its sweep left is up.
LEMMA CloseEnvCloses ==
  ASSUME IInv, NEW p \in Procs, CloseEnv(p)
  PROVE  Closes(p) /\ RowsOK' /\ HostOK' /\ holders' = holders
<1>1. RowsOK /\ HostOK /\ OwnEnvironment
  BY TypeParts DEF IInv
<1>2. /\ phase[p] = "env-sweep" /\ list[p] = {} /\ Ends(p)
      /\ touched' = [Stamped(env[p]) EXCEPT ![p] = {}]
      /\ UNCHANGED <<file, holders, copy, substrate, made, up, started, asked, missed, left>>
  BY DEF CloseEnv, Swept, registryVars, hostVars
<1>3. env[p] \in Slugs
  BY <1>1, <1>2 DEF OwnEnvironment, RowsOK
<1>4. /\ touched' \in [Procs -> SUBSET Slugs] /\ touched'[p] = {}
      /\ \A q \in Procs \ {p} : touched'[q] = Stamped(env[p])[q]
  BY <1>1, <1>2, <1>3, StampedRows
<1>5. \A q \in Procs \ {p} :
        /\ touched'[q] \subseteq touched[q] \cup {env[p]}
        /\ phase[q] \in InWindow => touched'[q] = touched[q] \cup {env[p]}
  BY <1>1, <1>3, <1>4, StampedRows
<1>6. HostOK'
  BY <1>1, <1>2 DEF HostOK
<1>7. Starter(p) /\ \A c : ~WillStop(p, c)
  BY <1>2 DEF Starter, WillStop
<1>8. /\ Moves(p) /\ RowsOK' /\ phase'[p] = "idle"
      /\ before'[p] = {} /\ list'[p] = {} /\ doomed'[p] = NoSlug
  BY <1>1, <1>2, <1>4, EndsRow
<1> QED
  BY <1>2, <1>4, <1>5, <1>6, <1>7, <1>8 DEF Closes

\* A command that is cut off leaves the window open to nobody.
LEMMA QuitCloses ==
  ASSUME IInv, NEW p \in Procs, Quit(p)
  PROVE  Closes(p) /\ RowsOK' /\ HostOK' /\ holders' = holders \ {p}
<1>1. RowsOK /\ HostOK /\ OwnEnvironment
  BY TypeParts DEF IInv
<1>2. /\ Ends(p) /\ file' = file /\ holders' = holders \ {p}
      /\ UNCHANGED <<made, up, asked, left>>
  BY DEF Quit, Abandon, registryVars
<1>3. Starter(p) => phase[p] \in Knows /\ env[p] \in Slugs /\ env[p] # NoSlug
                    /\ phase[p] \in InWindow
  <2>1. Starter(p) => phase[p] \in {"env", "env-up", "env-sweep"}
    BY DEF Starter
  <2> QED
    BY <1>1, <2>1 DEF Knows, InWindow, OwnEnvironment, RowsOK
<1>4. \/ /\ Starter(p) /\ touched' = [Stamped(env[p]) EXCEPT ![p] = {}]
         /\ started' = started
      \/ /\ Starter(p) /\ touched' = [touched EXCEPT ![p] = {}]
         /\ started' = started \ {Of(p)}
      \/ /\ ~Starter(p) /\ touched' = [touched EXCEPT ![p] = {}]
         /\ started' = started
  BY DEF Quit
<1>5. \A c \in started' : started' = started \ {Of(p)} /\ Starter(p) => c[1] # env[p]
  <2> SUFFICES ASSUME NEW c \in started, Starter(p), c[1] = env[p] PROVE c = Of(p)
    OBVIOUS
  <2>1. c \in made /\ file.acct[c[1]] = c[2]
    BY <1>1 DEF HostOK, IInv, StartedIsKept
  <2>2. c[2] = view[p][env[p]]
    BY <1>1, <1>3, <2>1 DEF OwnEnvironment
  <2> QED
    BY <1>3, <2>1, <2>2, OwnAccount
<1>6. /\ touched' \in [Procs -> SUBSET Slugs] /\ touched'[p] = {}
      /\ \A q \in Procs \ {p} :
           /\ phase[q] \in InWindow => touched[q] \subseteq touched'[q]
           /\ touched'[q] \subseteq touched[q] \cup {env[p]}
           /\ Starter(p) /\ phase[q] \in InWindow =>
                env[p] \in touched'[q] \/ \A c \in started' : c[1] # env[p]
           /\ ~Starter(p) => touched'[q] \subseteq touched[q]
  <2>1. CASE Starter(p) /\ touched' = [Stamped(env[p]) EXCEPT ![p] = {}]
    <3>1. /\ touched' \in [Procs -> SUBSET Slugs] /\ touched'[p] = {}
          /\ \A q \in Procs \ {p} : touched'[q] = Stamped(env[p])[q]
      BY <1>1, <1>3, <2>1, StampedRows
    <3>2. \A q \in Procs \ {p} :
            /\ touched'[q] \subseteq touched[q] \cup {env[p]}
            /\ phase[q] \in InWindow => touched'[q] = touched[q] \cup {env[p]}
      BY <1>1, <1>3, <2>1, <3>1, StampedRows
    <3> QED
      BY <2>1, <3>1, <3>2
  <2>2. CASE /\ touched' = [touched EXCEPT ![p] = {}]
             /\ Starter(p) => started' = started \ {Of(p)}
    <3>1. /\ touched' \in [Procs -> SUBSET Slugs] /\ touched'[p] = {}
          /\ \A q \in Procs \ {p} : touched'[q] = touched[q]
      BY <1>1, <2>2 DEF RowsOK
    <3> QED
      BY <1>5, <2>2, <3>1
  <2> QED
    BY <1>4, <2>1, <2>2
<1>7. /\ missed \subseteq missed' /\ missed' \subseteq missed \cup up
      /\ started' \subseteq started
  BY <1>4 DEF Quit
<1>8. HostOK'
  <2>1. substrate' \subseteq Procs
    BY <1>1 DEF HostOK, Quit
  <2> QED
    BY <1>1, <1>2, <1>7, <2>1 DEF HostOK
<1>9. \A c \in up : WillStop(p, c) => Excused(c)'
  <2> SUFFICES ASSUME NEW c \in up, WillStop(p, c) PROVE c \in missed'
    BY DEF Excused
  <2>1. phase[p] \in InWindow /\ c \notin before[p]
    BY DEF WillStop, Sweeping, InWindow
  <2> QED
    BY <2>1 DEF Quit
<1>10. /\ Moves(p) /\ RowsOK' /\ phase'[p] = "idle"
       /\ before'[p] = {} /\ list'[p] = {} /\ doomed'[p] = NoSlug
  BY <1>1, <1>2, <1>6, EndsRow
<1> QED
  BY <1>2, <1>6, <1>7, <1>8, <1>9, <1>10 DEF Closes

\* Together: the end of a window, and of what is cut off.
LEMMA ClosesIInv ==
  ASSUME IInv, NEW p \in Procs,
         \/ CloseControlPlane(p) \/ ControlPlaneFails(p) \/ CloseEnv(p) \/ Quit(p)
  PROVE  IInv'
<1>1. RowsOK /\ OwnEnvironment
  BY TypeParts DEF IInv
<1>2. /\ Closes(p) /\ RowsOK' /\ HostOK'
      /\ \A q \in Procs \ {p} : q \in holders' <=> q \in holders
      /\ p \in holders' => p \in holders /\ ~Quit(p)
  BY CloseControlPlaneCloses, ControlPlaneFailsCloses, CloseEnvCloses, QuitCloses
<1>3. RegistryInv'
  BY RegistryKept DEF IInv, Next, Starting
<1>4. TypeOK'
  BY <1>2, <1>3 DEF TypeOK, RowsOK, HostOK
<1>5. phase[p] \in {"cp", "cp-sweep", "env-sweep"} \/ Quit(p)
  BY DEF CloseControlPlane, ControlPlaneFails, CloseEnv
<1>6. /\ p \notin holders'
      /\ \/ phase'[p] = "idle" /\ env'[p] = NoSlug
         \/ phase'[p] = "cp-ready" /\ env'[p] = env[p] /\ env[p] # NoSlug
            /\ phase[p] = "cp-sweep"
  <2>1. p \notin holders'
    BY <1>1, <1>2, <1>5 DEF OwnEnvironment, Locking
  <2>2. CASE Ends(p)
    BY <1>1, <2>1, <2>2, EndsRow
  <2>3. CASE ~Ends(p)
    BY <1>1, <2>1, <2>3 DEF CloseControlPlane, ControlPlaneFails, CloseEnv, Quit, Goes, RowsOK
  <2> QED
    BY <2>2, <2>3
<1>7. file' = file /\ Moves(p)
  BY <1>2 DEF Closes
<1>8. OwnRow(p)'
  <2>1. env[p] # NoSlug /\ phase[p] = "cp-sweep" => env[p] \in Registered(file)
    BY <1>1 DEF OwnEnvironment, Starts, InWindow
  <2> QED
    BY <1>6, <1>7, <2>1 DEF OwnRow, Locking, Knows, Starts, InWindow
<1>9. OwnEnvironment'
  BY <1>1, <1>2, <1>6, <1>7, <1>8, StartOwnKeeps DEF Registering
<1> QED
  BY <1>2, <1>4, <1>9, ClosesKeeps DEF IInv
-----------------------------------------------------------------------------
(* The invariant, and what follows from it *)

\* It holds of a host on which no command has run yet.
LEMMA InitIInv ==
  ASSUME Init
  PROVE  IInv
<1>1. PICK r \in Initially : RegistryInit(r)
  BY DEF Init
<1>2. /\ r \in Registries
      /\ \A s, t \in Registered(r) : s # t => r.slot[s] # r.slot[t] /\ r.acct[s] # r.acct[t]
      /\ \A s \in Slugs : r.acct[s] \notin r.retired
  BY CommandsAssumption
<1>3. RegistryInv /\ file = r /\ holders = {}
  BY <1>1, <1>2, InvInit DEF Distinct, RegistryInit
<1>4. \A c \in made : c \in Containers /\ file.acct[c[1]] = c[2]
  BY <1>2, <1>3, RegisteredAccount DEF Init, Container, Containers, Registered
<1>5. /\ \A p \in Procs : /\ phase[p] = "idle" /\ env[p] = NoSlug /\ before[p] = {}
                          /\ touched[p] = {} /\ list[p] = {} /\ doomed[p] = NoSlug
      /\ started = up /\ up \subseteq made /\ \A c \in up : c[1] \in asked
  BY DEF Init
<1>6. RowsOK
  <2>1. NoView \in [Slugs -> Accounts \cup {ControlPlaneAccount}]
    BY DEF NoView
  <2> QED
    BY <2>1 DEF Init, RowsOK
<1>7. HostOK
  <2>1. asked \subseteq Slugs
    BY <1>4, ContainerParts DEF Init
  <2> QED
    BY <1>4, <1>5, <2>1, CommandsAssumption DEF Init, HostOK
<1>8. OwnEnvironment
  BY <1>3, <1>5 DEF OwnEnvironment, Locking, Knows, Starts, InWindow
<1>9. SweepLists
  BY <1>5 DEF SweepLists
<1>10. Addressed
  BY <1>2, <1>3, <1>4, <1>5 DEF Addressed
<1>11. WindowsExcuse /\ WindowsKnow
  BY <1>5 DEF WindowsExcuse, WindowsKnow, InWindow, Starts
<1>12. WokenWillStop
  BY <1>5 DEF WokenWillStop, Excused
<1>13. StartedIsKept
  BY <1>4, <1>5 DEF StartedIsKept, InWindow
<1> QED
  BY <1>3, <1>6, <1>7, <1>8, <1>9, <1>10, <1>11, <1>12, <1>13, TypeParts DEF IInv

\* Every step keeps it, where no two commands work on one environment.
LEMMA NextIInv ==
  ASSUME IInv, OneAtATime, Next
  PROVE  IInv'
<1>1. PICK p \in Procs :
        \/ \E s \in Slugs : Gives(p, s)
        \/ StartControlPlane(p)
        \/ Registers(p)
        \/ Destroy(p) \/ StopContainers(p)
        \/ Starting(p)
        \/ \E c \in Containers : Wake(p, c)
        \/ ControlPlaneFails(p) \/ Quit(p)
  BY DEF Next
<1>2. CASE \E s \in Slugs : Gives(p, s)
  BY <1>2, GivesIInv
<1>3. CASE StartControlPlane(p)
  BY <1>3, LocksIInv
<1>4. CASE Registers(p)
  BY <1>4, LocksIInv, SavesIInv DEF Registers
<1>5. CASE Destroy(p) \/ StopContainers(p)
  BY <1>5, StopsOwnIInv
<1>6. CASE Starting(p)
  <2>1. CASE OpenEnv(p) /\ env[p] \notin Registered(file)
    BY <2>1 DEF OpenEnv, IInv, OwnEnvironment, Starts
  <2>2. CASE OpenControlPlane(p) \/ (OpenEnv(p) /\ env[p] \in Registered(file))
    BY <2>2, OpensIInv
  <2>3. CASE CloseControlPlane(p) \/ CloseEnv(p)
    BY <2>3, ClosesIInv
  <2>4. CASE BringUp(p) \/ BeginSweep(p) \/ StopWoken(p) \/ \E s \in Slugs : Judge(p, s)
    BY <2>4, BringUpIInv, BeginSweepIInv, StopWokenIInv, JudgeIInv
  <2> QED
    BY <1>6, <2>1, <2>2, <2>3, <2>4 DEF Starting
<1>7. CASE \E c \in Containers : Wake(p, c)
  BY <1>7, WakeIInv
<1>8. CASE ControlPlaneFails(p) \/ Quit(p)
  BY <1>8, ClosesIInv
<1> QED
  BY <1>1, <1>2, <1>3, <1>4, <1>5, <1>6, <1>7, <1>8

\* And a step that changes nothing.
LEMMA StutterIInv ==
  ASSUME IInv, UNCHANGED vars
  PROVE  IInv'
<1>1. UNCHANGED <<file, holders, copy, phase, env, view, before, touched, list, doomed,
                  substrate, made, up, started, asked, missed, left>>
  BY DEF vars, registryVars, commandVars, hostVars
<1>2. TypeOK' /\ OwnEnvironment' /\ Addressed'
  BY <1>1 DEF IInv, TypeOK, RegistryInv, DistinctAllocations, Edits!DistinctAllocations,
     OwnEnvironment, Addressed
<1>3. /\ \A c : Excused(c)' <=> Excused(c)
      /\ \A s : Active(s)' <=> Active(s)
      /\ \A q : Sweeping(q)' <=> Sweeping(q)
      /\ \A q, c : WillStop(q, c)' <=> WillStop(q, c)
      /\ \A q, s : Exempt(q, s)' <=> Exempt(q, s)
  BY <1>1 DEF Excused, Active, Starter, WillStop, Sweeping, Exempt
<1>4. SweepLists' /\ WindowsExcuse' /\ WindowsKnow'
  BY <1>1, <1>3 DEF IInv, SweepLists, WindowsExcuse, WindowsKnow
<1>5. WokenWillStop' /\ StartedIsKept'
  BY <1>1, <1>3 DEF IInv, WokenWillStop, StartedIsKept
<1> QED
  BY <1>2, <1>4, <1>5 DEF IInv

(***************************************************************************)
(* The inductive invariant holds of every behaviour in which a command has *)
(* its environment for itself, as a lease of it sees to; what registers an *)
(* environment needs no lease.                                             *)
(***************************************************************************)
THEOREM Inductive ==
  ASSUME OneAtATime
  PROVE  Spec => []IInv
<1>1. Init => IInv
  BY InitIInv
<1>2. IInv /\ [Next]_vars => IInv'
  BY NextIInv, StutterIInv
<1> QED
  BY <1>1, <1>2, PTL DEF Spec

\* Every command knows what it works on, also if another works on it.
LEMMA TypedHolds == Spec => []Typed
<1>1. Init => Typed
  BY InitIInv, OwnIsTyped DEF IInv
<1> QED
  BY <1>1, NextTyped, PTL DEF Spec

(***************************************************************************)
(* Types: among them that whatever commands do together, two environments  *)
(* share no account and no port slot, and one process at a time edits the  *)
(* registry.  This holds of commands that share an environment, too.       *)
(***************************************************************************)
THEOREM TypeOKHolds == Spec => []TypeOK
<1>1. Typed => TypeOK
  BY DEF Typed
<1> QED
  BY <1>1, TypedHolds, PTL

(***************************************************************************)
(* An environment starts on a clean account: what a delete leaves behind   *)
(* keeps its account retired, and a purge destroys before it unregisters.  *)
(***************************************************************************)
THEOREM CleanAccountsHolds ==
  ASSUME OneAtATime
  PROVE  Spec => []CleanAccounts
<1>1. ASSUME IInv
      PROVE  CleanAccounts
  <2> SUFFICES ASSUME NEW s \in Registered(file), NEW c \in made, c[2] = file.acct[s], c[1] # s
               PROVE  FALSE
    BY DEF CleanAccounts
  <2>1. s \in Slugs /\ c \in Containers /\ RegistryInv
    BY <1>1 DEF Registered, IInv, TypeOK
  <2>2. c[1] \in Slugs
    BY <2>1, ContainerParts
  <2>3. file.acct[c[1]] = file.acct[s]
    BY <1>1, <2>1 DEF IInv, Addressed
  <2> QED
    BY <2>1, <2>2, <2>3, TwoAccounts DEF Registered
<1> QED
  BY <1>1, Inductive, PTL

(***************************************************************************)
(* Nothing runs that no command can address, but what a delete left.       *)
(***************************************************************************)
THEOREM StrandedOnlyByDeleteHolds ==
  ASSUME OneAtATime
  PROVE  Spec => []StrandedOnlyByDelete
<1>1. IInv => StrandedOnlyByDelete
  BY DEF IInv, Addressed, StrandedOnlyByDelete, TypeOK
<1> QED
  BY <1>1, Inductive, PTL

(***************************************************************************)
(* Once no command runs, what is up was asked to be: each container that   *)
(* Floci wakes unasked is one that some window's sweep has still to stop.  *)
(***************************************************************************)
THEOREM WokenGoesDownHolds ==
  ASSUME OneAtATime
  PROVE  Spec => []WokenGoesDown
<1>1. ASSUME IInv
      PROVE  WokenGoesDown
  <2> SUFFICES ASSUME \A p \in Procs : phase[p] = "idle", NEW c \in up \ missed
               PROVE  c[1] \in asked \/ c[2] \in file.retired
    BY DEF WokenGoesDown
  <2>1. \A q \in Procs : ~WillStop(q, c)
    BY DEF WillStop, Sweeping
  <2> QED
    BY <1>1, <2>1 DEF IInv, WokenWillStop, Excused
<1> QED
  BY <1>1, Inductive, PTL

\* What a step takes from those that a start brought up.
LEMMA StepKeepsStarted ==
  ASSUME IInv, [Next]_vars, NEW c \in started \ started'
  PROVE  c \in up' \/ c[1] \notin asked'
<1>1. c \in up /\ c \in made
  BY DEF IInv, TypeOK
<1>2. started' # started
  OBVIOUS
<1>3. PICK p \in Procs : Destroy(p) \/ StopContainers(p) \/ StopWoken(p) \/ Quit(p)
  <2>1. ASSUME NEW p \in Procs, NEW s \in Slugs, Gives(p, s)
        PROVE  FALSE
    BY <1>2, <2>1 DEF Gives, Add, Delete, Purge, Stop, StartEnv, StartFirst
  <2>2. ASSUME NEW p \in Procs, Registers(p)
        PROVE  FALSE
    BY <1>2, <2>2 DEF Registers, SaveAdded, LockToDelete, SaveWithout, LockToUnregister,
       SaveUnregistered, LockFirst, SaveFirst, hostVars
  <2>3. ASSUME NEW p \in Procs, StartControlPlane(p) \/ ControlPlaneFails(p)
                                \/ \E d \in Containers : Wake(p, d)
        PROVE  FALSE
    BY <1>2, <2>3 DEF StartControlPlane, ControlPlaneFails, Wake
  <2>4. ASSUME NEW p \in Procs, Starting(p)
        PROVE  StopWoken(p)
    <3>1. ~BringUp(p)
      BY DEF BringUp
    <3> QED
      BY <1>2, <2>4, <3>1 DEF Starting, OpenControlPlane, CloseControlPlane, OpenEnv, CloseEnv,
         BeginSweep, Judge, hostVars
  <2>5. ~UNCHANGED vars
    BY <1>2 DEF vars, hostVars
  <2> QED
    BY <2>1, <2>2, <2>3, <2>4, <2>5 DEF Next
<1>4. CASE Destroy(p)
  <2>1. phase[p] \in Knows /\ phase[p] = "purge"
    BY <1>4 DEF Destroy, Knows
  <2>2. env[p] # NoSlug
    BY <2>1 DEF IInv, OwnEnvironment
  <2>3. c[2] = view[p][env[p]]
    BY <1>4 DEF Destroy, Stops, Labelled
  <2>4. c[1] = env[p]
    BY <1>1, <2>1, <2>2, <2>3, OwnAccount
  <2> QED
    BY <1>4, <2>4 DEF Destroy
<1>5. CASE StopContainers(p)
  <2>1. phase[p] = "stop" /\ c = Of(p)
    BY <1>5 DEF StopContainers, Stops
  <2>2. env[p] # NoSlug
    BY <2>1 DEF IInv, OwnEnvironment
  <2>3. c[1] = env[p]
    BY <2>1, <2>2 DEF Of, Container
  <2> QED
    BY <1>5, <2>3 DEF StopContainers
<1>6. CASE StopWoken(p)
  BY <1>6 DEF StopWoken, Stops, IInv, StartedIsKept
<1>7. CASE Quit(p)
  BY <1>1, <1>7 DEF Quit
<1> QED
  BY <1>3, <1>4, <1>5, <1>6, <1>7

(***************************************************************************)
(* One start does not undo another's, whatever windows overlap.            *)
(***************************************************************************)
THEOREM StartedStaysUpHolds ==
  ASSUME OneAtATime
  PROVE  Spec => StartedStaysUp
<1>1. IInv /\ [Next]_vars => [\A c \in started \ started' : c \in up' \/ c[1] \notin asked']_vars
  BY StepKeepsStarted
<1> QED
  BY <1>1, Inductive, PTL DEF Spec, StartedStaysUp

(***************************************************************************)
(* The commands use the registry as its specification says, whichever of   *)
(* them overlap: the component Registry is what they implement.            *)
(***************************************************************************)
THEOREM CommandsKeepRegistry == Spec => RegistrySpec
<1>1. Init => \E r \in Registries :
                /\ \A s, t \in Registered(r) :
                     s # t => r.slot[s] # r.slot[t] /\ r.acct[s] # r.acct[t]
                /\ RegistryInit(r)
  BY CommandsAssumption DEF Init
<1> QED
  BY <1>1, CommandIsEdit, TypedHolds, PTL DEF Spec, RegistrySpec

\* No edit of theirs is lost: two that add, delete or purge at the same time
\* each edit the registry as the other left it.
THEOREM CommandsLoseNoEdit == Spec => ImplementsEdits
BY CommandsKeepRegistry, NoEditLost, PTL
=============================================================================
