------------------------------ MODULE Registry ------------------------------
(***************************************************************************)
(* registry.Update (internal/registry/registry.go) under the host's        *)
(* registry lock (internal/hostlock): a process takes the lock and loads   *)
(* the file, edits its copy, saves it and lets go.  Readers load without   *)
(* the lock; the file is replaced by a rename, so a load sees a whole one. *)
(***************************************************************************)
EXTENDS RegistryData

CONSTANT Procs   \* the nsctl processes

VARIABLES
  file,     \* the registry on disk
  holders,  \* who holds the registry lock
  copy      \* copy[p]: what p loaded under it

registryVars == <<file, holders, copy>>

RegistryInit(r) ==
  /\ file = r
  /\ holders = {}
  /\ copy = [p \in Procs |-> NoEnvironments]

\* Mutant: the lock is not one lock.
LockOwn(p) ==
  /\ holders' = holders \cup {p}
  /\ copy' = [copy EXCEPT ![p] = file]
  /\ UNCHANGED file

\* p has the lock, and then the file.
LockRegistry(p) ==
  /\ holders = {}
  /\ holders' = holders \cup {p}
  /\ copy' = [copy EXCEPT ![p] = file]
  /\ UNCHANGED file

\* p saves r and lets go.
Save(p, r) ==
  /\ p \in holders
  /\ file' = r
  /\ holders' = holders \ {p}
  /\ copy' = [copy EXCEPT ![p] = NoEnvironments]

\* The edit is refused, or p dies: nothing is saved, and the lock is dropped.
Abandon(p) ==
  /\ p \in holders
  /\ holders' = holders \ {p}
  /\ copy' = [copy EXCEPT ![p] = NoEnvironments]
  /\ UNCHANGED file

\* env add, the first env start, and a pool that registers one more.
SaveNew(p, s) ==
  /\ s \notin Registered(copy[p])
  /\ \E a \in Accounts, k \in Slots :
       /\ AllocatesAccountID(copy[p], a)
       /\ AllocatesPortSlot(copy[p], s, k)
       /\ Save(p, NewEnvironment(copy[p], s, a, k))

MaySaveNew(p, s) ==
  /\ s \notin Registered(copy[p])
  /\ FreeAccounts(copy[p]) # {} /\ FreeSlots(copy[p]) # {}

\* env purge, once everything else is gone.
SavePurged(p, s) ==
  /\ s \in Registered(copy[p])
  /\ Save(p, RemoveEnvironment(copy[p], s))

\* env delete, with the account a it read at its beginning.
SaveDeleted(p, s, a) ==
  /\ s \in Registered(copy[p])
  /\ Save(p, RetireAccount(RemoveEnvironment(copy[p], s), a))

\* Ports, a bootstrap that is done: nothing of an environment.
SaveOther(p) == Save(p, copy[p])

RegistryNext ==
  \E p \in Procs :
    \/ LockRegistry(p)
    \/ Abandon(p)
    \/ SaveOther(p)
    \/ \E s \in Slugs : SaveNew(p, s) \/ SavePurged(p, s)
    \/ \E s \in Slugs, a \in Accounts : SaveDeleted(p, s, a)

RegistrySpec ==
  /\ \E r \in Registries :
       /\ \A s, t \in Registered(r) :
            s # t => r.slot[s] # r.slot[t] /\ r.acct[s] # r.acct[t]
       /\ RegistryInit(r)
  /\ [][RegistryNext]_registryVars

Edits == INSTANCE RegistryEdits

(***************************************************************************)
(* No two environments ever share a port slot or an account, whichever     *)
(* commands register and remove them at the same time.                     *)
(***************************************************************************)
DistinctAllocations == Edits!DistinctAllocations

(***************************************************************************)
(* No edit is lost: every change of the file is one edit of the registry   *)
(* as it was, for all that processes work on copies.                       *)
(***************************************************************************)
ImplementsEdits == Edits!EditsSpec

(***************************************************************************)
(* What Update rests on: who holds the lock has the file as it is.         *)
(***************************************************************************)
RegistryInv ==
  /\ file \in Registries
  /\ holders \subseteq Procs
  /\ copy \in [Procs -> Registries]
  /\ \A p \in holders : holders = {p} /\ copy[p] = file
  /\ DistinctAllocations
=============================================================================
