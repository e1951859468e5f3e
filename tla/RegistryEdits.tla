--------------------------- MODULE RegistryEdits ---------------------------
(***************************************************************************)
(* What Update promises: whatever processes do, the registry changes by    *)
(* one edit at a time, each made to the registry as it is.                 *)
(***************************************************************************)
EXTENDS RegistryData

VARIABLE file   \* the registry

Adds(s) ==
  /\ s \notin Registered(file)
  /\ \E a \in Accounts, k \in Slots :
       /\ AllocatesAccountID(file, a)
       /\ AllocatesPortSlot(file, s, k)
       /\ file' = NewEnvironment(file, s, a, k)

Purges(s) ==
  /\ s \in Registered(file)
  /\ file' = RemoveEnvironment(file, s)

\* A delete retires the account it read before it asked for the lock.
Deletes(s, a) ==
  /\ s \in Registered(file)
  /\ file' = RetireAccount(RemoveEnvironment(file, s), a)

EditsNext ==
  \E s \in Slugs :
    \/ Adds(s)
    \/ Purges(s)
    \/ \E a \in Accounts : Deletes(s, a)

\* No two environments share a slot or an account.
DistinctAllocations ==
  \A s, t \in Registered(file) :
    s # t => file.slot[s] # file.slot[t] /\ file.acct[s] # file.acct[t]

EditsSpec ==
  /\ file \in Registries /\ DistinctAllocations
  /\ [][EditsNext]_file
=============================================================================
