---------------------------- MODULE RegistryData ----------------------------
(***************************************************************************)
(* The registry of environments as a value, and what the edits of          *)
(* internal/registry do to it.  Of an entry the account and the port slot  *)
(* are kept; everything else in it follows from its name.                  *)
(***************************************************************************)
EXTENDS Integers, FiniteSets

CONSTANTS
  Slugs,      \* the names an environment may have
  MaxEnvs,    \* how many port slots there are
  Preferred,  \* Preferred[s]: the slot the name s hashes to
  Accounts    \* the accounts that can be allocated; in the code all from 1 up

ASSUME RegistryAssumption ==
  /\ MaxEnvs \in Nat \ {0}
  /\ Preferred \in [Slugs -> 0 .. MaxEnvs - 1]
  /\ Accounts \subseteq Nat \ {0}

\* The account of the control plane, which no environment is given.  In an
\* entry it stands for a name that is not registered.
ControlPlaneAccount == 0

Slots == 0 .. MaxEnvs - 1

Registries ==
  [acct : [Slugs -> Accounts \cup {ControlPlaneAccount}],
   slot : [Slugs -> Slots],
   retired : SUBSET Accounts]

Registered(r) == {s \in Slugs : r.acct[s] # ControlPlaneAccount}

NoEnvironments ==
  [acct |-> [s \in Slugs |-> ControlPlaneAccount],
   slot |-> [s \in Slugs |-> 0],
   retired |-> {}]

FreeSlots(r) == Slots \ {r.slot[s] : s \in Registered(r)}
FreeAccounts(r) == Accounts \ ({r.acct[s] : s \in Registered(r)} \cup r.retired)

\* Mutant: the slot the name hashes to, taken or not.
HashesToPortSlot(r, s, k) == k = Preferred[s]

\* k is the slot a new environment s gets, a the account.
AllocatesPortSlot(r, s, k) ==
  /\ k \in FreeSlots(r)
  /\ k = Preferred[s] \/ (Preferred[s] \notin FreeSlots(r) /\ \A j \in FreeSlots(r) : k <= j)

AllocatesAccountID(r, a) ==
  /\ a \in FreeAccounts(r)
  /\ \A b \in FreeAccounts(r) : a <= b

\* r with s registered, under account a and slot k.
NewEnvironment(r, s, a, k) ==
  [r EXCEPT !.acct[s] = a, !.slot[s] = k]

RemoveEnvironment(r, s) ==
  [r EXCEPT !.acct[s] = ControlPlaneAccount, !.slot[s] = 0]

\* Mutant: an account is free when its environment is gone.
FreesAccount(r, a) == r

RetireAccount(r, a) == [r EXCEPT !.retired = @ \cup {a}]
=============================================================================
