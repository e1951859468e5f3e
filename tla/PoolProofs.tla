------------------------------ MODULE PoolProofs ------------------------------
(***************************************************************************)
(* What the pool keeps, for any number of runs and environments, whatever  *)
(* each run wants, and any running budget: runs are served in the order    *)
(* they came, and no grant exceeds the budget as far as the run knows it.  *)
(***************************************************************************)
EXTENDS Pool, FiniteSetTheorems, WellFoundedInduction, TLAPS

-----------------------------------------------------------------------------
(* Numbers and sizes                                                       *)

\* A set of numbers below a bound that is not empty has a greatest one.
LEMMA GreatestNumber ==
  ASSUME NEW n \in Nat, NEW T \in SUBSET (0 .. n), T # {}
  PROVE  \E m \in T : \A k \in T : m >= k
<1> DEFINE R == StrictSubsetOrdering(Nat)
           U == {k .. n : k \in T}
<1>1. IsWellFoundedOn(R, FiniteSubsetsOf(Nat))
  BY FS_StrictSubsetOrderingWellFounded
<1>2. U \subseteq FiniteSubsetsOf(Nat) /\ U # {}
  <2>1. ASSUME NEW k \in T PROVE k .. n \in FiniteSubsetsOf(Nat)
    <3>1. k \in Nat
      OBVIOUS
    <3>2. IsFiniteSet(k .. n) /\ k .. n \subseteq Nat
      BY <3>1, FS_Interval
    <3> QED
      BY <3>2 DEF FiniteSubsetsOf
  <2> QED
    BY <2>1
<1>3. PICK x \in U : \A y \in U : <<y, x>> \notin R
  <2> HIDE DEF U, R
  <2> QED
    BY <1>1, <1>2, WFMin, Zenon
<1>4. PICK m \in T : x = m .. n
  BY <1>3
<1>5. ASSUME NEW k \in T, m < k
      PROVE  <<k .. n, m .. n>> \in R
  <2>1. k .. n \subseteq m .. n /\ m \in m .. n /\ m \notin k .. n /\ m .. n \subseteq Nat
    BY <1>5
  <2> QED
    BY <2>1 DEF StrictSubsetOrdering
<1>6. \A k \in T : ~(m < k)
  <2> HIDE DEF R
  <2> QED
    BY <1>3, <1>4, <1>5
<1> QED
  BY <1>6

\* The runs are finitely many, and so are those that joined.
LEMMA RunsFinite ==
  ASSUME NEW S \in SUBSET Runs
  PROVE  IsFiniteSet(S) /\ Cardinality(S) \in Nat /\ Cardinality(S) <= NumRuns
<1>1. IsFiniteSet(Runs) /\ Cardinality(Runs) = NumRuns
  BY PoolAssumption, FS_Interval DEF Runs
<1> QED
  BY <1>1, FS_Subset, FS_CardinalityType

\* The environments are finitely many.
LEMMA EnvsFinite ==
  ASSUME NEW S \in SUBSET Envs
  PROVE  IsFiniteSet(S) /\ Cardinality(S) \in Nat
<1>1. IsFiniteSet(Envs)
  BY PoolAssumption, FS_Interval DEF Envs
<1> QED
  BY <1>1, FS_Subset, FS_CardinalityType

-----------------------------------------------------------------------------
(* The queue                                                               *)

\* The last place is at least that of everyone in the queue, and no more than
\* the runs that joined.
LEMMA LastPlaceIs ==
  ASSUME TypeOK, PlacesFit
  PROVE  /\ LastPlace \in Nat /\ LastPlace <= Cardinality(Joined)
         /\ \A q \in InQueue : seq[q] = waiter[q].seq /\ seq[q] > 0 /\ seq[q] <= LastPlace
<1> DEFINE T == {waiter[q].seq : q \in InQueue} \cup {0}
<1>1. Cardinality(Joined) \in Nat
  BY RunsFinite DEF Joined
<1>2. \A q \in InQueue : /\ q \in Runs /\ waiter[q].seq \in Nat
                         /\ waiter[q].seq = seq[q] /\ seq[q] > 0
                         /\ seq[q] <= Cardinality(Joined)
  BY DEF InQueue, PlacesFit, TypeOK
<1>3. T \in SUBSET (0 .. Cardinality(Joined)) /\ T # {}
  BY <1>1, <1>2
<1>4. PICK m \in T : \A k \in T : m >= k
  <2> HIDE DEF T
  <2> QED
    BY <1>1, <1>3, GreatestNumber
<1>5. Max(T) \in T /\ \A k \in T : Max(T) >= k
  <2> HIDE DEF T
  <2> QED
    BY <1>4 DEF Max
<1>6. LastPlace = Max(T)
  BY DEF LastPlace
<1>7. \A q \in InQueue : waiter[q].seq \in T
  OBVIOUS
<1>8. LastPlace \in 0 .. Cardinality(Joined) /\ \A k \in T : k <= LastPlace
  <2> HIDE DEF T
  <2> QED
    BY <1>1, <1>3, <1>5, <1>6
<1>9. ASSUME NEW q \in InQueue PROVE seq[q] <= LastPlace
  BY <1>2, <1>7, <1>8
<1> QED
  BY <1>1, <1>2, <1>8, <1>9

\* What a look prunes it takes away whole, and adds nothing.
LEMMA PrunedIs ==
  ASSUME TypeOK
  PROVE  /\ Pruned \in [Runs -> [seq : 0 .. NumRuns, fresh : BOOLEAN]]
         /\ \A q \in Runs : Pruned[q].seq \in {0, waiter[q].seq}
         /\ \A q \in Runs : Pruned[q] # NoFile => q \in InQueue /\ Pruned[q] = waiter[q]
         /\ Kept \subseteq arrivals
<1>1. NumRuns \in Nat
  BY PoolAssumption
<1>2. NoFile \in [seq : 0 .. NumRuns, fresh : BOOLEAN]
  BY <1>1 DEF NoFile
<1> QED
  BY <1>2 DEF Pruned, Kept, TypeOK, NoFile

\* The leases that a look finds have their type; of sessions it finds those there are.
LEMMA FoundIs ==
  ASSUME TypeOK, NEW r \in Runs
  PROVE  /\ Found(r) \in [Envs -> [kind : {"free", "session", "stop"}, by : Runs \cup {0}]]
         /\ \A e \in Envs : Found(r)[e].kind = "session" => Found(r)[e] = lease[e]
         /\ Reaped(r) \subseteq Envs
  BY DEF Found, Lease, Free, TypeOK, Reaped, Counted

\* What a run may be given is an environment it wants and leaves to nobody ahead
\* of it, and that its budget admits.
LEMMA GetsIs ==
  ASSUME TypeOK, NEW r \in Runs, NEW e, LookGets(r, e)
  PROVE  /\ e \in Envs /\ e \in Wants[r] /\ e \notin Blocked(r) /\ Admitted(r, e)
         /\ lease' = [Found(r) EXCEPT ![e] = Lease("session", r)]
<1>1. /\ Wants[r] \subseteq Envs
      /\ Creatable(r) \subseteq Envs
  BY PoolAssumption DEF Creatable
<1>2. ASSUME Creatable(r) # {} PROVE Min(Creatable(r)) \in Creatable(r)
  <2> DEFINE T == {NumEnvs - k : k \in Creatable(r)}
  <2>1. T \in SUBSET (0 .. NumEnvs) /\ T # {} /\ NumEnvs \in Nat
    BY <1>1, <1>2, PoolAssumption DEF Envs
  <2>2. PICK m \in T : \A k \in T : m >= k
    <3> HIDE DEF T
    <3> QED
      BY <2>1, GreatestNumber
  <2>3. PICK k \in Creatable(r) : m = NumEnvs - k
    BY <2>2
  <2>4. ASSUME NEW j \in Creatable(r) PROVE k <= j
    <3>1. NumEnvs - j \in T
      OBVIOUS
    <3>2. m >= NumEnvs - j
      BY <2>2, <3>1
    <3>3. j \in Int /\ k \in Int /\ NumEnvs \in Int
      BY <1>1, <2>1 DEF Envs
    <3> QED
      BY <2>3, <3>2, <3>3
  <2> QED
    BY <2>3, <2>4 DEF Min
<1>3. e \in Grantable(r) \/ e \in Creatable(r)
  BY <1>2 DEF LookGets
<1> QED
  BY <1>1, <1>3 DEF LookGets, Grantable, Creatable
-----------------------------------------------------------------------------
(* Types, and places                                                       *)

\* A run that joins takes the next place, of which there are enough.
LEMMA JoinsAt ==
  ASSUME TypeOK, PlacesFit, NEW r \in Runs, seq[r] = 0
  PROVE  /\ LastPlace + 1 \in 1 .. NumRuns
         /\ Cardinality(Joined \cup {r}) = Cardinality(Joined) + 1
         /\ Cardinality(Joined) \in Nat
<1>1. /\ Joined \subseteq Runs /\ Joined \cup {r} \subseteq Runs /\ r \notin Joined
  BY DEF Joined
<1>2. Cardinality(Joined \cup {r}) = Cardinality(Joined) + 1
  BY <1>1, RunsFinite, FS_AddElement
<1>3. Cardinality(Joined \cup {r}) <= NumRuns /\ Cardinality(Joined) \in Nat
  BY <1>1, RunsFinite
<1> QED
  BY <1>2, <1>3, LastPlaceIs, PoolAssumption

\* What a run has for a place when it has looked in vain.
LEMMA PlaceIs ==
  ASSUME TypeOK, PlacesFit, NEW r \in Runs
  PROVE  Place(r) \in 1 .. NumRuns /\ (seq[r] # 0 => Place(r) = seq[r])
<1>1. seq[r] \in 0 .. NumRuns /\ NumRuns \in Nat
  BY PoolAssumption DEF TypeOK
<1>2. CASE seq[r] = 0
  <2>1. Place(r) = LastPlace + 1
    BY <1>2 DEF Place
  <2>2. LastPlace + 1 \in 1 .. NumRuns
    BY <1>2, JoinsAt
  <2> QED
    BY <1>2, <2>1, <2>2
<1>3. CASE seq[r] # 0
  <2>1. Place(r) = seq[r]
    BY <1>3 DEF Place
  <2> QED
    BY <1>1, <1>3, <2>1
<1> QED
  BY <1>2, <1>3

\* Every step keeps the types: there is a place for every run.
LEMMA TypeOKNext ==
  ASSUME TypeOK, PlacesFit, [Next]_vars
  PROVE  TypeOK'
<1>0. /\ NumRuns \in Nat /\ NoFile \in [seq : 0 .. NumRuns, fresh : BOOLEAN]
      /\ Free \in [kind : {"free", "session", "stop"}, by : Runs \cup {0}]
      /\ \A r \in Runs : Lease("session", r) \in [kind : {"free", "session", "stop"}, by : Runs \cup {0}]
      /\ \A r \in Runs : Lease("stop", r) \in [kind : {"free", "session", "stop"}, by : Runs \cup {0}]
  BY PoolAssumption DEF NoFile, Free, Lease
<1>1. ASSUME NEW r \in Runs, AskRunning(r) PROVE TypeOK'
  BY <1>1 DEF AskRunning, TypeOK
<1>2. ASSUME NEW r \in Runs, NEW e \in Envs, LookGets(r, e) PROVE TypeOK'
  <2>1. lease' \in [Envs -> [kind : {"free", "session", "stop"}, by : Runs \cup {0}]]
    BY <1>0, <1>2, GetsIs, FoundIs
  <2>2. waiter' \in [Runs -> [seq : 0 .. NumRuns, fresh : BOOLEAN]] /\ arrivals' \subseteq arrivals
    BY <1>2, PrunedIs DEF LookGets
  <2>3. stops' \in [Runs -> SUBSET Envs]
    BY <1>2, FoundIs DEF LookGets, Reads, TypeOK
  <2> QED
    BY <1>2, <2>1, <2>2, <2>3 DEF LookGets, Reads, TypeOK
<1>3. ASSUME NEW r \in Runs, LookWaits(r) PROVE TypeOK'
  <2>1. lease' \in [Envs -> [kind : {"free", "session", "stop"}, by : Runs \cup {0}]]
    BY <1>3, FoundIs DEF LookWaits
  <2>2. Place(r) \in 0 .. NumRuns
    BY <1>0, PlaceIs
  <2>3. [seq |-> Place(r), fresh |-> TRUE] \in [seq : 0 .. NumRuns, fresh : BOOLEAN]
    BY <2>2
  <2>4. waiter' \in [Runs -> [seq : 0 .. NumRuns, fresh : BOOLEAN]]
    BY <1>3, <2>3, PrunedIs DEF LookWaits
  <2>5. arrivals' \subseteq Runs \X Runs
    <3>1. Kept \subseteq Runs \X Runs
      BY PrunedIs DEF TypeOK
    <3>2. {<<q, r>> : q \in {q \in Runs : <<q, q>> \in Kept}} \subseteq Runs \X Runs
      <4>1. \A q \in {q \in Runs : <<q, q>> \in Kept} : <<q, r>> \in Runs \X Runs
        OBVIOUS
      <4> QED
        BY <4>1
    <3>3. {<<r, r>>} \subseteq Runs \X Runs
      OBVIOUS
    <3>4. Joins(r) \subseteq Runs \X Runs
      BY <3>1, <3>2, <3>3 DEF Joins
    <3>5. arrivals' = Kept \/ arrivals' = Joins(r)
      BY <1>3 DEF LookWaits
    <3> QED
      BY <3>1, <3>4, <3>5
  <2>6. stops' \in [Runs -> SUBSET Envs]
    BY <1>3, FoundIs DEF LookWaits, Reads, TypeOK
  <2> QED
    BY <1>3, <2>1, <2>2, <2>4, <2>5, <2>6 DEF LookWaits, Reads, TypeOK
<1>4. ASSUME NEW r \in Runs, NEW e \in Envs, Stop(r, e) PROVE TypeOK'
  BY <1>0, <1>4 DEF Stop, TypeOK
<1>5. ASSUME NEW r \in Runs, Leave(r) PROVE TypeOK'
  BY <1>0, <1>5 DEF Leave, TypeOK
<1>6. ASSUME NEW r \in Runs, Cancel(r) PROVE TypeOK'
  BY <1>0, <1>6 DEF Cancel, TypeOK
<1>7. ASSUME NEW r \in Runs, NEW e \in Envs, BringUp(r, e) PROVE TypeOK'
  BY <1>7 DEF BringUp, TypeOK
<1>8. ASSUME NEW r \in Runs, NEW e \in Envs, NEW keep \in BOOLEAN, EndSession(r, e, keep) PROVE TypeOK'
  BY <1>0, <1>8 DEF EndSession, TypeOK
<1>9. ASSUME NEW r \in Runs, Die(r) PROVE TypeOK'
  BY <1>9 DEF Die, TypeOK
<1>10. ASSUME NEW r \in Runs, SlowStop(r) PROVE TypeOK'
  <2>1. waiter' \in [Runs -> [seq : 0 .. NumRuns, fresh : BOOLEAN]]
    BY <1>10 DEF SlowStop, TypeOK
  <2> QED
    BY <1>10, <2>1 DEF SlowStop, TypeOK
<1>11. CASE UNCHANGED vars
  BY <1>11 DEF vars, TypeOK
<1> QED
  BY <1>1, <1>2, <1>3, <1>4, <1>5, <1>6, <1>7, <1>8, <1>9, <1>10, <1>11
  DEF Next, Acquiring, Using, Stopping

\* What becomes of the queue: a look prunes it and may add its run, and between
\* looks files go or grow old.
LEMMA QueueMoves ==
  ASSUME TypeOK, [Next]_vars
  PROVE  \/ \E r \in Runs : LookWaits(r)
         \/ /\ seq' = seq /\ arrivals' \subseteq arrivals
            /\ \A q \in Runs : waiter'[q].seq \in {0, waiter[q].seq}
<1> SUFFICES ASSUME ~ \E r \in Runs : LookWaits(r)
             PROVE  /\ seq' = seq /\ arrivals' \subseteq arrivals
                    /\ \A q \in Runs : waiter'[q].seq \in {0, waiter[q].seq}
  OBVIOUS
<1>1. ASSUME NEW r \in Runs, NEW e \in Envs, LookGets(r, e)
      PROVE  /\ seq' = seq /\ arrivals' \subseteq arrivals
             /\ \A q \in Runs : waiter'[q].seq \in {0, waiter[q].seq}
  BY <1>1, PrunedIs DEF LookGets
<1>2. ASSUME NEW r \in Runs, Leave(r) \/ Cancel(r) \/ SlowStop(r)
      PROVE  /\ seq' = seq /\ arrivals' \subseteq arrivals
             /\ \A q \in Runs : waiter'[q].seq \in {0, waiter[q].seq}
  <2>1. /\ seq' = seq /\ arrivals' \subseteq arrivals
        /\ \/ waiter' = [waiter EXCEPT ![r] = NoFile]
           \/ waiter' = [waiter EXCEPT ![r].fresh = FALSE]
    BY <1>2 DEF Leave, Cancel, SlowStop
  <2>2. /\ waiter \in [Runs -> [seq : 0 .. NumRuns, fresh : BOOLEAN]]
        /\ NoFile.seq = 0
    BY DEF TypeOK, NoFile
  <2>3. CASE waiter' = [waiter EXCEPT ![r] = NoFile]
    BY <2>1, <2>2, <2>3
  <2>4. CASE waiter' = [waiter EXCEPT ![r].fresh = FALSE]
    BY <2>1, <2>2, <2>4
  <2> QED
    BY <2>1, <2>3, <2>4
<1>3. CASE UNCHANGED <<waiter, seq, arrivals>>
  BY <1>3
<1>4. \/ \E r \in Runs : \E e \in Envs : LookGets(r, e)
      \/ \E r \in Runs : Leave(r) \/ Cancel(r) \/ SlowStop(r)
      \/ UNCHANGED <<waiter, seq, arrivals>>
  BY DEF Next, Acquiring, Using, Stopping, AskRunning, Stop, BringUp, EndSession, Die, vars
<1> QED
  BY <1>1, <1>2, <1>3, <1>4

\* A file carries the place its run remembers, of those there are.
LEMMA PlacesFitNext ==
  ASSUME TypeOK, PlacesFit, [Next]_vars
  PROVE  PlacesFit'
<1>1. ASSUME NEW r \in Runs, LookWaits(r)
      PROVE  PlacesFit'
  <2>1. /\ seq' = [seq EXCEPT ![r] = Place(r)]
        /\ waiter' = [Pruned EXCEPT ![r] = [seq |-> Place(r), fresh |-> TRUE]]
    BY <1>1 DEF LookWaits
  <2>2. seq \in [Runs -> 0 .. NumRuns] /\ NumRuns \in Nat /\ Place(r) \in 1 .. NumRuns
    BY PlaceIs, PoolAssumption DEF TypeOK
  <2>3. \A q \in Runs : waiter'[q].seq \in {0, seq'[q]}
    BY <2>1, <2>2, PrunedIs DEF PlacesFit
  <2>4. Joined' = Joined \cup {r}
    BY <2>1, <2>2 DEF Joined
  <2>5. CASE seq[r] = 0
    <3>1. Cardinality(Joined') = Cardinality(Joined) + 1 /\ Cardinality(Joined) \in Nat
      BY <2>4, <2>5, JoinsAt
    <3>2. Place(r) <= Cardinality(Joined')
      BY <2>5, <3>1, LastPlaceIs DEF Place
    <3> QED
      BY <2>1, <2>2, <2>3, <3>1, <3>2 DEF PlacesFit
  <2>6. CASE seq[r] # 0
    <3>1. seq' = seq /\ Joined' = Joined
      BY <2>1, <2>2, <2>4, <2>6, PlaceIs DEF Joined
    <3> QED
      BY <2>3, <3>1 DEF PlacesFit
  <2> QED
    BY <2>5, <2>6
<1>2. CASE /\ seq' = seq
           /\ \A q \in Runs : waiter'[q].seq \in {0, waiter[q].seq}
  <2>1. Joined' = Joined
    BY <1>2 DEF Joined
  <2> QED
    BY <1>2, <2>1 DEF PlacesFit
<1> QED
  BY <1>1, <1>2, QueueMoves

\* Who joins gets a greater number than all who are in their place.
LEMMA InOrderNext ==
  ASSUME TypeOK, PlacesFit, InOrder, [Next]_vars
  PROVE  InOrder'
<1>1. ASSUME NEW r \in Runs, LookWaits(r)
      PROVE  InOrder'
  <2>1. /\ seq' = [seq EXCEPT ![r] = Place(r)]
        /\ seq \in [Runs -> 0 .. NumRuns] /\ NumRuns \in Nat
        /\ Place(r) \in 1 .. NumRuns /\ (seq[r] # 0 => Place(r) = seq[r])
    BY <1>1, PlaceIs, PoolAssumption DEF LookWaits, TypeOK
  <2>2. CASE seq[r] # 0
    BY <1>1, <2>1, <2>2, PrunedIs DEF LookWaits, InOrder
  <2>3. CASE seq[r] = 0
    <3>1. Place(r) = LastPlace + 1 /\ LastPlace \in Nat
      BY <2>3, LastPlaceIs DEF Place
    <3>2. \A q \in Runs : <<q, q>> \in Kept =>
            q # r /\ seq[q] > 0 /\ seq[q] < Place(r)
      BY <2>1, <2>3, <3>1, LastPlaceIs DEF Kept
    <3>3. \A p, q \in Runs : <<p, q>> \in Kept =>
            p # r /\ q # r /\ seq[p] > 0 /\ (p # q => seq[p] < seq[q])
      <4>1. \A p, q \in Runs : <<p, q>> \in Kept => p \in InQueue /\ q \in InQueue
        BY DEF Kept
      <4>2. r \notin InQueue
        BY <2>3, LastPlaceIs
      <4> QED
        BY <4>1, <4>2, PrunedIs DEF InOrder
    <3>4. arrivals' = Joins(r)
      BY <1>1, <2>3 DEF LookWaits
    <3>5. \A q \in Runs \ {r} : seq'[q] = seq[q]
      BY <2>1
    <3>6. seq'[r] = Place(r) /\ Place(r) > 0
      BY <2>1
    <3> SUFFICES ASSUME NEW p \in Runs, NEW q \in Runs, <<p, q>> \in Joins(r)
                 PROVE  seq'[p] > 0 /\ (p # q => seq'[p] < seq'[q])
      BY <3>4 DEF InOrder
    <3>7. CASE <<p, q>> \in Kept
      BY <3>3, <3>5, <3>7
    <3>8. CASE q = r /\ <<p, p>> \in Kept
      BY <3>2, <3>5, <3>6, <3>8
    <3>9. CASE p = r /\ q = r
      BY <3>6, <3>9
    <3> QED
      BY <3>7, <3>8, <3>9 DEF Joins
  <2> QED
    BY <2>2, <2>3
<1>2. CASE seq' = seq /\ arrivals' \subseteq arrivals
  BY <1>2 DEF InOrder
<1> QED
  BY <1>1, <1>2, QueueMoves

-----------------------------------------------------------------------------
(* Theorems                                                                *)

\* The queue keeps its order, and every file in it the place of its run.
THEOREM Inductive == Spec => []IInv
<1>1. Init => IInv
  <2> SUFFICES ASSUME Init PROVE IInv
    OBVIOUS
  <2>1. NumRuns \in Nat /\ Configured \subseteq Envs
    BY PoolAssumption
  <2>2. NoFile \in [seq : 0 .. NumRuns, fresh : BOOLEAN] /\ NoFile.seq = 0
    BY <2>1 DEF NoFile
  <2>3. Free \in [kind : {"free", "session", "stop"}, by : Runs \cup {0}]
    BY DEF Free, Lease
  <2>4. TypeOK
    BY <2>1, <2>2, <2>3 DEF Init, TypeOK
  <2>5. Cardinality(Joined) \in Nat
    BY RunsFinite DEF Joined
  <2>6. PlacesFit
    BY <2>2, <2>5 DEF Init, PlacesFit
  <2> QED
    BY <2>4, <2>6 DEF Init, IInv, InOrder
<1>2. IInv /\ [Next]_vars => IInv'
  BY TypeOKNext, PlacesFitNext, InOrderNext DEF IInv
<1> QED
  BY <1>1, <1>2, PTL DEF Spec

\* Everything has its type, and no place in the queue is past the number of runs.
THEOREM TypeOKHolds == Spec => []TypeOK
<1>1. IInv => TypeOK
  BY DEF IInv
<1> QED
  BY <1>1, Inductive, PTL

\* Only a look that gets an environment makes a session's lease.
LEMMA GrantIsLook ==
  ASSUME TypeOK, Next, NEW r \in Runs, NEW e \in Envs, Granted(r, e)
  PROVE  LookGets(r, e)
<1>0. lease'[e] = Lease("session", r) /\ lease[e] # lease'[e]
  BY DEF Granted
<1>1. /\ \A q \in Runs : Lease("session", r) # Lease("stop", q)
      /\ Lease("session", r) # Free
      /\ \A q \in Runs : Lease("session", r) = Lease("session", q) => q = r
      /\ Lease("session", r).kind = "session"
  BY DEF Lease, Free
<1>2. ASSUME NEW q \in Runs, NEW f \in Envs, LookGets(q, f)
      PROVE  LookGets(r, e)
  <2>1. lease' = [Found(q) EXCEPT ![f] = Lease("session", q)]
    BY <1>2, GetsIs
  <2>2. e = f
    BY <1>0, <1>1, <2>1, FoundIs
  <2>3. lease'[e] = Lease("session", q)
    BY <2>1, <2>2, FoundIs
  <2> QED
    BY <1>0, <1>1, <1>2, <2>2, <2>3
<1>3. ASSUME NEW q \in Runs, LookWaits(q)
      PROVE  FALSE
  BY <1>0, <1>1, <1>3, FoundIs DEF LookWaits
<1>4. ASSUME NEW q \in Runs, NEW f \in Envs, Stop(q, f) \/ \E keep \in BOOLEAN : EndSession(q, f, keep)
      PROVE  FALSE
  BY <1>0, <1>1, <1>4 DEF Stop, EndSession, TypeOK
<1>5. CASE UNCHANGED lease
  BY <1>0, <1>5
<1> QED
  BY <1>2, <1>3, <1>4, <1>5
  DEF Next, Acquiring, Using, Stopping, AskRunning, Leave, Cancel, BringUp, Die, SlowStop

(***************************************************************************)
(* Runs are served in the order they came: none is given an environment    *)
(* that another could have used which waits since before it joined.        *)
(***************************************************************************)
THEOREM ServedInTurnHolds == Spec => ServedInTurn
<1>1. ASSUME IInv, Next, NEW r \in Runs, NEW e \in Envs, Granted(r, e),
             NEW q \in Runs \ {r}, Waiting(q), waiter'[q] # NoFile, JoinedBefore(q, r)
      PROVE  e \notin Wants[q]
  <2>1. TypeOK /\ PlacesFit /\ InOrder
    BY <1>1 DEF IInv
  <2>2. LookGets(r, e)
    BY <1>1, <2>1, GrantIsLook
  <2>3. q \in InQueue
    BY <1>1, <2>1, <2>2, PrunedIs DEF LookGets
  <2>4. ASSUME r \in InQueue PROVE Before(q, r)
    <3>1. seq[r] > 0 /\ waiter[r].seq = seq[r] /\ waiter[q].seq = seq[q]
      BY <2>1, <2>3, <2>4, LastPlaceIs
    <3>2. <<q, r>> \in arrivals
      BY <1>1, <3>1 DEF JoinedBefore
    <3>3. seq[q] < seq[r]
      BY <1>1, <2>1, <3>2 DEF InOrder
    <3> QED
      BY <3>1, <3>3 DEF Before
  <2>5. q \in Ahead(r)
    BY <2>3, <2>4 DEF Ahead
  <2>6. e \notin Blocked(r)
    BY <2>1, <2>2, GetsIs
  <2> QED
    BY <2>5, <2>6 DEF Blocked
<1>2. IInv /\ [Next]_vars =>
        [\A r \in Runs, e \in Envs : Granted(r, e) =>
           \A q \in Runs \ {r} :
             Waiting(q) /\ waiter'[q] # NoFile /\ JoinedBefore(q, r)
               => e \notin Wants[q]]_vars
  BY <1>1
<1> QED
  BY <1>2, Inductive, PTL DEF Spec, ServedInTurn

(***************************************************************************)
(* A grant keeps within the running budget, or takes what is in use        *)
(* already, as long as what the run heard of the containers still holds.   *)
(***************************************************************************)
THEOREM BudgetAsAskedHolds == Spec => BudgetAsAsked
<1>1. ASSUME IInv, Next, NEW r \in Runs, NEW e \in Envs,
             Granted(r, e), maxRunning > 0, running = up[r]
      PROVE  Cardinality(InUse') <= maxRunning \/ InUse' \subseteq InUse
  <2>1. TypeOK
    BY <1>1 DEF IInv
  <2>2. LookGets(r, e) /\ Admitted(r, e) /\ lease' = [Found(r) EXCEPT ![e] = Lease("session", r)]
    BY <1>1, <2>1, GrantIsLook, GetsIs
  <2>3. maxRunning \in Nat /\ maxRunning # 0 /\ Counted(r) = registered
    BY <1>1, <2>1, PoolAssumption DEF TypeOK, Counted
  <2>4. UsingBudget(r) \subseteq InUse /\ UsingBudget(r) \subseteq Envs
    BY <1>1, <2>1, <2>3, FoundIs DEF UsingBudget, InUse, TypeOK
  <2>5. InUse' \subseteq UsingBudget(r) \cup {e}
    <3>1. registered' = registered \cup {e} /\ running' = running
      BY <2>2 DEF LookGets, Reads
    <3>2. \A x \in Envs \ {e} : lease'[x] = Found(r)[x]
      BY <2>1, <2>2, FoundIs
    <3>3. registered \subseteq Envs
      BY <2>1 DEF TypeOK
    <3> QED
      BY <1>1, <2>3, <3>1, <3>2, <3>3 DEF UsingBudget, InUse
  <2>6. CASE e \in UsingBudget(r)
    BY <2>4, <2>5, <2>6
  <2>7. CASE Cardinality(UsingBudget(r)) < maxRunning /\ e \notin UsingBudget(r)
    <3>1. /\ IsFiniteSet(UsingBudget(r)) /\ Cardinality(UsingBudget(r)) \in Nat
          /\ IsFiniteSet(UsingBudget(r) \cup {e})
      BY <2>4, EnvsFinite
    <3>2. Cardinality(UsingBudget(r) \cup {e}) = Cardinality(UsingBudget(r)) + 1
      BY <2>7, <3>1, FS_AddElement
    <3>3. Cardinality(InUse') <= Cardinality(UsingBudget(r) \cup {e}) /\ Cardinality(InUse') \in Nat
      BY <2>5, <3>1, FS_Subset, FS_CardinalityType
    <3> QED
      BY <2>3, <2>7, <3>1, <3>2, <3>3
  <2> QED
    BY <2>2, <2>3, <2>6, <2>7 DEF Admitted
<1>2. IInv /\ [Next]_vars =>
        [\A r \in Runs, e \in Envs :
           Granted(r, e) /\ maxRunning > 0 /\ running = up[r]
             => Cardinality(InUse') <= maxRunning \/ InUse' \subseteq InUse]_vars
  BY <1>1
<1> QED
  BY <1>2, Inductive, PTL DEF Spec, BudgetAsAsked
=============================================================================
