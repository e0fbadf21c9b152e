--------------------------- MODULE PathLock_proof ---------------------------
(***************************************************************************)
(* Safety of PathLock for every finite set of callers, every number of     *)
(* paths and every heap of entries.                                        *)
(***************************************************************************)
EXTENDS PathLock, FiniteSetTheorems, TLAPS

\* locker.mutex is held exactly by the goroutine inside a map section.
MutexInv ==
    \A p \in Procs :
       pc[p] \in {"lookup", "register", "unregister"} <=> lockerMutex = p

\* A caller that looked the map up found what is still there.
LookupInv ==
    \A p \in Procs : pc[p] = "register" => mine[p][at[p]] = locks[at[p]]

\* Which closures a goroutine has captured at which point of its call.
ClosureInv ==
    \A p \in Procs :
       /\ pc[p] = "idle" => \A x \in Paths : mine[p][x] = Nil
       /\ pc[p] \in {"enter", "lookup"} => mine[p][at[p]] = Nil
       /\ pc[p] \in {"acquire"} \cup Unlocking => mine[p][at[p]] # Nil
       /\ pc[p] = "critical" => \E x \in Paths : mine[p][x] # Nil

\* Different paths have different entries.
DistinctInv ==
    \A x, y \in Paths : locks[x] # Nil /\ locks[x] = locks[y] => x = y

\* p's Lock(x) has returned and p has not unlocked x.
Granted(p, x) ==
    /\ Registered(p, x)
    /\ ~(at[p] = x /\ pc[p] \in {"acquire", "leave", "unregister"})

\* A goroutine past ent.mutex.Lock() holds the mutex of the entry it captured.
GrantInv ==
    \A p \in Procs, x \in Paths : Granted(p, x) => entryMutex[mine[p][x]] = p

\* The holder of e's mutex got it by Lock(x) and has not unlocked it.
HeldAt(e, x) == Granted(entryMutex[e], x) /\ mine[entryMutex[e]][x] = e

HeldVia(e) == \E x \in Paths : HeldAt(e, x)

\* An entry's mutex is held only by a goroutine past its ent.mutex.Lock().
HolderInv == \A e \in Entries : entryMutex[e] # Nobody => HeldVia(e)

\* The paths a goroutine has locked lie below the ones it still wants.
OrderInv ==
    \A p \in Procs : pc[p] \in Locking =>
       /\ at[p] \in want[p]
       /\ \A y \in want[p] : at[p] <= y
       /\ \A x \in Paths : mine[p][x] # Nil /\ x # at[p] => x < at[p]

IInv ==
    /\ TypeOK
    /\ MutexInv
    /\ LookupInv
    /\ ClosureInv
    /\ DistinctInv
    /\ GrantInv
    /\ HolderInv
    /\ OrderInv
    /\ MapExact
-----------------------------------------------------------------------------
\* The strict order on the natural numbers, spelled out.
LEMMA LessThanRel ==
  ASSUME NEW x \in Nat, NEW y \in Nat
  PROVE  <<y, x>> \in OpToRel(<, Nat) <=> y < x
<1>1. OpToRel(<, Nat) = {ss \in Nat \X Nat : ss[1] < ss[2]}
  BY Zenon DEF OpToRel
<1>2. <<y, x>> \in {ss \in Nat \X Nat : ss[1] < ss[2]} <=> y < x
  OBVIOUS
<1> QED
  BY <1>1, <1>2, Zenon

\* Every non-empty set of natural numbers has a least element.
LEMMA LeastNatural ==
  ASSUME NEW T \in SUBSET Nat, T # {}
  PROVE  \E x \in T : \A y \in T : x <= y
<1>1. PICK x \in T : \A y \in T : ~(<<y, x>> \in OpToRel(<, Nat))
  BY NatLessThanWellFounded, WFMin
<1>2. \A y \in T : ~(y < x)
  BY <1>1, LessThanRel, Zenon
<1> QED
  BY <1>2

\* A non-empty set of paths has a least element, and Min is it: where LockMany
\* starts (sort.Strings).
LEMMA MinOfPaths ==
  ASSUME NEW S \in SUBSET Paths, S # {}
  PROVE  Min(S) \in S /\ \A y \in S : Min(S) <= y
<1>1. S \in SUBSET Nat
  BY PathsAssumption DEF Paths
<1>2. \E x \in S : \A y \in S : x <= y
  BY <1>1, LeastNatural
<1> QED
  BY <1>2 DEF Min

\* A non-empty set of paths has a greatest element, and Max is it: where the
\* unlock function of LockMany starts.
LEMMA MaxOfPaths ==
  ASSUME NEW S \in SUBSET Paths, S # {}
  PROVE  Max(S) \in S /\ \A y \in S : y <= Max(S)
<1> DEFINE T == {n \in Nat : NumPaths - n \in S}
<1>1. \A x \in S : x \in Nat /\ NumPaths - x \in T
  BY PathsAssumption DEF Paths
<1>2. PICK t \in T : \A u \in T : t <= u
  BY <1>1, LeastNatural
<1>3. \A y \in S : NumPaths - t >= y
  <2>1. TAKE y \in S
  <2>2. t <= NumPaths - y /\ y \in Nat /\ t \in Nat
    BY <1>1, <1>2
  <2> QED
    BY <2>2, PathsAssumption
<1>4. \E x \in S : \A y \in S : x >= y
  BY <1>3
<1>5. Max(S) \in S /\ \A y \in S : Max(S) >= y
  BY <1>4 DEF Max
<1> QED
  BY <1>5, <1>1

\* Where LockMany goes after it has locked the path at hand.
LEMMA NextPath ==
  ASSUME TypeOK, NEW p \in Procs, want[p] \ {at[p]} # {}
  PROVE  /\ FirstOf(want[p] \ {at[p]}) \in want[p] \ {at[p]}
         /\ \A y \in want[p] \ {at[p]} : FirstOf(want[p] \ {at[p]}) <= y
  BY MinOfPaths, want[p] \ {at[p]} \in SUBSET Paths DEF TypeOK, FirstOf

\* Where the unlock function goes first, and after a path it has unlocked.
LEMMA LastPath ==
  ASSUME NEW S \in SUBSET Paths, NEW p \in Procs,
         {x \in S : mine[p][x] # Nil} # {}
  PROVE  /\ Max({x \in S : mine[p][x] # Nil}) \in S
         /\ mine[p][Max({x \in S : mine[p][x] # Nil})] # Nil
<1> DEFINE T == {x \in S : mine[p][x] # Nil}
<1>1. T \in SUBSET Paths /\ T # {}
  OBVIOUS
<1>2. Max(T) \in T
  BY <1>1, MaxOfPaths
<1> QED
  BY <1>2

\* The paths still locked when the path at hand is being unlocked.
Others(p) == {y \in Paths : y # at[p] /\ mine[p][y] # Nil}

LEMMA OthersLast ==
  ASSUME NEW p \in Procs, Others(p) # {}
  PROVE  /\ Max(Others(p)) \in Paths
         /\ Max(Others(p)) # at[p]
         /\ mine[p][Max(Others(p))] # Nil
  BY MaxOfPaths, Others(p) \in SUBSET Paths DEF Others

\* The registrants of a path are finitely many, so that they can be counted.
LEMMA RegistrantsFinite ==
  ASSUME NEW x \in Paths
  PROVE  IsFiniteSet(Registrants(x)) /\ Cardinality(Registrants(x)) \in Nat
  BY ProcsAssumption, FS_Subset, FS_CardinalityType DEF Registrants

\* The entry of a registered caller is in the map, and counts it.
LEMMA RegisteredCounted ==
  ASSUME IInv, NEW p \in Procs, NEW x \in Paths, Registered(p, x)
  PROVE  /\ mine[p][x] = locks[x]
         /\ locks[x] \in Entries
         /\ waiters[locks[x]] = Cardinality(Registrants(x))
         /\ waiters[locks[x]] \in Nat \ {0}
         /\ waiters[locks[x]] = 1 => Registrants(x) = {p}
<1>1. p \in Registrants(x)
  BY DEF Registrants
<1>2. /\ mine[p][x] = locks[x]
      /\ locks[x] # Nil
      /\ waiters[locks[x]] = Cardinality(Registrants(x))
  BY <1>1 DEF IInv, MapExact, Registered
<1>3. locks[x] \in Entries
  BY <1>2 DEF IInv, TypeOK
<1>4. Cardinality(Registrants(x)) # 0
  BY <1>1, FS_EmptySet, RegistrantsFinite
<1>5. Cardinality(Registrants(x)) = 1 => Registrants(x) = {p}
  BY <1>1, FS_Singleton, RegistrantsFinite
<1> QED
  BY <1>2, <1>3, <1>4, <1>5, RegistrantsFinite

\* Every step keeps the types of the state.
LEMMA TypeOKStep == IInv /\ [Next]_vars => TypeOK'
<1> SUFFICES ASSUME IInv, [Next]_vars PROVE TypeOK'
  OBVIOUS
<1> USE ProcsAssumption, PathsAssumption, EntriesAssumption DEF IInv, TypeOK, PCs, Locking, Unlocking
<1>1. CASE UNCHANGED vars
  BY <1>1 DEF vars
<1>2. ASSUME NEW p \in Procs, NEW S \in SUBSET Paths, Call(p, S) PROVE TypeOK'
  BY <1>2, MinOfPaths DEF Call, FirstOf
<1>3. ASSUME NEW p \in Procs, EnterLocker(p) PROVE TypeOK'
  BY <1>3 DEF EnterLocker
<1>4. ASSUME NEW p \in Procs, Lookup(p) PROVE TypeOK'
  BY <1>4 DEF Lookup
<1>5. ASSUME NEW p \in Procs, RegisterNew(p) PROVE TypeOK'
  BY <1>5 DEF RegisterNew
<1>6. ASSUME NEW p \in Procs, RegisterAgain(p) PROVE TypeOK'
  BY <1>6 DEF RegisterAgain
<1>7. ASSUME NEW p \in Procs, AcquireEntry(p) PROVE TypeOK'
  <2>1. mine[p][at[p]] \in Entries /\ at[p] \in Paths
    BY <1>7 DEF AcquireEntry, ClosureInv
  <2>2. CASE want[p] \ {at[p]} = {}
    BY <1>7, <2>1, <2>2 DEF AcquireEntry
  <2>3. CASE want[p] \ {at[p]} # {}
    <3>1. FirstOf(want[p] \ {at[p]}) \in Paths
      BY <2>3, NextPath
    <3>2. /\ pc' = [pc EXCEPT ![p] = "enter"]
          /\ at' = [at EXCEPT ![p] = FirstOf(want[p] \ {at[p]})]
          /\ want' = [want EXCEPT ![p] = @ \ {at[p]}]
          /\ entryMutex' = [entryMutex EXCEPT ![mine[p][at[p]]] = p]
          /\ UNCHANGED <<lockerMutex, locks, waiters, mine>>
      BY <1>7, <2>3 DEF AcquireEntry
    <3>3. /\ pc' \in [Procs -> PCs]
          /\ at' \in [Procs -> Paths \cup {0}]
          /\ \A q \in Procs : pc'[q] \in Locking \cup Unlocking => at'[q] \in Paths
      BY <3>1, <3>2
    <3>4. want' \in [Procs -> SUBSET Paths] /\ entryMutex' \in [Entries -> Procs \cup {Nobody}]
      BY <2>1, <3>2
    <3> QED
      BY <3>2, <3>3, <3>4
  <2> QED
    BY <2>2, <2>3
<1>8. ASSUME NEW p \in Procs, Finish(p) PROVE TypeOK'
  <2>1. {x \in Paths : mine[p][x] # Nil} # {}
    BY <1>8 DEF Finish, ClosureInv
  <2> QED
    BY <1>8, <2>1, LastPath DEF Finish
<1>9. ASSUME NEW p \in Procs, UnlockEntry(p) PROVE TypeOK'
  BY <1>9 DEF UnlockEntry
<1>10. ASSUME NEW p \in Procs, LeaveLocker(p) PROVE TypeOK'
  BY <1>10 DEF LeaveLocker
<1>11. ASSUME NEW p \in Procs, Unregister(p) PROVE TypeOK'
  <2>1. Registered(p, at[p]) /\ at[p] \in Paths
    BY <1>11 DEF Unregister, LeaveEntry, Registered, ClosureInv
  <2>2. waiters[mine[p][at[p]]] - 1 \in Nat
    BY <2>1, RegisteredCounted
  <2>3. mine[p][at[p]] \in Entries
    BY <2>1, RegisteredCounted
  <2>4. waiters' \in [Entries -> Nat]
    BY <1>11, <2>2, <2>3 DEF Unregister, LeaveEntry
  <2>5. locks' \in [Paths -> Entries \cup {Nil}]
    BY <1>11, <2>1 DEF Unregister, LeaveEntry
  <2>6. mine' \in [Procs -> [Paths -> Entries \cup {Nil}]]
    BY <1>11, <2>1 DEF Unregister, LeaveEntry
  <2>7. lockerMutex' \in Procs \cup {Nobody} /\ UNCHANGED <<entryMutex, want>>
    BY <1>11 DEF Unregister, LeaveEntry
  <2>8. /\ pc' \in [Procs -> PCs]
        /\ at' \in [Procs -> Paths \cup {0}]
        /\ \A q \in Procs : pc'[q] \in Locking \cup Unlocking => at'[q] \in Paths
    <3>1. CASE Others(p) = {}
      BY <1>11, <3>1 DEF Unregister, LeaveEntry, Others
    <3>2. CASE Others(p) # {}
      <4>1. Max(Others(p)) \in Paths
        BY <3>2, OthersLast
      <4>2. pc' = [pc EXCEPT ![p] = "unlock"] /\ at' = [at EXCEPT ![p] = Max(Others(p))]
        BY <1>11, <3>2 DEF Unregister, LeaveEntry, Others
      <4> QED
        BY <4>1, <4>2
    <3> QED
      BY <3>1, <3>2
  <2> QED
    BY <2>4, <2>5, <2>6, <2>7, <2>8
<1> QED
  BY <1>1, <1>2, <1>3, <1>4, <1>5, <1>6, <1>7, <1>8, <1>9, <1>10, <1>11 DEF Next, Step

\* Every step keeps MutexInv: locker.mutex is passed on as sync.Mutex passes it.
LEMMA MutexInvStep == IInv /\ [Next]_vars => MutexInv'
<1> SUFFICES ASSUME IInv, [Next]_vars PROVE MutexInv'
  OBVIOUS
<1> USE ProcsAssumption, PathsAssumption, EntriesAssumption DEF IInv, TypeOK, MutexInv
<1>1. CASE UNCHANGED vars
  BY <1>1 DEF vars
<1>2. ASSUME NEW p \in Procs, NEW S \in SUBSET Paths, Call(p, S) PROVE MutexInv'
  BY <1>2 DEF Call, FirstOf
<1>3. ASSUME NEW p \in Procs, EnterLocker(p) PROVE MutexInv'
  BY <1>3 DEF EnterLocker
<1>4. ASSUME NEW p \in Procs, Lookup(p) PROVE MutexInv'
  BY <1>4 DEF Lookup
<1>5. ASSUME NEW p \in Procs, RegisterNew(p) PROVE MutexInv'
  BY <1>5 DEF RegisterNew
<1>6. ASSUME NEW p \in Procs, RegisterAgain(p) PROVE MutexInv'
  BY <1>6 DEF RegisterAgain
<1>7. ASSUME NEW p \in Procs, AcquireEntry(p) PROVE MutexInv'
  BY <1>7 DEF AcquireEntry, FirstOf
<1>8. ASSUME NEW p \in Procs, Finish(p) PROVE MutexInv'
  BY <1>8 DEF Finish
<1>9. ASSUME NEW p \in Procs, UnlockEntry(p) PROVE MutexInv'
  BY <1>9 DEF UnlockEntry
<1>10. ASSUME NEW p \in Procs, LeaveLocker(p) PROVE MutexInv'
  BY <1>10 DEF LeaveLocker
<1>11. ASSUME NEW p \in Procs, Unregister(p) PROVE MutexInv'
  BY <1>11 DEF Unregister, LeaveEntry
<1> QED
  BY <1>1, <1>2, <1>3, <1>4, <1>5, <1>6, <1>7, <1>8, <1>9, <1>10, <1>11 DEF Next, Step

\* Every step keeps LookupInv: nobody writes the map beside the holder of
\* locker.mutex.
LEMMA LookupInvStep == IInv /\ [Next]_vars => LookupInv'
<1> SUFFICES ASSUME IInv, [Next]_vars PROVE LookupInv'
  OBVIOUS
<1> USE ProcsAssumption, PathsAssumption, EntriesAssumption DEF IInv, TypeOK, MutexInv, LookupInv
<1>1. CASE UNCHANGED vars
  BY <1>1 DEF vars
<1>2. ASSUME NEW p \in Procs, NEW S \in SUBSET Paths, Call(p, S) PROVE LookupInv'
  BY <1>2 DEF Call, FirstOf
<1>3. ASSUME NEW p \in Procs, EnterLocker(p) PROVE LookupInv'
  BY <1>3 DEF EnterLocker
<1>4. ASSUME NEW p \in Procs, Lookup(p) PROVE LookupInv'
  BY <1>4 DEF Lookup, Locking
<1>5. ASSUME NEW p \in Procs, RegisterNew(p) PROVE LookupInv'
  BY <1>5 DEF RegisterNew
<1>6. ASSUME NEW p \in Procs, RegisterAgain(p) PROVE LookupInv'
  BY <1>6 DEF RegisterAgain
<1>7. ASSUME NEW p \in Procs, AcquireEntry(p) PROVE LookupInv'
  BY <1>7 DEF AcquireEntry, FirstOf
<1>8. ASSUME NEW p \in Procs, Finish(p) PROVE LookupInv'
  BY <1>8 DEF Finish
<1>9. ASSUME NEW p \in Procs, UnlockEntry(p) PROVE LookupInv'
  BY <1>9 DEF UnlockEntry
<1>10. ASSUME NEW p \in Procs, LeaveLocker(p) PROVE LookupInv'
  BY <1>10 DEF LeaveLocker
<1>11. ASSUME NEW p \in Procs, Unregister(p) PROVE LookupInv'
  BY <1>11 DEF Unregister, LeaveEntry, ClosureInv, Unlocking
<1> QED
  BY <1>1, <1>2, <1>3, <1>4, <1>5, <1>6, <1>7, <1>8, <1>9, <1>10, <1>11 DEF Next, Step

\* Every step keeps ClosureInv.
LEMMA ClosureInvStep == IInv /\ [Next]_vars => ClosureInv'
<1> SUFFICES ASSUME IInv, [Next]_vars PROVE ClosureInv'
  OBVIOUS
<1> USE ProcsAssumption, PathsAssumption, EntriesAssumption DEF IInv, TypeOK, ClosureInv, PCs, Locking, Unlocking
<1>1. CASE UNCHANGED vars
  BY <1>1 DEF vars
<1>2. ASSUME NEW p \in Procs, NEW S \in SUBSET Paths, Call(p, S) PROVE ClosureInv'
  <2>1. FirstOf(S) \in Paths
    BY <1>2, MinOfPaths DEF Call, FirstOf
  <2> QED
    BY <1>2, <2>1 DEF Call
<1>3. ASSUME NEW p \in Procs, EnterLocker(p) PROVE ClosureInv'
  BY <1>3 DEF EnterLocker
<1>4. ASSUME NEW p \in Procs, Lookup(p) PROVE ClosureInv'
  BY <1>4 DEF Lookup
<1>5. ASSUME NEW p \in Procs, RegisterNew(p) PROVE ClosureInv'
  BY <1>5 DEF RegisterNew
<1>6. ASSUME NEW p \in Procs, RegisterAgain(p) PROVE ClosureInv'
  BY <1>6 DEF RegisterAgain
<1>7. ASSUME NEW p \in Procs, AcquireEntry(p) PROVE ClosureInv'
  <2>1. mine[p][at[p]] \in Entries /\ at[p] \in Paths
    BY <1>7 DEF AcquireEntry
  <2>2. CASE want[p] \ {at[p]} = {}
    BY <1>7, <2>1, <2>2 DEF AcquireEntry
  <2>3. CASE want[p] \ {at[p]} # {}
    <3> DEFINE y == FirstOf(want[p] \ {at[p]})
    <3>1. y \in Paths /\ y # at[p] /\ y \in want[p]
      BY <2>3, NextPath
    <3>2. pc' = [pc EXCEPT ![p] = "enter"] /\ at' = [at EXCEPT ![p] = y] /\ mine' = mine
      BY <1>7, <2>3 DEF AcquireEntry
    <3> HIDE DEF y
    <3>3. mine[p][y] = Nil
      BY <1>7, <2>1, <3>1 DEF AcquireEntry, OrderInv, Paths
    <3> QED
      BY <2>1, <3>1, <3>3, <3>2
  <2> QED
    BY <2>2, <2>3
<1>8. ASSUME NEW p \in Procs, Finish(p) PROVE ClosureInv'
  <2>1. {x \in Paths : mine[p][x] # Nil} # {}
    BY <1>8 DEF Finish
  <2> QED
    BY <1>8, <2>1, LastPath DEF Finish
<1>9. ASSUME NEW p \in Procs, UnlockEntry(p) PROVE ClosureInv'
  BY <1>9 DEF UnlockEntry
<1>10. ASSUME NEW p \in Procs, LeaveLocker(p) PROVE ClosureInv'
  BY <1>10 DEF LeaveLocker
<1>11. ASSUME NEW p \in Procs, Unregister(p) PROVE ClosureInv'
  <2>1. mine[p][at[p]] \in Entries /\ at[p] \in Paths
    BY <1>11 DEF Unregister, LeaveEntry
  <2>2. CASE Others(p) = {}
    BY <1>11, <2>1, <2>2 DEF Unregister, LeaveEntry, Others
  <2>3. CASE Others(p) # {}
    BY <1>11, <2>1, <2>3, OthersLast DEF Unregister, LeaveEntry, Others
  <2> QED
    BY <2>2, <2>3
<1> QED
  BY <1>1, <1>2, <1>3, <1>4, <1>5, <1>6, <1>7, <1>8, <1>9, <1>10, <1>11 DEF Next, Step

\* Every step keeps DistinctInv: a new entry is one that no path uses.
LEMMA DistinctInvStep == IInv /\ [Next]_vars => DistinctInv'
<1> SUFFICES ASSUME IInv, [Next]_vars PROVE DistinctInv'
  OBVIOUS
<1> USE ProcsAssumption, PathsAssumption, EntriesAssumption DEF IInv, TypeOK, DistinctInv
<1>1. CASE UNCHANGED vars
  BY <1>1 DEF vars
<1>2. ASSUME NEW p \in Procs, NEW S \in SUBSET Paths, Call(p, S) PROVE DistinctInv'
  BY <1>2 DEF Call, FirstOf
<1>3. ASSUME NEW p \in Procs, EnterLocker(p) PROVE DistinctInv'
  BY <1>3 DEF EnterLocker
<1>4. ASSUME NEW p \in Procs, Lookup(p) PROVE DistinctInv'
  BY <1>4 DEF Lookup
<1>5. ASSUME NEW p \in Procs, RegisterNew(p) PROVE DistinctInv'
  BY <1>5 DEF RegisterNew, Referenced, LookupInv, Locking
<1>6. ASSUME NEW p \in Procs, RegisterAgain(p) PROVE DistinctInv'
  BY <1>6 DEF RegisterAgain
<1>7. ASSUME NEW p \in Procs, AcquireEntry(p) PROVE DistinctInv'
  BY <1>7 DEF AcquireEntry, FirstOf
<1>8. ASSUME NEW p \in Procs, Finish(p) PROVE DistinctInv'
  BY <1>8 DEF Finish
<1>9. ASSUME NEW p \in Procs, UnlockEntry(p) PROVE DistinctInv'
  BY <1>9 DEF UnlockEntry
<1>10. ASSUME NEW p \in Procs, LeaveLocker(p) PROVE DistinctInv'
  BY <1>10 DEF LeaveLocker
<1>11. ASSUME NEW p \in Procs, Unregister(p) PROVE DistinctInv'
  BY <1>11 DEF Unregister, LeaveEntry, Unlocking
<1> QED
  BY <1>1, <1>2, <1>3, <1>4, <1>5, <1>6, <1>7, <1>8, <1>9, <1>10, <1>11 DEF Next, Step

\* Every step keeps OrderInv: LockMany locks in the order of the sorted paths.
LEMMA OrderInvStep == IInv /\ [Next]_vars => OrderInv'
<1> SUFFICES ASSUME IInv, [Next]_vars PROVE OrderInv'
  OBVIOUS
<1> USE ProcsAssumption, PathsAssumption, EntriesAssumption DEF IInv, TypeOK, OrderInv, PCs, Locking, Unlocking
<1>1. CASE UNCHANGED vars
  BY <1>1 DEF vars
<1>2. ASSUME NEW p \in Procs, NEW S \in SUBSET Paths, Call(p, S) PROVE OrderInv'
  <2>1. /\ FirstOf(S) \in S
        /\ \A y \in S : FirstOf(S) <= y
    BY <1>2, MinOfPaths DEF Call, FirstOf
  <2> QED
    BY <1>2, <2>1 DEF Call, ClosureInv
<1>3. ASSUME NEW p \in Procs, EnterLocker(p) PROVE OrderInv'
  BY <1>3 DEF EnterLocker
<1>4. ASSUME NEW p \in Procs, Lookup(p) PROVE OrderInv'
  BY <1>4 DEF Lookup
<1>5. ASSUME NEW p \in Procs, RegisterNew(p) PROVE OrderInv'
  BY <1>5 DEF RegisterNew
<1>6. ASSUME NEW p \in Procs, RegisterAgain(p) PROVE OrderInv'
  BY <1>6 DEF RegisterAgain
<1>7. ASSUME NEW p \in Procs, AcquireEntry(p) PROVE OrderInv'
  <2>1. at[p] \in Paths
    BY <1>7 DEF AcquireEntry
  <2>2. CASE want[p] \ {at[p]} = {}
    BY <1>7, <2>1, <2>2 DEF AcquireEntry
  <2>3. CASE want[p] \ {at[p]} # {}
    <3> DEFINE y == FirstOf(want[p] \ {at[p]})
    <3>1. y \in want[p] \ {at[p]} /\ \A z \in want[p] \ {at[p]} : y <= z
      BY <2>3, NextPath
    <3>2. at[p] < y
      BY <1>7, <2>1, <3>1 DEF AcquireEntry, Paths
    <3>3. /\ pc' = [pc EXCEPT ![p] = "enter"]
          /\ at' = [at EXCEPT ![p] = y]
          /\ mine' = mine
          /\ want' = [want EXCEPT ![p] = @ \ {at[p]}]
      BY <1>7, <2>3 DEF AcquireEntry
    <3> HIDE DEF y
    <3>4. \A x \in Paths : mine[p][x] # Nil /\ x # at[p] => x < at[p]
      BY <1>7 DEF AcquireEntry
    <3>5. at[p] \in Nat /\ y \in Nat /\ Paths \subseteq Nat
      BY <2>1, <3>1 DEF Paths
    <3>6. \A x \in Paths : mine[p][x] # Nil => x < y
      BY <3>2, <3>4, <3>5
    <3> QED
      BY <2>1, <3>1, <3>2, <3>3, <3>6
  <2> QED
    BY <2>2, <2>3
<1>8. ASSUME NEW p \in Procs, Finish(p) PROVE OrderInv'
  BY <1>8 DEF Finish
<1>9. ASSUME NEW p \in Procs, UnlockEntry(p) PROVE OrderInv'
  BY <1>9 DEF UnlockEntry
<1>10. ASSUME NEW p \in Procs, LeaveLocker(p) PROVE OrderInv'
  BY <1>10 DEF LeaveLocker
<1>11. ASSUME NEW p \in Procs, Unregister(p) PROVE OrderInv'
  BY <1>11 DEF Unregister, LeaveEntry
<1> QED
  BY <1>1, <1>2, <1>3, <1>4, <1>5, <1>6, <1>7, <1>8, <1>9, <1>10, <1>11 DEF Next, Step

\* Every step keeps HolderInv: an entry is unlocked before its holder leaves it.
LEMMA HolderInvStep == IInv /\ [Next]_vars => HolderInv'
<1> SUFFICES ASSUME IInv, [Next]_vars PROVE HolderInv'
  OBVIOUS
<1> USE ProcsAssumption, PathsAssumption, EntriesAssumption DEF IInv, TypeOK, HeldAt, Granted, Registered
<1>1. CASE UNCHANGED vars
  BY <1>1 DEF vars, HolderInv, HeldVia
<1>2. ASSUME NEW p \in Procs, NEW S \in SUBSET Paths, Call(p, S) PROVE HolderInv'
  <2> SUFFICES ASSUME NEW e \in Entries, entryMutex'[e] # Nobody PROVE HeldVia(e)'
    BY DEF HolderInv
  <2>1. entryMutex'[e] = entryMutex[e] /\ entryMutex[e] \in Procs
    BY <1>2 DEF Call
  <2>2. PICK x \in Paths : HeldAt(e, x)
    BY <2>1 DEF HolderInv, HeldVia
  <2>3. HeldAt(e, x)'
    BY <1>2, <2>1, <2>2 DEF Call
  <2> QED
    BY <2>3 DEF HeldVia
<1>3. ASSUME NEW p \in Procs, EnterLocker(p) PROVE HolderInv'
  <2> SUFFICES ASSUME NEW e \in Entries, entryMutex'[e] # Nobody PROVE HeldVia(e)'
    BY DEF HolderInv
  <2>1. entryMutex'[e] = entryMutex[e] /\ entryMutex[e] \in Procs
    BY <1>3 DEF EnterLocker
  <2>2. PICK x \in Paths : HeldAt(e, x)
    BY <2>1 DEF HolderInv, HeldVia
  <2>3. HeldAt(e, x)'
    BY <1>3, <2>1, <2>2 DEF EnterLocker
  <2> QED
    BY <2>3 DEF HeldVia
<1>4. ASSUME NEW p \in Procs, Lookup(p) PROVE HolderInv'
  <2> SUFFICES ASSUME NEW e \in Entries, entryMutex'[e] # Nobody PROVE HeldVia(e)'
    BY DEF HolderInv
  <2>1. entryMutex'[e] = entryMutex[e] /\ entryMutex[e] \in Procs
    BY <1>4 DEF Lookup, ClosureInv, Locking
  <2>2. PICK x \in Paths : HeldAt(e, x)
    BY <2>1 DEF HolderInv, HeldVia
  <2>3. HeldAt(e, x)'
    BY <1>4, <2>1, <2>2 DEF Lookup, ClosureInv, Locking
  <2> QED
    BY <2>3 DEF HeldVia
<1>5. ASSUME NEW p \in Procs, RegisterNew(p) PROVE HolderInv'
  <2> SUFFICES ASSUME NEW e \in Entries, entryMutex'[e] # Nobody PROVE HeldVia(e)'
    BY DEF HolderInv
  <2>1. entryMutex'[e] = entryMutex[e] /\ entryMutex[e] \in Procs
    BY <1>5 DEF RegisterNew, Locking
  <2>2. PICK x \in Paths : HeldAt(e, x)
    BY <2>1 DEF HolderInv, HeldVia
  <2>3. HeldAt(e, x)'
    BY <1>5, <2>1, <2>2 DEF RegisterNew, Locking
  <2> QED
    BY <2>3 DEF HeldVia
<1>6. ASSUME NEW p \in Procs, RegisterAgain(p) PROVE HolderInv'
  <2> SUFFICES ASSUME NEW e \in Entries, entryMutex'[e] # Nobody PROVE HeldVia(e)'
    BY DEF HolderInv
  <2>1. entryMutex'[e] = entryMutex[e] /\ entryMutex[e] \in Procs
    BY <1>6 DEF RegisterAgain, Locking
  <2>2. PICK x \in Paths : HeldAt(e, x)
    BY <2>1 DEF HolderInv, HeldVia
  <2>3. HeldAt(e, x)'
    BY <1>6, <2>1, <2>2 DEF RegisterAgain, Locking
  <2> QED
    BY <2>3 DEF HeldVia
<1>7. ASSUME NEW p \in Procs, AcquireEntry(p) PROVE HolderInv'
  <2> SUFFICES ASSUME NEW e \in Entries, entryMutex'[e] # Nobody PROVE HeldVia(e)'
    BY DEF HolderInv
  <2>1. mine[p][at[p]] \in Entries /\ at[p] \in Paths
    BY <1>7 DEF AcquireEntry, ClosureInv, Locking
  <2>2. pc' = [pc EXCEPT ![p] = "critical"] \/ pc' = [pc EXCEPT ![p] = "enter"]
    BY <1>7 DEF AcquireEntry
  <2>3. \A q \in Procs : q # p => at'[q] = at[q]
    BY <1>7 DEF AcquireEntry
  <2>4. CASE e = mine[p][at[p]]
    <3>1. PICK x \in Paths : x = at[p]
      BY <2>1
    <3>2. HeldAt(e, x)'
      BY <1>7, <2>1, <2>2, <2>4, <3>1 DEF AcquireEntry
    <3> QED
      BY <3>2 DEF HeldVia
  <2>5. CASE e # mine[p][at[p]]
    <3>1. entryMutex'[e] = entryMutex[e] /\ entryMutex[e] \in Procs
      BY <1>7, <2>1, <2>5 DEF AcquireEntry
    <3>2. PICK x \in Paths : HeldAt(e, x)
      BY <3>1 DEF HolderInv, HeldVia
    <3>3. HeldAt(e, x)'
      BY <1>7, <2>2, <2>3, <3>1, <3>2 DEF AcquireEntry
    <3> QED
      BY <3>3 DEF HeldVia
  <2> QED
    BY <2>4, <2>5
<1>8. ASSUME NEW p \in Procs, Finish(p) PROVE HolderInv'
  <2> SUFFICES ASSUME NEW e \in Entries, entryMutex'[e] # Nobody PROVE HeldVia(e)'
    BY DEF HolderInv
  <2>1. entryMutex'[e] = entryMutex[e] /\ entryMutex[e] \in Procs
    BY <1>8 DEF Finish
  <2>2. PICK x \in Paths : HeldAt(e, x)
    BY <2>1 DEF HolderInv, HeldVia
  <2>3. HeldAt(e, x)'
    BY <1>8, <2>1, <2>2 DEF Finish
  <2> QED
    BY <2>3 DEF HeldVia
<1>9. ASSUME NEW p \in Procs, UnlockEntry(p) PROVE HolderInv'
  <2> SUFFICES ASSUME NEW e \in Entries, entryMutex'[e] # Nobody PROVE HeldVia(e)'
    BY DEF HolderInv
  <2>1. entryMutex'[e] = entryMutex[e] /\ entryMutex[e] \in Procs
    BY <1>9 DEF UnlockEntry, ClosureInv, Unlocking
  <2>2. PICK x \in Paths : HeldAt(e, x)
    BY <2>1 DEF HolderInv, HeldVia
  <2>3. HeldAt(e, x)'
    BY <1>9, <2>1, <2>2 DEF UnlockEntry, ClosureInv, Unlocking
  <2> QED
    BY <2>3 DEF HeldVia
<1>10. ASSUME NEW p \in Procs, LeaveLocker(p) PROVE HolderInv'
  <2> SUFFICES ASSUME NEW e \in Entries, entryMutex'[e] # Nobody PROVE HeldVia(e)'
    BY DEF HolderInv
  <2>1. entryMutex'[e] = entryMutex[e] /\ entryMutex[e] \in Procs
    BY <1>10 DEF LeaveLocker
  <2>2. PICK x \in Paths : HeldAt(e, x)
    BY <2>1 DEF HolderInv, HeldVia
  <2>3. HeldAt(e, x)'
    BY <1>10, <2>1, <2>2 DEF LeaveLocker
  <2> QED
    BY <2>3 DEF HeldVia
<1>11. ASSUME NEW p \in Procs, Unregister(p) PROVE HolderInv'
  <2> SUFFICES ASSUME NEW e \in Entries, entryMutex'[e] # Nobody PROVE HeldVia(e)'
    BY DEF HolderInv
  <2>1. entryMutex'[e] = entryMutex[e] /\ entryMutex[e] \in Procs
    BY <1>11 DEF Unregister, LeaveEntry, Unlocking
  <2>2. PICK x \in Paths : HeldAt(e, x)
    BY <2>1 DEF HolderInv, HeldVia
  <2>3. HeldAt(e, x)'
    BY <1>11, <2>1, <2>2 DEF Unregister, LeaveEntry, Unlocking
  <2> QED
    BY <2>3 DEF HeldVia
<1> QED
  BY <1>1, <1>2, <1>3, <1>4, <1>5, <1>6, <1>7, <1>8, <1>9, <1>10, <1>11 DEF Next, Step

\* The steps that leave every caller registered where it was.
LEMMA SameRegistrants ==
  ASSUME IInv, NEW p \in Procs,
         \/ UNCHANGED vars \/ \E S \in SUBSET Paths : Call(p, S)
         \/ EnterLocker(p) \/ Lookup(p) \/ AcquireEntry(p) \/ Finish(p)
         \/ UnlockEntry(p) \/ LeaveLocker(p)
  PROVE  \A x \in Paths : Registrants(x)' = Registrants(x)
<1>1. \A q \in Procs, x \in Paths : Registered(q, x)' <=> Registered(q, x)
  <2> USE DEF IInv, TypeOK, ClosureInv, Registered, Locking
  <2>1. CASE UNCHANGED vars
    BY <2>1 DEF vars
  <2>2. CASE \E S \in SUBSET Paths : Call(p, S)
    BY <2>2 DEF Call
  <2>3. CASE EnterLocker(p)
    BY <2>3 DEF EnterLocker
  <2>4. CASE Lookup(p)
    BY <2>4 DEF Lookup
  <2>5. CASE AcquireEntry(p)
    BY <2>5 DEF AcquireEntry
  <2>6. CASE Finish(p)
    BY <2>6 DEF Finish
  <2>7. CASE UnlockEntry(p)
    BY <2>7 DEF UnlockEntry
  <2>8. CASE LeaveLocker(p)
    BY <2>8 DEF LeaveLocker
  <2> QED
    BY <2>1, <2>2, <2>3, <2>4, <2>5, <2>6, <2>7, <2>8
<1> QED
  BY <1>1 DEF Registrants

\* Those steps keep MapExact, as they write neither the map nor a count, and
\* of the captured entries only one that is not registered.
LEMMA MapExactQuiet ==
  ASSUME IInv, NEW p \in Procs,
         \/ UNCHANGED vars \/ \E S \in SUBSET Paths : Call(p, S)
         \/ EnterLocker(p) \/ Lookup(p) \/ AcquireEntry(p) \/ Finish(p)
         \/ UnlockEntry(p) \/ LeaveLocker(p)
  PROVE  MapExact'
<1>1. locks' = locks /\ waiters' = waiters
  BY DEF vars, Call, EnterLocker, Lookup, AcquireEntry, Finish, UnlockEntry, LeaveLocker
<1>2. \A x \in Paths : Registrants(x)' = Registrants(x)
  BY SameRegistrants
<1>3. \A x \in Paths : \A q \in Registrants(x) : mine'[q][x] = mine[q][x]
  <2>1. CASE Lookup(p)
    BY <2>1 DEF Lookup, IInv, TypeOK, ClosureInv, Registrants, Registered
  <2>2. CASE mine' = mine
    BY <2>2
  <2> QED
    BY <2>1, <2>2 DEF vars, Call, EnterLocker, AcquireEntry, Finish, UnlockEntry, LeaveLocker
<1> QED
  BY <1>1, <1>2, <1>3 DEF IInv, MapExact

\* MapExact at one path.
MapExactAt(x) ==
    /\ locks[x] = Nil <=> Registrants(x) = {}
    /\ locks[x] # Nil => waiters[locks[x]] = Cardinality(Registrants(x))
    /\ \A p \in Registrants(x) : mine[p][x] = locks[x]

\* A step keeps MapExact at every path that it does not touch.
LEMMA MapExactElsewhere ==
  ASSUME MapExact, NEW x \in Paths,
         Registrants(x)' = Registrants(x),
         locks'[x] = locks[x],
         locks[x] # Nil => waiters'[locks[x]] = waiters[locks[x]],
         \A q \in Procs : mine'[q][x] = mine[q][x]
  PROVE  MapExactAt(x)'
<1>1. Registrants(x) \subseteq Procs
  BY DEF Registrants
<1> QED
  BY <1>1 DEF MapExact, MapExactAt

\* Every step keeps MapExact: the count follows the registrations, and the entry
\* is deleted when it reaches zero.
LEMMA MapExactStep == IInv /\ [Next]_vars => MapExact'
<1> SUFFICES ASSUME IInv, [Next]_vars PROVE MapExact'
  OBVIOUS
<1>1. CASE UNCHANGED vars
  BY <1>1 DEF IInv, vars, MapExact, MapExactAt, Registrants, Registered
<1> USE ProcsAssumption, PathsAssumption, EntriesAssumption DEF IInv, TypeOK
<1>2. ASSUME NEW p \in Procs, NEW S \in SUBSET Paths, Call(p, S) PROVE MapExact'
  BY <1>2, MapExactQuiet
<1>3. ASSUME NEW p \in Procs, EnterLocker(p) PROVE MapExact'
  BY <1>3, MapExactQuiet
<1>4. ASSUME NEW p \in Procs, Lookup(p) PROVE MapExact'
  BY <1>4, MapExactQuiet
<1>5. ASSUME NEW p \in Procs, RegisterNew(p) PROVE MapExact'
  <2>1. PICK x0 \in Paths : x0 = at[p]
    BY <1>5 DEF RegisterNew, Locking
  <2>2. /\ ~Registered(p, x0)
        /\ mine'[p][x0] # Nil
        /\ mine'[p][x0] = locks'[x0]
        /\ \A q \in Procs, x \in Paths : q # p \/ x # x0 => mine'[q][x] = mine[q][x]
        /\ \A x \in Paths : x # x0 => locks'[x] = locks[x]
        /\ pc' = [pc EXCEPT ![p] = "acquire"]
        /\ at' = at
    BY <1>5, <2>1 DEF RegisterNew, Registered, LookupInv
  <2>3. /\ Registrants(x0)' = Registrants(x0) \cup {p}
        /\ p \notin Registrants(x0)
        /\ \A x \in Paths : x # x0 => Registrants(x)' = Registrants(x)
    BY <1>5, <2>1, <2>2 DEF Registrants, Registered, RegisterNew
  <2>4. Cardinality(Registrants(x0)') = Cardinality(Registrants(x0)) + 1
    BY <2>2, <2>3, FS_AddElement, RegistrantsFinite
  <2>5. waiters'[locks'[x0]] = Cardinality(Registrants(x0)')
    <3>1. locks[x0] = Nil
      BY <1>5, <2>1 DEF RegisterNew, LookupInv
    <3>2. Cardinality(Registrants(x0)) = 0
      BY <2>2, <3>1, FS_EmptySet DEF MapExact
    <3> QED
      BY <1>5, <2>1, <2>4, <3>2 DEF RegisterNew
  <2>6. \A x \in Paths : x # x0 /\ locks[x] # Nil => waiters'[locks[x]] = waiters[locks[x]]
    BY <1>5, <2>1, <2>2 DEF RegisterNew, Referenced, LookupInv, DistinctInv
  <2>7. \A q \in Registrants(x0) : mine[q][x0] = locks'[x0]
    BY <1>5, <2>1 DEF RegisterNew, LookupInv, MapExact
  <2> SUFFICES ASSUME NEW x \in Paths PROVE MapExactAt(x)'
    BY DEF MapExactAt, MapExact
  <2>8. CASE x = x0
    BY <2>2, <2>3, <2>5, <2>7, <2>8 DEF MapExactAt, Registrants, Registered
  <2>9. CASE x # x0
    BY <2>2, <2>3, <2>6, <2>9, MapExactElsewhere
  <2> QED
    BY <2>8, <2>9
<1>6. ASSUME NEW p \in Procs, RegisterAgain(p) PROVE MapExact'
  <2>1. PICK x0 \in Paths : x0 = at[p]
    BY <1>6 DEF RegisterAgain, Locking
  <2>2. /\ ~Registered(p, x0)
        /\ mine'[p][x0] # Nil
        /\ mine'[p][x0] = locks'[x0]
        /\ \A q \in Procs, x \in Paths : q # p \/ x # x0 => mine'[q][x] = mine[q][x]
        /\ \A x \in Paths : x # x0 => locks'[x] = locks[x]
        /\ pc' = [pc EXCEPT ![p] = "acquire"]
        /\ at' = at
    BY <1>6, <2>1 DEF RegisterAgain, Registered, LookupInv
  <2>3. /\ Registrants(x0)' = Registrants(x0) \cup {p}
        /\ p \notin Registrants(x0)
        /\ \A x \in Paths : x # x0 => Registrants(x)' = Registrants(x)
    BY <1>6, <2>1, <2>2 DEF Registrants, Registered, RegisterAgain
  <2>4. Cardinality(Registrants(x0)') = Cardinality(Registrants(x0)) + 1
    BY <2>2, <2>3, FS_AddElement, RegistrantsFinite
  <2>5. waiters'[locks'[x0]] = Cardinality(Registrants(x0)')
    BY <1>6, <2>1, <2>4, RegistrantsFinite DEF RegisterAgain, LookupInv, MapExact
  <2>6. \A x \in Paths : x # x0 /\ locks[x] # Nil => waiters'[locks[x]] = waiters[locks[x]]
    BY <1>6, <2>1, <2>2 DEF RegisterAgain, Referenced, LookupInv, DistinctInv
  <2>7. \A q \in Registrants(x0) : mine[q][x0] = locks'[x0]
    BY <1>6, <2>1 DEF RegisterAgain, LookupInv, MapExact
  <2> SUFFICES ASSUME NEW x \in Paths PROVE MapExactAt(x)'
    BY DEF MapExactAt, MapExact
  <2>8. CASE x = x0
    BY <2>2, <2>3, <2>5, <2>7, <2>8 DEF MapExactAt, Registrants, Registered
  <2>9. CASE x # x0
    BY <2>2, <2>3, <2>6, <2>9, MapExactElsewhere
  <2> QED
    BY <2>8, <2>9
<1>7. ASSUME NEW p \in Procs, AcquireEntry(p) PROVE MapExact'
  BY <1>7, MapExactQuiet
<1>8. ASSUME NEW p \in Procs, Finish(p) PROVE MapExact'
  BY <1>8, MapExactQuiet
<1>9. ASSUME NEW p \in Procs, UnlockEntry(p) PROVE MapExact'
  BY <1>9, MapExactQuiet
<1>10. ASSUME NEW p \in Procs, LeaveLocker(p) PROVE MapExact'
  BY <1>10, MapExactQuiet
<1>11. ASSUME NEW p \in Procs, Unregister(p) PROVE MapExact'
  <2>1. PICK x0 \in Paths : x0 = at[p]
    BY <1>11 DEF Unregister, LeaveEntry, Unlocking
  <2>2. Registered(p, x0) /\ mine[p][x0] \in Entries
    BY <1>11, <2>1 DEF Unregister, LeaveEntry, Registered, ClosureInv, Unlocking
  <2>3. PICK e0 \in Entries : e0 = mine[p][x0]
    BY <2>2
  <2>4. /\ e0 = locks[x0]
        /\ waiters[e0] = Cardinality(Registrants(x0))
        /\ waiters[e0] \in Nat \ {0}
        /\ waiters[e0] = 1 => Registrants(x0) = {p}
    BY <2>2, <2>3, RegisteredCounted
  <2>5. /\ waiters' = [waiters EXCEPT ![e0] = @ - 1]
        /\ locks' = IF waiters[e0] = 1 THEN [locks EXCEPT ![x0] = Nil] ELSE locks
        /\ mine' = [mine EXCEPT ![p][x0] = Nil]
        /\ pc'[p] # "register"
        /\ \A q \in Procs : q # p => pc'[q] = pc[q] /\ at'[q] = at[q]
    BY <1>11, <2>1, <2>3 DEF Unregister, LeaveEntry
  <2>6. /\ Registrants(x0)' = Registrants(x0) \ {p}
        /\ p \in Registrants(x0)
        /\ \A x \in Paths : x # x0 => Registrants(x)' = Registrants(x)
    <3>1. \A q \in Procs, x \in Paths : Registered(q, x)' <=> Registered(q, x) /\ ~(q = p /\ x = x0)
      BY <1>11, <2>1, <2>2, <2>5 DEF Registered, Unregister, LeaveEntry
    <3> QED
      BY <2>2, <3>1 DEF Registrants
  <2>7. Cardinality(Registrants(x0)') = Cardinality(Registrants(x0)) - 1
    BY <2>2, <2>6, FS_RemoveElement, RegistrantsFinite
  <2>8. \A x \in Paths : x # x0 => locks'[x] = locks[x] /\ (locks[x] # Nil => waiters'[locks[x]] = waiters[locks[x]])
    BY <2>2, <2>4, <2>5 DEF DistinctInv
  <2>9. \A q \in Procs, x \in Paths : x # x0 => mine'[q][x] = mine[q][x]
    BY <2>5
  <2>10. \A x \in Paths : x # x0 => MapExactAt(x)'
    BY <2>6, <2>8, <2>9, MapExactElsewhere
  <2>11. CASE waiters[e0] = 1
    <3>1. locks'[x0] = Nil /\ Registrants(x0)' = {}
      BY <2>2, <2>4, <2>5, <2>6, <2>11
    <3> QED
      BY <2>10, <3>1 DEF MapExact, MapExactAt
  <2>12. CASE waiters[e0] # 1
    <3>1. /\ locks'[x0] = e0
          /\ e0 # Nil
          /\ waiters'[e0] = Cardinality(Registrants(x0)')
          /\ waiters'[e0] # 0
      BY <2>2, <2>4, <2>5, <2>7, <2>12
    <3>2. Registrants(x0)' # {}
      BY <3>1, FS_EmptySet
    <3>3. \A q \in Registrants(x0)' : mine'[q][x0] = locks'[x0]
      BY <2>2, <2>4, <2>5, <2>6, <3>1 DEF MapExact, Registrants
    <3> QED
      BY <2>10, <3>1, <3>2, <3>3 DEF MapExact, MapExactAt
  <2> QED
    BY <2>11, <2>12
<1> QED
  BY <1>1, <1>2, <1>3, <1>4, <1>5, <1>6, <1>7, <1>8, <1>9, <1>10, <1>11 DEF Next, Step

\* Every step keeps GrantInv: nobody but its holder unlocks an entry.
LEMMA GrantInvStep == IInv /\ [Next]_vars => GrantInv'
<1> SUFFICES ASSUME IInv, [Next]_vars PROVE GrantInv'
  OBVIOUS
<1> USE ProcsAssumption, PathsAssumption, EntriesAssumption DEF IInv, TypeOK, GrantInv, Granted, Registered
<1>1. CASE UNCHANGED vars
  BY <1>1 DEF vars
<1>2. ASSUME NEW p \in Procs, NEW S \in SUBSET Paths, Call(p, S) PROVE GrantInv'
  BY <1>2 DEF Call
<1>3. ASSUME NEW p \in Procs, EnterLocker(p) PROVE GrantInv'
  BY <1>3 DEF EnterLocker
<1>4. ASSUME NEW p \in Procs, Lookup(p) PROVE GrantInv'
  BY <1>4 DEF Lookup, ClosureInv, Locking
<1>5. ASSUME NEW p \in Procs, RegisterNew(p) PROVE GrantInv'
  BY <1>5 DEF RegisterNew, Referenced, Locking
<1>6. ASSUME NEW p \in Procs, RegisterAgain(p) PROVE GrantInv'
  BY <1>6 DEF RegisterAgain, Locking
<1>7. ASSUME NEW p \in Procs, AcquireEntry(p) PROVE GrantInv'
  BY <1>7 DEF AcquireEntry, ClosureInv, Locking
<1>8. ASSUME NEW p \in Procs, Finish(p) PROVE GrantInv'
  BY <1>8 DEF Finish
<1>9. ASSUME NEW p \in Procs, UnlockEntry(p) PROVE GrantInv'
  <2>1. at[p] \in Paths /\ Granted(p, at[p]) /\ mine[p][at[p]] \in Entries
    BY <1>9 DEF UnlockEntry, ClosureInv, Unlocking
  <2> SUFFICES ASSUME NEW q \in Procs, NEW x \in Paths, Granted(q, x)'
               PROVE  entryMutex'[mine'[q][x]] = q
    OBVIOUS
  <2>2. Granted(q, x) /\ (q = p => x # at[p])
    BY <1>9 DEF UnlockEntry
  <2>3. mine[q][x] # mine[p][at[p]]
    <3>1. CASE q # p
      BY <2>1, <2>2, <3>1
    <3>2. CASE q = p
      <4>1. mine[p][x] = locks[x] /\ mine[p][at[p]] = locks[at[p]] /\ locks[x] # Nil
        BY <2>1, <2>2, <3>2, RegisteredCounted
      <4> QED
        BY <2>1, <2>2, <3>2, <4>1 DEF DistinctInv
    <3> QED
      BY <3>1, <3>2
  <2> QED
    BY <1>9, <2>1, <2>2, <2>3 DEF UnlockEntry
<1>10. ASSUME NEW p \in Procs, LeaveLocker(p) PROVE GrantInv'
  BY <1>10 DEF LeaveLocker
<1>11. ASSUME NEW p \in Procs, Unregister(p) PROVE GrantInv'
  BY <1>11 DEF Unregister, LeaveEntry, ClosureInv, Unlocking
<1> QED
  BY <1>1, <1>2, <1>3, <1>4, <1>5, <1>6, <1>7, <1>8, <1>9, <1>10, <1>11 DEF Next, Step

-----------------------------------------------------------------------------
\* The empty map and the idle callers satisfy the inductive invariant.
LEMMA InitIInv == Init => IInv
<1> SUFFICES ASSUME Init PROVE IInv
  OBVIOUS
<1> USE ProcsAssumption, PathsAssumption, EntriesAssumption DEF Init
<1>1. TypeOK
  BY DEF TypeOK, PCs, Locking, Unlocking
<1>2. MutexInv /\ LookupInv /\ ClosureInv /\ DistinctInv
  BY DEF MutexInv, LookupInv, ClosureInv, DistinctInv, Unlocking
<1>3. GrantInv /\ HolderInv /\ OrderInv
  BY DEF GrantInv, Granted, Registered, HolderInv, OrderInv, Locking
<1>4. MapExact
  BY DEF MapExact, Registrants, Registered
<1> QED
  BY <1>1, <1>2, <1>3, <1>4 DEF IInv

\* IInv holds in every reachable state of the locker.
THEOREM Invariance == Spec => []IInv
<1>1. IInv /\ [Next]_vars => IInv'
  BY TypeOKStep, MutexInvStep, LookupInvStep, ClosureInvStep, DistinctInvStep,
     GrantInvStep, HolderInvStep, OrderInvStep, MapExactStep DEF IInv
<1> QED
  BY <1>1, InitIInv, PTL DEF Spec

\* The state of the locker keeps its types: waiters never becomes negative and
\* no step follows a nil entry (Lock, LockMany and their unlock functions).
THEOREM TypeCorrect == Spec => []TypeOK
<1>1. IInv => TypeOK
  BY DEF IInv
<1> QED
  BY <1>1, Invariance, PTL

\* In a reachable state a path is held by whoever holds the mutex of the entry
\* that the map has for it.
LEMMA HoldsByMap ==
  ASSUME IInv, NEW p \in Procs, NEW x \in Paths
  PROVE  Holds(p, x) <=> locks[x] # Nil /\ entryMutex[locks[x]] = p
<1>1. mine[p][x] # Nil => mine[p][x] = locks[x]
  <2>1. CASE Registered(p, x)
    BY <2>1, RegisteredCounted
  <2>2. CASE pc[p] = "register" /\ at[p] = x
    BY <2>2 DEF IInv, LookupInv
  <2> QED
    BY <2>1, <2>2 DEF Registered
<1>2. ASSUME locks[x] # Nil, entryMutex[locks[x]] = p
      PROVE  mine[p][x] = locks[x]
  <2>1. locks[x] \in Entries /\ p # Nobody
    BY <1>2, ProcsAssumption DEF IInv, TypeOK
  <2>2. PICK y \in Paths : HeldAt(locks[x], y)
    BY <1>2, <2>1 DEF IInv, HolderInv, HeldVia
  <2>3. Registered(p, y) /\ mine[p][y] = locks[x]
    BY <1>2, <2>2 DEF HeldAt, Granted
  <2>4. locks[y] = locks[x]
    BY <2>3, RegisteredCounted
  <2> QED
    BY <1>2, <2>3, <2>4 DEF IInv, DistinctInv
<1> QED
  BY <1>1, <1>2 DEF Holds

\* Two callers never hold the same path (Lock), for any number of callers and
\* paths and whatever the reuse of entries.
THEOREM MutualExclusionHolds == Spec => []MutualExclusion
<1>1. IInv => MutualExclusion
  BY HoldsByMap DEF MutualExclusion
<1> QED
  BY <1>1, Invariance, PTL

\* The map never leaks an entry and never drops one that is in use (the test of
\* waiters in the unlock function).
THEOREM MapExactHolds == Spec => []MapExact
<1>1. IInv => MapExact
  BY DEF IInv
<1> QED
  BY <1>1, Invariance, PTL

\* In a waiting circle nobody waits for locker.mutex, and everybody holds a
\* path below the one it waits for.
LEMMA WaitUpwards ==
  ASSUME IInv, NEW p \in Procs, NEW q \in Procs, NEW r \in Procs,
         WaitsFor(p, q), WaitsFor(q, r)
  PROVE  /\ pc[p] = "acquire"
         /\ pc[q] = "acquire" => at[p] < at[q]
<1>1. pc[q] \in {"acquire", "enter", "leave"}
  BY DEF WaitsFor
<1>2. lockerMutex # q
  BY <1>1 DEF IInv, MutexInv
<1>3. pc[p] = "acquire" /\ entryMutex[mine[p][at[p]]] = q
  BY <1>2 DEF WaitsFor
<1>4. at[p] \in Paths /\ Registered(p, at[p])
  BY <1>3 DEF IInv, TypeOK, ClosureInv, Registered, Locking
<1>5. mine[p][at[p]] = locks[at[p]] /\ locks[at[p]] \in Entries
  BY <1>4, RegisteredCounted
<1>6. Holds(q, at[p])
  BY <1>3, <1>4, <1>5, HoldsByMap, EntriesAssumption
<1>7. ASSUME pc[q] = "acquire" PROVE at[p] < at[q]
  <2>1. at[q] \in Paths /\ Registered(q, at[q])
    BY <1>7 DEF IInv, TypeOK, ClosureInv, Registered, Locking
  <2>2. mine[q][at[p]] # Nil
    BY <1>6 DEF Holds
  <2>3. at[p] # at[q]
    <3>1. ASSUME at[p] = at[q] PROVE FALSE
      <4>1. locks[at[q]] \in Entries /\ entryMutex[locks[at[q]]] = q
        BY <1>3, <1>5, <3>1
      <4>2. PICK y \in Paths : HeldAt(locks[at[q]], y)
        BY <4>1, ProcsAssumption DEF IInv, HolderInv, HeldVia
      <4>3. Granted(q, y) /\ mine[q][y] = locks[at[q]]
        BY <4>1, <4>2 DEF HeldAt
      <4>4. y = at[q]
        <5>1. mine[q][y] = locks[y]
          BY <4>3, RegisteredCounted DEF Granted
        <5> QED
          BY <2>1, <4>1, <4>3, <5>1, EntriesAssumption DEF IInv, DistinctInv
      <4> QED
        BY <1>7, <4>3, <4>4 DEF Granted
    <3> QED
      BY <3>1
  <2> QED
    BY <1>4, <1>7, <2>2, <2>3 DEF IInv, OrderInv, Locking
<1> QED
  BY <1>3, <1>7

\* A finite non-empty set of callers, each at some path, has one at the
\* greatest path.
LEMMA GreatestAt ==
  ASSUME TypeOK, NEW S \in SUBSET Procs, S # {},
         \A p \in S : at[p] \in Paths
  PROVE  \E p \in S : \A q \in S : at[q] <= at[p]
<1> DEFINE T == {x \in Paths : \E p \in S : at[p] = x}
<1>1. T \in SUBSET Paths /\ T # {} /\ \A p \in S : at[p] \in T
  OBVIOUS
<1>2. Max(T) \in T /\ \A y \in T : y <= Max(T)
  BY <1>1, MaxOfPaths
<1>3. PICK p \in S : at[p] = Max(T)
  BY <1>2
<1> QED
  BY <1>1, <1>2, <1>3

\* Callers never wait for each other in a circle, whatever sets of paths they
\* pass to LockMany (its sort, and the short sections under locker.mutex).
THEOREM NoCircularWaitHolds == Spec => []NoCircularWait
<1>1. IInv => NoCircularWait
  <2> SUFFICES ASSUME IInv, NEW S \in (SUBSET Procs) \ {{}},
                      \A p \in S : \E q \in S : WaitsFor(p, q)
               PROVE  FALSE
    BY DEF NoCircularWait
  <2>1. \A p \in S : pc[p] = "acquire"
    <3>1. TAKE p \in S
    <3>2. PICK q \in S : WaitsFor(p, q)
      OBVIOUS
    <3>3. PICK r \in S : WaitsFor(q, r)
      OBVIOUS
    <3> QED
      BY <3>2, <3>3, WaitUpwards
  <2>2. \A p \in S : at[p] \in Paths
    BY <2>1 DEF IInv, TypeOK, Locking
  <2>3. PICK p \in S : \A q \in S : at[q] <= at[p]
    BY <2>2, GreatestAt DEF IInv
  <2>4. PICK q \in S : WaitsFor(p, q)
    OBVIOUS
  <2>5. PICK r \in S : WaitsFor(q, r)
    OBVIOUS
  <2>6. at[p] < at[q] /\ at[q] <= at[p]
    BY <2>1, <2>3, <2>4, <2>5, WaitUpwards
  <2>7. at[p] \in Nat /\ at[q] \in Nat
    BY <2>2, PathsAssumption DEF Paths
  <2> QED
    BY <2>6, <2>7
<1> QED
  BY <1>1, Invariance, PTL

-----------------------------------------------------------------------------
\* The owner of a path is the holder of its entry's mutex.
OwnerByMap(x) == IF locks[x] = Nil THEN Nobody ELSE entryMutex[locks[x]]

LEMMA OwnerValue == IInv => Owner = [x \in Paths |-> OwnerByMap(x)]
<1> SUFFICES ASSUME IInv, NEW x \in Paths PROVE Owner[x] = OwnerByMap(x)
  BY DEF Owner
<1>1. \A p \in Procs : Holds(p, x) <=> OwnerByMap(x) = p
  BY HoldsByMap, ProcsAssumption DEF OwnerByMap
<1>2. OwnerByMap(x) \in Procs \cup {Nobody}
  BY DEF OwnerByMap, IInv, TypeOK
<1>3. Owner[x] = IF \E p \in Procs : Holds(p, x)
                   THEN CHOOSE p \in Procs : Holds(p, x) ELSE Nobody
  BY DEF Owner
<1>4. CASE OwnerByMap(x) = Nobody
  BY <1>1, <1>3, <1>4, ProcsAssumption
<1>5. CASE OwnerByMap(x) \in Procs
  <2>1. Holds(OwnerByMap(x), x) /\ \A p \in Procs : Holds(p, x) => p = OwnerByMap(x)
    BY <1>1, <1>5
  <2> QED
    BY <1>3, <1>5, <2>1
<1> QED
  BY <1>2, <1>4, <1>5

\* A step after which every path has the same entry mutex holder as before is
\* invisible to the callers' view of the locks.
LEMMA OwnerUnchanged ==
  ASSUME IInv, IInv', \A x \in Paths : OwnerByMap(x)' = OwnerByMap(x)
  PROVE  Owner' = Owner
<1>1. Owner = [x \in Paths |-> OwnerByMap(x)]
  BY OwnerValue
<1>2. (Owner = [x \in Paths |-> OwnerByMap(x)])'
  BY OwnerValue, PTL
<1> QED
  BY <1>1, <1>2

\* A step after which p is the holder at the free path x0, or x0 is free where
\* p was the holder, is an Acquire or a Release.
LEMMA OwnerChanged ==
  ASSUME IInv, IInv', NEW x0 \in Paths, NEW v,
         OwnerByMap(x0)' = v,
         \A x \in Paths : x # x0 => OwnerByMap(x)' = OwnerByMap(x)
  PROVE  /\ Owner' = [Owner EXCEPT ![x0] = v]
         /\ Owner[x0] = OwnerByMap(x0)
<1>1. Owner = [x \in Paths |-> OwnerByMap(x)]
  BY OwnerValue
<1>2. (Owner = [x \in Paths |-> OwnerByMap(x)])'
  BY OwnerValue, PTL
<1> QED
  BY <1>1, <1>2

\* Every step of the locker is an Acquire, a Release or no change of the owners.
LEMMA StepRefines ==
  ASSUME IInv, IInv', [Next]_vars
  PROVE  Abstract!Next \/ Owner' = Owner
<1> USE ProcsAssumption, PathsAssumption, EntriesAssumption
<1> USE DEF IInv, TypeOK, OwnerByMap
<1>1. ASSUME locks' = locks, entryMutex' = entryMutex PROVE Owner' = Owner
  BY <1>1, OwnerUnchanged
<1>2. ASSUME NEW p \in Procs, RegisterNew(p) PROVE Owner' = Owner
  <2>1. at[p] \in Paths /\ locks[at[p]] = Nil
    BY <1>2 DEF RegisterNew, LookupInv, Locking
  <2>2. \A x \in Paths : OwnerByMap(x)' = OwnerByMap(x)
    BY <1>2, <2>1 DEF RegisterNew, Referenced
  <2> QED
    BY <2>2, OwnerUnchanged
<1>3. ASSUME NEW p \in Procs, AcquireEntry(p) PROVE Abstract!Next
  <2>1. PICK x0 \in Paths : x0 = at[p]
    BY <1>3 DEF AcquireEntry, Locking
  <2>2. mine[p][x0] = locks[x0] /\ locks[x0] \in Entries
    BY <1>3, <2>1, RegisteredCounted DEF AcquireEntry, ClosureInv, Registered
  <2>3. /\ OwnerByMap(x0) = Nobody
        /\ OwnerByMap(x0)' = p
        /\ \A x \in Paths : x # x0 => OwnerByMap(x)' = OwnerByMap(x)
    BY <1>3, <2>1, <2>2 DEF AcquireEntry, DistinctInv
  <2>4. Owner[x0] = Nobody /\ Owner' = [Owner EXCEPT ![x0] = p]
    BY <2>3, OwnerChanged
  <2> QED
    BY <2>4 DEF Abstract!Next, Abstract!Acquire
<1>4. ASSUME NEW p \in Procs, UnlockEntry(p) PROVE Abstract!Next
  <2>1. PICK x0 \in Paths : x0 = at[p]
    BY <1>4 DEF UnlockEntry, Unlocking
  <2>2. Granted(p, x0)
    BY <1>4, <2>1 DEF UnlockEntry, ClosureInv, Granted, Registered, Unlocking
  <2>3. mine[p][x0] = locks[x0] /\ locks[x0] \in Entries /\ entryMutex[locks[x0]] = p
    BY <2>2, RegisteredCounted DEF Granted, GrantInv
  <2>4. /\ OwnerByMap(x0) = p
        /\ OwnerByMap(x0)' = Nobody
        /\ \A x \in Paths : x # x0 => OwnerByMap(x)' = OwnerByMap(x)
    BY <1>4, <2>1, <2>3 DEF UnlockEntry, DistinctInv
  <2>5. Owner[x0] = p /\ Owner' = [Owner EXCEPT ![x0] = Nobody]
    BY <2>4, OwnerChanged
  <2> QED
    BY <2>5 DEF Abstract!Next, Abstract!Release
<1>5. ASSUME NEW p \in Procs, Unregister(p) PROVE Owner' = Owner
  <2>1. PICK x0 \in Paths : x0 = at[p]
    BY <1>5 DEF Unregister, LeaveEntry, Unlocking
  <2>2. Registered(p, x0)
    BY <1>5, <2>1 DEF Unregister, LeaveEntry, ClosureInv, Registered, Unlocking
  <2>3. /\ mine[p][x0] = locks[x0]
        /\ locks[x0] \in Entries
        /\ waiters[locks[x0]] = 1 => Registrants(x0) = {p}
    BY <2>2, RegisteredCounted
  <2>4. waiters[locks[x0]] = 1 => entryMutex[locks[x0]] = Nobody
    <3> SUFFICES ASSUME waiters[locks[x0]] = 1, entryMutex[locks[x0]] \in Procs PROVE FALSE
      BY <2>3
    <3>1. PICK y \in Paths : HeldAt(locks[x0], y)
      BY <2>3 DEF HolderInv, HeldVia
    <3>2. y = x0
      BY <2>3, <3>1, RegisteredCounted DEF HeldAt, Granted, DistinctInv
    <3>3. entryMutex[locks[x0]] \in Registrants(x0)
      BY <3>1, <3>2 DEF HeldAt, Granted, Registrants
    <3>4. entryMutex[locks[x0]] = p
      BY <2>3, <3>3
    <3> QED
      BY <1>5, <2>1, <3>1, <3>2, <3>4 DEF HeldAt, Granted, Unregister, LeaveEntry
  <2>5. \A x \in Paths : OwnerByMap(x)' = OwnerByMap(x)
    BY <1>5, <2>1, <2>3, <2>4 DEF Unregister, LeaveEntry
  <2> QED
    BY <2>5, OwnerUnchanged
<1>6. CASE UNCHANGED vars
  BY <1>1, <1>6 DEF vars
<1>7. ASSUME NEW p \in Procs, NEW S \in SUBSET Paths,
             \/ Call(p, S) \/ EnterLocker(p) \/ Lookup(p) \/ RegisterAgain(p)
             \/ Finish(p) \/ LeaveLocker(p)
      PROVE  Owner' = Owner
  BY <1>1, <1>7 DEF Call, EnterLocker, Lookup, RegisterAgain, Finish, LeaveLocker
<1> QED
  BY <1>2, <1>3, <1>4, <1>5, <1>6, <1>7 DEF Next, Step

\* The map of counted entries implements PathMutex: a caller sees one mutex per
\* path, for any number of callers and paths.
THEOREM Refinement == Spec => ImplementsPathMutex
<1>1. Init => Abstract!Init
  <2> SUFFICES ASSUME Init PROVE Owner = [x \in Paths |-> Nobody]
    BY DEF Abstract!Init
  <2> QED
    BY DEF Init, Owner, Holds
<1>2. IInv /\ IInv' /\ [Next]_vars => [Abstract!Next]_Owner
  BY StepRefines
<1> QED
  BY <1>1, <1>2, Invariance, PTL DEF Spec, ImplementsPathMutex, Abstract!Spec
=============================================================================
