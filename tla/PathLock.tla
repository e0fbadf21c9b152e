------------------------------ MODULE PathLock ------------------------------
(***************************************************************************)
(* common.Locker: a map from paths to entries, each a mutex with a count   *)
(* of the callers that hold it or wait for it.  The map is guarded by one  *)
(* short-lived mutex; an entry is created by the first caller of a path    *)
(* and deleted by the last one to leave.  LockMany takes several paths in  *)
(* sorted order and gives them back in the reverse order; Lock(x) is       *)
(* LockMany of the one path x.                                             *)
(*                                                                         *)
(* Paths are numbered by their rank in the order of sort.Strings.  An      *)
(* entry is a heap cell: it can be reused once neither the map nor a       *)
(* caller's closure refers to it.                                          *)
(***************************************************************************)
EXTENDS Integers, FiniteSetsExt

CONSTANTS Procs,        \* goroutines that call Lock or LockMany
          NumPaths,     \* number of different paths they name
          Entries,      \* heap cells for *entry values
          Nil,          \* the nil *entry
          Nobody        \* the holder of an unlocked sync.Mutex

Paths == 1 .. NumPaths

ASSUME ProcsAssumption   == IsFiniteSet(Procs) /\ Nobody \notin Procs
ASSUME PathsAssumption   == NumPaths \in Nat
ASSUME EntriesAssumption == Nil \notin Entries

VARIABLES
    lockerMutex,    \* holder of locker.mutex
    locks,          \* locker.locks: the entry of each path, or Nil
    entryMutex,     \* holder of each entry's mutex
    waiters,        \* waiters field of each entry
    pc,             \* where each goroutine is in Lock or in an unlock
    want,           \* paths of the current LockMany not locked so far
    at,             \* the path of the Lock or unlock call in progress
    mine            \* mine[p][x]: the ent captured by p's Lock(x), or Nil

vars == <<lockerMutex, locks, entryMutex, waiters, pc, want, at, mine>>

Locking    == {"enter", "lookup", "register", "acquire"}
Unlocking  == {"unlock", "leave", "unregister"}
PCs        == Locking \cup Unlocking \cup {"idle", "critical"}

TypeOK ==
    /\ lockerMutex \in Procs \cup {Nobody}
    /\ locks \in [Paths -> Entries \cup {Nil}]
    /\ entryMutex \in [Entries -> Procs \cup {Nobody}]
    /\ waiters \in [Entries -> Nat]
    /\ pc \in [Procs -> PCs]
    /\ want \in [Procs -> SUBSET Paths]
    /\ at \in [Procs -> Paths \cup {0}]
    /\ mine \in [Procs -> [Paths -> Entries \cup {Nil}]]
    /\ \A p \in Procs : pc[p] \in Locking \cup Unlocking => at[p] \in Paths

Init ==
    /\ lockerMutex = Nobody
    /\ locks = [x \in Paths |-> Nil]
    /\ entryMutex = [e \in Entries |-> Nobody]
    /\ waiters = [e \in Entries |-> 0]
    /\ pc = [p \in Procs |-> "idle"]
    /\ want = [p \in Procs |-> {}]
    /\ at = [p \in Procs |-> 0]
    /\ mine = [p \in Procs |-> [x \in Paths |-> Nil]]

-----------------------------------------------------------------------------
\* ent.waiters--; if last, the map entry is deleted; locker.mutex.Unlock();
\* the next unlock of LockMany follows, if there is one.
LeaveEntry(p, last) ==
    /\ pc[p] = "unregister"
    /\ LET x    == at[p]
           rest == {y \in Paths : y # x /\ mine[p][y] # Nil}
       IN  /\ waiters' = [waiters EXCEPT ![mine[p][x]] = @ - 1]
           /\ locks' = IF last THEN [locks EXCEPT ![x] = Nil] ELSE locks
           /\ mine' = [mine EXCEPT ![p][x] = Nil]
           /\ IF rest = {}
                THEN /\ pc' = [pc EXCEPT ![p] = "idle"]
                     /\ UNCHANGED at
                ELSE /\ pc' = [pc EXCEPT ![p] = "unlock"]
                     /\ at' = [at EXCEPT ![p] = Max(rest)]
    /\ lockerMutex' = Nobody
    /\ UNCHANGED <<entryMutex, want>>

-----------------------------------------------------------------------------
(***************************************************************************)
(* Mutants: slips that the code avoids and that a property must catch.     *)
(* Nothing below uses them.                                                *)
(***************************************************************************)
\* No sort.Strings in LockMany: the caller's order decides.
CallUnsorted(p, S) ==
    /\ pc[p] = "idle"
    /\ want' = [want EXCEPT ![p] = S]
    /\ \E x \in S : at' = [at EXCEPT ![p] = x]
    /\ pc' = [pc EXCEPT ![p] = "enter"]
    /\ UNCHANGED <<lockerMutex, locks, entryMutex, waiters, mine>>

\* The map is read without locker.mutex.
EnterLockerUnguarded(p) ==
    /\ pc[p] = "enter"
    /\ lockerMutex' = p
    /\ pc' = [pc EXCEPT ![p] = "lookup"]
    /\ UNCHANGED <<locks, entryMutex, waiters, want, at, mine>>

\* waiters++ only for a new entry.
RegisterAgainUncounted(p) ==
    /\ pc[p] = "register"
    /\ mine[p][at[p]] # Nil
    /\ lockerMutex' = Nobody
    /\ pc' = [pc EXCEPT ![p] = "acquire"]
    /\ UNCHANGED <<locks, entryMutex, waiters, want, at, mine>>

\* LockMany's unlock function lets go of the last path only.
FinishOneOnly(p) ==
    /\ pc[p] = "critical"
    /\ pc' = [pc EXCEPT ![p] = "unlock"]
    /\ LET last == Max({x \in Paths : mine[p][x] # Nil}) IN
         /\ at' = [at EXCEPT ![p] = last]
         /\ mine' = [mine EXCEPT ![p] = [x \in Paths |-> IF x = last THEN @[x] ELSE Nil]]
    /\ UNCHANGED <<lockerMutex, locks, entryMutex, waiters, want>>

\* delete(locker.locks, path) without the test of waiters.
UnregisterAlwaysDeletes(p) == LeaveEntry(p, TRUE)

\* No delete at all: entries pile up in the map.
UnregisterNeverDeletes(p) == LeaveEntry(p, FALSE)

-----------------------------------------------------------------------------
Referenced(e) ==
    \/ \E x \in Paths : locks[x] = e
    \/ \E p \in Procs, x \in Paths : mine[p][x] = e

\* The order in which LockMany locks: the smallest path first.
FirstOf(S) == Min(S)

\* LockMany(paths...): the deduplicated paths, the first of them at hand.
Call(p, S) ==
    /\ pc[p] = "idle"
    /\ S # {}
    /\ want' = [want EXCEPT ![p] = S]
    /\ at' = [at EXCEPT ![p] = FirstOf(S)]
    /\ pc' = [pc EXCEPT ![p] = "enter"]
    /\ UNCHANGED <<lockerMutex, locks, entryMutex, waiters, mine>>

\* locker.mutex.Lock() at the start of Lock.
EnterLocker(p) ==
    /\ pc[p] = "enter"
    /\ lockerMutex = Nobody
    /\ lockerMutex' = p
    /\ pc' = [pc EXCEPT ![p] = "lookup"]
    /\ UNCHANGED <<locks, entryMutex, waiters, want, at, mine>>

\* ent, ok := locker.locks[path]
Lookup(p) ==
    /\ pc[p] = "lookup"
    /\ mine' = [mine EXCEPT ![p][at[p]] = locks[at[p]]]
    /\ pc' = [pc EXCEPT ![p] = "register"]
    /\ UNCHANGED <<lockerMutex, locks, entryMutex, waiters, want, at>>

\* !ok: a new entry goes into the map with waiters = 1; locker.mutex.Unlock().
RegisterNew(p) ==
    /\ pc[p] = "register"
    /\ mine[p][at[p]] = Nil
    /\ \E e \in Entries :
         /\ ~Referenced(e)
         /\ locks' = [locks EXCEPT ![at[p]] = e]
         /\ mine' = [mine EXCEPT ![p][at[p]] = e]
         /\ waiters' = [waiters EXCEPT ![e] = 1]
         /\ entryMutex' = [entryMutex EXCEPT ![e] = Nobody]
    /\ lockerMutex' = Nobody
    /\ pc' = [pc EXCEPT ![p] = "acquire"]
    /\ UNCHANGED <<want, at>>

\* ok: ent.waiters++; locker.mutex.Unlock().
RegisterAgain(p) ==
    /\ pc[p] = "register"
    /\ mine[p][at[p]] # Nil
    /\ waiters' = [waiters EXCEPT ![mine[p][at[p]]] = @ + 1]
    /\ lockerMutex' = Nobody
    /\ pc' = [pc EXCEPT ![p] = "acquire"]
    /\ UNCHANGED <<locks, entryMutex, want, at, mine>>

\* ent.mutex.Lock(); Lock returns and LockMany goes on to the next path.
AcquireEntry(p) ==
    /\ pc[p] = "acquire"
    /\ entryMutex[mine[p][at[p]]] = Nobody
    /\ entryMutex' = [entryMutex EXCEPT ![mine[p][at[p]]] = p]
    /\ want' = [want EXCEPT ![p] = @ \ {at[p]}]
    /\ LET rest == want[p] \ {at[p]} IN
         IF rest = {}
           THEN /\ pc' = [pc EXCEPT ![p] = "critical"]
                /\ UNCHANGED at
           ELSE /\ pc' = [pc EXCEPT ![p] = "enter"]
                /\ at' = [at EXCEPT ![p] = FirstOf(rest)]
    /\ UNCHANGED <<lockerMutex, locks, waiters, mine>>

\* The caller runs its deferred unlock, which starts with the last path locked.
Finish(p) ==
    /\ pc[p] = "critical"
    /\ pc' = [pc EXCEPT ![p] = "unlock"]
    /\ at' = [at EXCEPT ![p] = Max({x \in Paths : mine[p][x] # Nil})]
    /\ UNCHANGED <<lockerMutex, locks, entryMutex, waiters, want, mine>>

\* ent.mutex.Unlock()
UnlockEntry(p) ==
    /\ pc[p] = "unlock"
    /\ entryMutex' = [entryMutex EXCEPT ![mine[p][at[p]]] = Nobody]
    /\ pc' = [pc EXCEPT ![p] = "leave"]
    /\ UNCHANGED <<lockerMutex, locks, waiters, want, at, mine>>

\* locker.mutex.Lock() in the unlock function.
LeaveLocker(p) ==
    /\ pc[p] = "leave"
    /\ lockerMutex = Nobody
    /\ lockerMutex' = p
    /\ pc' = [pc EXCEPT ![p] = "unregister"]
    /\ UNCHANGED <<locks, entryMutex, waiters, want, at, mine>>

\* The last one to leave deletes the map entry.
Unregister(p) == LeaveEntry(p, waiters[mine[p][at[p]]] = 1)

Step(p) ==
    \/ EnterLocker(p) \/ Lookup(p) \/ RegisterNew(p) \/ RegisterAgain(p)
    \/ AcquireEntry(p) \/ Finish(p) \/ UnlockEntry(p) \/ LeaveLocker(p)
    \/ Unregister(p)

Next == \E p \in Procs : Step(p) \/ \E S \in SUBSET Paths : Call(p, S)

Spec == Init /\ [][Next]_vars

\* A goroutine that can run is run and a handler returns.  The fairness is
\* strong because sync.Mutex hands the lock to a waiter that keeps losing the
\* race for it (its starvation mode); only at a mutex can Step(p) be disabled.
Fairness == \A p \in Procs : SF_vars(Step(p))

FairSpec == Spec /\ Fairness

-----------------------------------------------------------------------------
\* p is between Lock(x) and the Unlock of its entry.
Holds(p, x) == mine[p][x] # Nil /\ entryMutex[mine[p][x]] = p

\* p is counted in the waiters of the entry that it captured for x.
Registered(p, x) ==
    /\ mine[p][x] # Nil
    /\ ~(pc[p] = "register" /\ at[p] = x)

Registrants(x) == {p \in Procs : Registered(p, x)}

\* p cannot move before q gives something back.
WaitsFor(p, q) ==
    \/ pc[p] = "acquire" /\ entryMutex[mine[p][at[p]]] = q
    \/ pc[p] \in {"enter", "leave"} /\ lockerMutex = q

\* Two callers never hold the same path, although the entry that makes them
\* exclude each other is deleted and created again while callers come and go
\* (Lock and its unlock function).
MutualExclusion ==
    \A p, q \in Procs : \A x \in Paths : Holds(p, x) /\ Holds(q, x) => p = q

\* The entry of a path is in the map exactly as long as some caller has
\* registered for the path and not left, it is the entry which all of them
\* captured, and waiters counts them: no entry is deleted under a waiter and
\* none stays behind when the last caller has left.
MapExact ==
    \A x \in Paths :
       /\ locks[x] = Nil <=> Registrants(x) = {}
       /\ locks[x] # Nil => waiters[locks[x]] = Cardinality(Registrants(x))
       /\ \A p \in Registrants(x) : mine[p][x] = locks[x]

\* No group of callers waits in a circle, whatever sets of paths they lock
\* (LockMany sorts; the locker mutex is never held across a wait).
NoCircularWait ==
    \A S \in (SUBSET Procs) \ {{}} :
       \E p \in S : \A q \in S : ~WaitsFor(p, q)

\* The owner of each path as a caller of Lock sees it.
Owner ==
    [x \in Paths |->
        IF \E p \in Procs : Holds(p, x)
          THEN CHOOSE p \in Procs : Holds(p, x)
          ELSE Nobody]

Abstract == INSTANCE PathMutex WITH owner <- Owner

\* The map of entries implements one mutex per path: a path changes hands only
\* by Acquire of a free path and Release by its owner.
ImplementsPathMutex == Abstract!Spec

\* Every Lock or LockMany call returns in the end.
LockReturns == \A p \in Procs : pc[p] = "enter" ~> pc[p] = "critical"

=============================================================================
