----------------------------- MODULE PathMutex -----------------------------
(***************************************************************************)
(* What common.Locker promises its callers: every path has at most one     *)
(* owner, a path is taken only when it is free, and only its owner gives   *)
(* it back.  PathLock shows that the map of counted entries implements     *)
(* this specification; NoteService locks its files with these actions.     *)
(***************************************************************************)

CONSTANTS Procs,    \* the callers: goroutines serving a request
          Paths,    \* the strings passed to Lock
          Nobody    \* the owner of a free path

VARIABLE owner      \* owner[x] is the caller between Lock(x) and its unlock

TypeOK == owner \in [Paths -> Procs \cup {Nobody}]

Init == owner = [x \in Paths |-> Nobody]

\* Lock(x) returns to p.
Acquire(p, x) ==
    /\ owner[x] = Nobody
    /\ owner' = [owner EXCEPT ![x] = p]

\* p calls the function that Lock(x) returned.
Release(p, x) ==
    /\ owner[x] = p
    /\ owner' = [owner EXCEPT ![x] = Nobody]

Next == \E p \in Procs, x \in Paths : Acquire(p, x) \/ Release(p, x)

Spec == Init /\ [][Next]_owner
=============================================================================
