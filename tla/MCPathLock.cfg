SPECIFICATION FairSpec
CONSTANTS
  Procs = {p1, p2, p3}
  NumPaths = 2
  Entries = {e1, e2}
  Nil = Nil
  Nobody = Nobody
INVARIANTS
  TypeOK
  MutualExclusion
  MapExact
  NoCircularWait
PROPERTIES
  ImplementsPathMutex
  LockReturns
