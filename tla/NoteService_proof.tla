------------------------- MODULE NoteService_proof -------------------------
(***************************************************************************)
(* Safety of NoteService for every set of handlers, ids and contents and   *)
(* every number of titles.                                                 *)
(***************************************************************************)
EXTENDS NoteService, TLAPS

CreatePCs == {"sentinel", "fill", "statCreated", "insert"}
UpdatePCs == {"statOld", "rename", "write", "statNew", "update"}
DeletePCs == {"remove", "delete"}
LockedPCs == CreatePCs \cup UpdatePCs \cup DeletePCs

\* What a handler at a given point knows of its request.
RequestOf(h) ==
    /\ pc[h] \in CreatePCs => req[h].op = "create"
    /\ pc[h] \in UpdatePCs => req[h].op = "update"
    /\ pc[h] \in DeletePCs => req[h].op = "delete"
    /\ pc[h] = "lock" => req[h].op \in {"create", "update", "delete"}
    /\ pc[h] = "read" => req[h].op = "get"
    /\ pc[h] = "query" => req[h].op \in {"update", "delete", "get"}
    /\ pc[h] = "idle" => req[h] = NoRequest
    /\ req[h].op \in {"create", "update"} => req[h].title \in Titles /\ req[h].content \in Contents
    /\ req[h].op \in {"create", "update", "delete", "get"} => req[h].id \in used
    /\ req[h].op \in {"none", "list"} => req[h].id = None
    /\ pc[h] \in {"lock", "read"} \cup LockedPCs => from[h] \in Titles
    /\ req[h].op = "create" => from[h] = req[h].title
    /\ pc[h] = "rename" => Renames(h)

RequestInv == \A h \in Handlers : RequestOf(h)

\* A handler owns only paths that it wanted to lock, and all of them while it
\* works on the files.
LockOf(h) ==
    /\ \A x \in NotePaths :
          owner[x] = h => pc[h] \in {"lock", "done"} \cup LockedPCs /\ x \in Wanted(h)
    /\ pc[h] \in LockedPCs => \A x \in Wanted(h) : owner[x] = h
    /\ pc[h] = "lock" => \E x \in Wanted(h) : owner[x] # h

LockInv == \A h \in Handlers : LockOf(h)

\* A note that is not created yet has no row and no file.
FreshIds ==
    \A id \in Ids \ used : rows[id] = None /\ \A t \in Titles : files[NotePath(t, id)] = None

\* While CreateNote makes a note, no other handler gets past the query for it;
\* before the sentinel the note has no file.
FreshOf(h) ==
    req[h].op = "create" /\ pc[h] \in {"lock"} \cup CreatePCs =>
       /\ rows[req[h].id] = None
       /\ \A g \in Handlers : g # h /\ req[g].id = req[h].id => pc[g] \in {"query", "done"}
       /\ pc[h] \in {"lock", "sentinel"} => \A t \in Titles : files[NotePath(t, req[h].id)] = None

FreshInv == FreshIds /\ \A h \in Handlers : FreshOf(h)

\* The file that a handler has created or moved is where it left it.
FileOf(h) ==
    /\ pc[h] = "fill" => files[OldPath(h)] = Sentinel
    /\ pc[h] \in {"statCreated", "insert"} => files[OldPath(h)] = req[h].content
    /\ pc[h] \in {"write", "statNew", "update"} => files[NewPath(h)] # None

FileInv == \A h \in Handlers : FileOf(h)

IInv ==
    /\ TypeOK
    /\ RequestInv
    /\ LockInv
    /\ FreshInv
    /\ FileInv
    /\ AtMostOneFile
    /\ SentinelNeverRead

-----------------------------------------------------------------------------
\* LockMany and its unlock always have a path to go to next.
LEMMA EndPaths ==
  ASSUME NEW x \in NotePaths, NEW y \in NotePaths, NEW S \in SUBSET {x, y}, S # {}
  PROVE  FirstPath(S) \in S /\ LastPath(S) \in S
<1>1. x[1] \in Int /\ y[1] \in Int
  BY TitlesAssumption DEF NotePaths, Titles
<1>2. \E z \in S : \A w \in S : z[1] <= w[1]
  BY <1>1
<1>3. \E z \in S : \A w \in S : z[1] >= w[1]
  BY <1>1
<1> QED
  BY <1>2, <1>3 DEF FirstPath, LastPath

\* The paths of a handler are paths of its note.
LEMMA WantedPaths ==
  ASSUME TypeOK, RequestInv, NEW h \in Handlers,
         req[h].op \in {"create", "update", "delete"},
         from[h] \in Titles
  PROVE  /\ req[h].id \in Ids
         /\ OldPath(h) \in NotePaths
         /\ Wanted(h) \subseteq NotePaths
         /\ req[h].op # "delete" => NewPath(h) \in NotePaths
<1>1. req[h].id \in Ids
  BY DEF TypeOK, RequestInv, RequestOf
<1> QED
  BY <1>1 DEF RequestInv, RequestOf, Wanted, OldPath, NewPath, NotePath, NotePaths

\* A handler that is locking takes a path that it wants and does not own.
LEMMA LockNextPath ==
  ASSUME IInv, NEW h \in Handlers, pc[h] = "lock"
  PROVE  LET missing == {x \in Wanted(h) : owner[x] # h} IN
           /\ FirstPath(missing) \in missing
           /\ FirstPath(missing) \in NotePaths
<1> DEFINE missing == {x \in Wanted(h) : owner[x] # h}
<1>1. req[h].op \in {"create", "update", "delete"} /\ from[h] \in Titles
  BY DEF IInv, RequestInv, RequestOf
<1>2. OldPath(h) \in NotePaths /\ Wanted(h) \subseteq NotePaths
  BY <1>1, WantedPaths DEF IInv
<1>3. missing # {}
  BY DEF IInv, LockInv, LockOf
<1>4. PICK y \in NotePaths : missing \subseteq {OldPath(h), y}
  <2>1. CASE req[h].op = "delete"
    BY <1>2, <2>1 DEF Wanted
  <2>2. CASE req[h].op # "delete"
    BY <1>1, <2>2, WantedPaths DEF Wanted, IInv
  <2> QED
    BY <2>1, <2>2
<1>5. FirstPath(missing) \in missing
  BY <1>2, <1>3, <1>4, EndPaths
<1> QED
  BY <1>2, <1>5

\* A row made from a valid title and content.
LEMMA RowType ==
  ASSUME NEW t \in Titles, NEW c \in Contents
  PROVE  [title |-> t, preview |-> Preview(c)] \in Rows
  BY DEF Rows

\* Every step keeps the types of the state.
LEMMA TypeOKStep == IInv /\ [Next]_vars => TypeOK'
<1> SUFFICES ASSUME IInv, [Next]_vars PROVE TypeOK'
  OBVIOUS
<1> USE HandlersAssumption, IdsAssumption, TitlesAssumption, ContentsAssumption DEF IInv, TypeOK, Locks!TypeOK, PCs, Replies
<1>1. CASE UNCHANGED vars
  BY <1>1 DEF vars
<1>2. CASE Crash
  BY <1>2 DEF Crash, NoRequest, ById
<1>3. ASSUME NEW h \in Handlers, BeginCreate(h) PROVE TypeOK'
  BY <1>3 DEF BeginCreate, Begin, Idle, Goto, ById
<1>4. ASSUME NEW h \in Handlers, BeginUpdate(h) PROVE TypeOK'
  BY <1>4 DEF BeginUpdate, Begin, Idle, Goto, ById
<1>5. ASSUME NEW h \in Handlers, BeginDelete(h) PROVE TypeOK'
  BY <1>5 DEF BeginDelete, Begin, Idle, Goto, ById
<1>6. ASSUME NEW h \in Handlers, BeginGet(h) PROVE TypeOK'
  BY <1>6 DEF BeginGet, Begin, Idle, Goto, ById
<1>7. ASSUME NEW h \in Handlers, BeginList(h) PROVE TypeOK'
  BY <1>7 DEF BeginList, Begin, Idle, Goto, ById
<1>8. ASSUME NEW h \in Handlers, Refuse(h) PROVE TypeOK'
  BY <1>8 DEF Refuse, Idle, Return, Stores, Call
<1>9. ASSUME NEW h \in Handlers, LockNext(h) PROVE TypeOK'
  <2>1. req[h].op \in {"create", "update", "delete"}
    BY <1>9 DEF LockNext, At, RequestInv, RequestOf
  <2> DEFINE first == FirstPath({x \in Wanted(h) : owner[x] # h})
  <2>2. first \in NotePaths
    BY <1>9, LockNextPath DEF LockNext, At
  <2>3. owner' = [owner EXCEPT ![first] = h] /\ UNCHANGED <<rows, files, used, req, from, todo, listed>>
    BY <1>9 DEF LockNext, Stores, Call, Locks!Acquire
  <2>4. \/ UNCHANGED <<pc, reply>>
        \/ pc' = [pc EXCEPT ![h] = AfterLock(req[h].op)] /\ UNCHANGED reply
    BY <1>9 DEF LockNext, Goto
  <2>5. AfterLock(req[h].op) \in PCs
    BY <2>1 DEF AfterLock
  <2> HIDE DEF first
  <2> QED
    BY <2>2, <2>3, <2>4, <2>5
<1>10. ASSUME NEW h \in Handlers, UnlockNext(h) PROVE TypeOK'
  BY <1>10 DEF UnlockNext, At, Stores, Call, Locks!Release
<1>11. ASSUME NEW h \in Handlers, Respond(h) PROVE TypeOK'
  BY <1>11 DEF Respond, At, Stores, NoRequest, ById
<1>12. ASSUME NEW h \in Handlers, OpenSentinel(h) PROVE TypeOK'
  BY <1>12 DEF OpenSentinel, At, Return, Goto, Fails, Stores, Call
<1>13. ASSUME NEW h \in Handlers, FillSentinel(h) PROVE TypeOK'
  <2>1. OldPath(h) \in NotePaths /\ req[h].content \in Contents
    BY <1>13, WantedPaths DEF FillSentinel, At, RequestInv, RequestOf, LockedPCs, CreatePCs
  <2>2. files' \in [NotePaths -> Contents \cup {Sentinel, None}]
    BY <1>13, <2>1 DEF FillSentinel
  <2>3. /\ pc' \in [Handlers -> PCs] /\ reply' \in [Handlers -> Replies \cup {None}]
        /\ UNCHANGED <<rows, owner, used, req, from, todo, listed>>
    BY <1>13 DEF FillSentinel, Return, Goto, Call
  <2> QED
    BY <2>2, <2>3
<1>14. ASSUME NEW h \in Handlers, StatCreated(h) PROVE TypeOK'
  BY <1>14 DEF StatCreated, At, Return, Goto, Fails, Stores, Call
<1>15. ASSUME NEW h \in Handlers, InsertNote(h) PROVE TypeOK'
  <2>1. /\ req[h].id \in Ids /\ OldPath(h) \in NotePaths
        /\ [title |-> req[h].title, preview |-> Preview(req[h].content)] \in Rows
    BY <1>15, WantedPaths, RowType DEF InsertNote, At, RequestInv, RequestOf, LockedPCs, CreatePCs
  <2>2. rows' \in [Ids -> Rows \cup {None}]
    BY <1>15, <2>1 DEF InsertNote, Stores
  <2>3. files' \in [NotePaths -> Contents \cup {Sentinel, None}]
    BY <1>15, <2>1 DEF InsertNote, Stores
  <2>4. /\ pc' \in [Handlers -> PCs] /\ reply' \in [Handlers -> Replies \cup {None}]
        /\ UNCHANGED <<owner, used, req, from, todo, listed>>
    BY <1>15 DEF InsertNote, Return, Call
  <2> QED
    BY <2>2, <2>3, <2>4
<1>16. ASSUME NEW h \in Handlers, QueryRow(h) PROVE TypeOK'
  <2>1. req[h].id \in Ids
    BY <1>16 DEF QueryRow, At, RequestInv, RequestOf
  <2>2. rows[req[h].id] # None => rows[req[h].id].title \in Titles
    BY <2>1 DEF Rows
  <2> QED
    BY <1>16, <2>2 DEF QueryRow, Return, Goto, Stores
<1>17. ASSUME NEW h \in Handlers, StatOld(h) PROVE TypeOK'
  BY <1>17 DEF StatOld, At, Return, Goto, Fails, Stores, Call
<1>18. ASSUME NEW h \in Handlers, RenameFile(h) PROVE TypeOK'
  <2>1. /\ req[h].id \in Ids /\ OldPath(h) \in NotePaths /\ NewPath(h) \in NotePaths
        /\ req[h].content \in Contents /\ req[h].title \in Titles
    BY <1>18, WantedPaths DEF RenameFile, At, RequestInv, RequestOf, LockedPCs, CreatePCs, UpdatePCs
  <2> QED
    BY <1>18, <2>1 DEF RenameFile, At, Return, Goto, Fails, Stores, Call, Moved
<1>19. ASSUME NEW h \in Handlers, WriteFile(h) PROVE TypeOK'
  <2>1. /\ req[h].id \in Ids /\ OldPath(h) \in NotePaths /\ NewPath(h) \in NotePaths
        /\ req[h].content \in Contents /\ req[h].title \in Titles
    BY <1>19, WantedPaths DEF WriteFile, At, RequestInv, RequestOf, LockedPCs, CreatePCs, UpdatePCs
  <2>2. files' \in [NotePaths -> Contents \cup {Sentinel, None}]
    BY <1>19, <2>1 DEF WriteFile, UndoRename, Moved
  <2>3. /\ pc' \in [Handlers -> PCs] /\ reply' \in [Handlers -> Replies \cup {None}]
        /\ UNCHANGED <<rows, owner, used, req, from, todo, listed>>
    BY <1>19 DEF WriteFile, Return, Goto, Call
  <2> QED
    BY <2>2, <2>3
<1>20. ASSUME NEW h \in Handlers, StatNew(h) PROVE TypeOK'
  BY <1>20 DEF StatNew, At, Return, Goto, Fails, Stores, Call
<1>21. ASSUME NEW h \in Handlers, UpdateRow(h) PROVE TypeOK'
  <2>1. /\ req[h].id \in Ids /\ OldPath(h) \in NotePaths /\ NewPath(h) \in NotePaths
        /\ [title |-> req[h].title, preview |-> Preview(req[h].content)] \in Rows
    BY <1>21, WantedPaths, RowType DEF UpdateRow, At, RequestInv, RequestOf, LockedPCs, UpdatePCs
  <2>2. rows' \in [Ids -> Rows \cup {None}]
    BY <1>21, <2>1 DEF UpdateRow, Stores
  <2>3. files' \in [NotePaths -> Contents \cup {Sentinel, None}]
    <3>1. \/ files' = Moved(NewPath(h), OldPath(h))
          \/ files' = files
      BY <1>21 DEF UpdateRow, UndoRename, Stores
    <3> QED
      BY <2>1, <3>1 DEF Moved
  <2>4. /\ pc' \in [Handlers -> PCs] /\ reply' \in [Handlers -> Replies \cup {None}]
        /\ UNCHANGED <<owner, used, req, from, todo, listed>>
    BY <1>21 DEF UpdateRow, Return, Call
  <2> QED
    BY <2>2, <2>3, <2>4
<1>22. ASSUME NEW h \in Handlers, RemoveFile(h) PROVE TypeOK'
  BY <1>22 DEF RemoveFile, At, Return, Goto, Fails, Stores, Call
<1>23. ASSUME NEW h \in Handlers, DeleteRow(h) PROVE TypeOK'
  BY <1>23 DEF DeleteRow, At, Return, Goto, Fails, Stores, Call
<1>24. ASSUME NEW h \in Handlers, ReadFile(h) PROVE TypeOK'
  BY <1>24 DEF ReadFile, At, Return, Goto, Fails, Stores, Call
<1>25. ASSUME NEW h \in Handlers, ListQuery(h) PROVE TypeOK'
  <2>1. {NotePath(rows[i].title, i) : i \in {j \in Ids : rows[j] # None}} \in SUBSET NotePaths
    BY DEF Rows, NotePath, NotePaths
  <2>2. todo' \in [Handlers -> SUBSET NotePaths]
    BY <1>25, <2>1 DEF ListQuery
  <2>3. /\ pc' \in [Handlers -> PCs] /\ reply' \in [Handlers -> Replies \cup {None}]
        /\ UNCHANGED <<rows, files, owner, used, req, from, listed>>
    BY <1>25 DEF ListQuery, Return, Goto, Stores
  <2> QED
    BY <2>2, <2>3
<1>26. ASSUME NEW h \in Handlers, ListRead(h) PROVE TypeOK'
  <2>1. \A x \in todo[h] : x[2] \in Ids
    BY DEF NotePaths
  <2>2. /\ todo' \in [Handlers -> SUBSET NotePaths]
        /\ listed' \in [Handlers -> SUBSET Ids]
    <3>1. ASSUME NEW x \in todo[h],
                 todo' = [todo EXCEPT ![h] = @ \ {x}],
                 listed' = [listed EXCEPT ![h] = IF files[x] = None THEN @ ELSE @ \cup {x[2]}]
          PROVE  /\ todo' \in [Handlers -> SUBSET NotePaths]
                 /\ listed' \in [Handlers -> SUBSET Ids]
      BY <2>1, <3>1
    <3>2. CASE UNCHANGED <<todo, listed>>
      BY <3>2
    <3> QED
      BY <1>26, <3>1, <3>2 DEF ListRead
  <2>3. /\ pc' \in [Handlers -> PCs] /\ reply' \in [Handlers -> Replies \cup {None}]
        /\ UNCHANGED <<rows, files, owner, used, req, from>>
    BY <1>26 DEF ListRead, Return, Stores
  <2> QED
    BY <2>2, <2>3
<1> QED
  BY <1>1, <1>2, <1>3, <1>4, <1>5, <1>6, <1>7, <1>8, <1>9, <1>10, <1>11,
     <1>12, <1>13, <1>14, <1>15, <1>16, <1>17, <1>18, <1>19, <1>20, <1>21,
     <1>22, <1>23, <1>24, <1>25, <1>26 DEF Next, Request, Step

\* Every step leaves each handler with a request that fits its next call.
LEMMA RequestStep == IInv /\ [Next]_vars => RequestInv'
<1> SUFFICES ASSUME IInv, [Next]_vars PROVE RequestInv'
  OBVIOUS
<1> USE HandlersAssumption, IdsAssumption, TitlesAssumption, ContentsAssumption
    DEF IInv, TypeOK, PCs, RequestInv, RequestOf, Renames, LockedPCs, CreatePCs, UpdatePCs, DeletePCs
<1>1. CASE UNCHANGED vars
  BY <1>1 DEF vars
<1>2. CASE Crash
  BY <1>2 DEF Crash, NoRequest, ById
<1>3. ASSUME NEW h \in Handlers, BeginCreate(h) PROVE RequestInv'
  BY <1>3 DEF BeginCreate, Begin, Idle, Goto
<1>4. ASSUME NEW h \in Handlers, BeginUpdate(h) PROVE RequestInv'
  BY <1>4 DEF BeginUpdate, Begin, Idle, Goto
<1>5. ASSUME NEW h \in Handlers, BeginDelete(h) PROVE RequestInv'
  BY <1>5 DEF BeginDelete, Begin, Idle, Goto, ById
<1>6. ASSUME NEW h \in Handlers, BeginGet(h) PROVE RequestInv'
  BY <1>6 DEF BeginGet, Begin, Idle, Goto, ById
<1>7. ASSUME NEW h \in Handlers, BeginList(h) PROVE RequestInv'
  BY <1>7 DEF BeginList, Begin, Idle, Goto, ById
<1>8. ASSUME NEW h \in Handlers, Refuse(h) PROVE RequestInv'
  BY <1>8 DEF Refuse, Idle, Return, Call, Stores
<1>9. ASSUME NEW h \in Handlers, LockNext(h) PROVE RequestInv'
  <2>1. /\ AfterLock(req[h].op) \in LockedPCs \ {"rename"}
        /\ AfterLock(req[h].op) \in CreatePCs => req[h].op = "create"
        /\ AfterLock(req[h].op) \in UpdatePCs => req[h].op = "update"
        /\ AfterLock(req[h].op) \in DeletePCs => req[h].op = "delete"
    BY <1>9 DEF LockNext, At, AfterLock
  <2>2. UNCHANGED <<req, from, used>>
    BY <1>9 DEF LockNext, Call
  <2>3. pc' = pc \/ pc' = [pc EXCEPT ![h] = AfterLock(req[h].op)]
    BY <1>9 DEF LockNext, Goto
  <2> QED
    BY <1>9, <2>1, <2>2, <2>3 DEF LockNext, At
<1>10. ASSUME NEW h \in Handlers, UnlockNext(h) PROVE RequestInv'
  BY <1>10 DEF UnlockNext, At, Goto, Return, Call, Stores
<1>11. ASSUME NEW h \in Handlers, Respond(h) PROVE RequestInv'
  BY <1>11 DEF Respond, At, NoRequest, ById, Stores
<1>12. ASSUME NEW h \in Handlers, OpenSentinel(h) PROVE RequestInv'
  BY <1>12 DEF OpenSentinel, At, Goto, Return, Call, Stores
<1>13. ASSUME NEW h \in Handlers, FillSentinel(h) PROVE RequestInv'
  BY <1>13 DEF FillSentinel, At, Goto, Return, Call, Stores
<1>14. ASSUME NEW h \in Handlers, StatCreated(h) PROVE RequestInv'
  BY <1>14 DEF StatCreated, At, Goto, Return, Call, Stores
<1>15. ASSUME NEW h \in Handlers, InsertNote(h) PROVE RequestInv'
  BY <1>15 DEF InsertNote, At, Goto, Return, Call, Stores
<1>16. ASSUME NEW h \in Handlers, QueryRow(h) PROVE RequestInv'
  <2>1. req[h].id \in Ids
    BY <1>16 DEF QueryRow, At
  <2>2. rows[req[h].id] # None => rows[req[h].id].title \in Titles
    BY <2>1 DEF Rows
  <2> QED
    BY <1>16, <2>2 DEF QueryRow, At, Return, Goto
<1>17. ASSUME NEW h \in Handlers, StatOld(h) PROVE RequestInv'
  BY <1>17 DEF StatOld, At, Goto, Return, Call, Stores
<1>18. ASSUME NEW h \in Handlers, RenameFile(h) PROVE RequestInv'
  BY <1>18 DEF RenameFile, At, Goto, Return, Call, Stores
<1>19. ASSUME NEW h \in Handlers, WriteFile(h) PROVE RequestInv'
  BY <1>19 DEF WriteFile, At, Goto, Return, Call, Stores
<1>20. ASSUME NEW h \in Handlers, StatNew(h) PROVE RequestInv'
  BY <1>20 DEF StatNew, At, Goto, Return, Call, Stores
<1>21. ASSUME NEW h \in Handlers, UpdateRow(h) PROVE RequestInv'
  BY <1>21 DEF UpdateRow, At, Goto, Return, Call, Stores
<1>22. ASSUME NEW h \in Handlers, RemoveFile(h) PROVE RequestInv'
  BY <1>22 DEF RemoveFile, At, Goto, Return, Call, Stores
<1>23. ASSUME NEW h \in Handlers, DeleteRow(h) PROVE RequestInv'
  BY <1>23 DEF DeleteRow, At, Goto, Return, Call, Stores
<1>24. ASSUME NEW h \in Handlers, ReadFile(h) PROVE RequestInv'
  BY <1>24 DEF ReadFile, At, Goto, Return, Call, Stores
<1>25. ASSUME NEW h \in Handlers, ListQuery(h) PROVE RequestInv'
  BY <1>25 DEF ListQuery, At, Goto, Return, Call, Stores
<1>26. ASSUME NEW h \in Handlers, ListRead(h) PROVE RequestInv'
  BY <1>26 DEF ListRead, At, Goto, Return, Call, Stores
<1> QED
  BY <1>1, <1>2, <1>3, <1>4, <1>5, <1>6, <1>7, <1>8, <1>9, <1>10, <1>11,
     <1>12, <1>13, <1>14, <1>15, <1>16, <1>17, <1>18, <1>19, <1>20, <1>21,
     <1>22, <1>23, <1>24, <1>25, <1>26
     DEF Next, Request, Step

\* LockNext takes a free path that the handler wants; it goes on when the path
\* was the last one.
LEMMA LockNextEffect ==
  ASSUME IInv, NEW h \in Handlers, LockNext(h)
  PROVE  \E x \in Wanted(h) :
           /\ x \in NotePaths /\ owner[x] = None
           /\ owner' = [owner EXCEPT ![x] = h]
           /\ \/ /\ pc' = [pc EXCEPT ![h] = AfterLock(req[h].op)]
                 /\ \A y \in Wanted(h) : owner[y] = h \/ y = x
              \/ /\ pc' = pc
                 /\ \E y \in Wanted(h) : owner[y] # h /\ y # x
<1> DEFINE missing == {x \in Wanted(h) : owner[x] # h}
           first   == FirstPath(missing)
<1>1. first \in missing /\ first \in NotePaths
  BY LockNextPath DEF LockNext, At
<1>2. owner[first] = None /\ owner' = [owner EXCEPT ![first] = h]
  BY DEF LockNext, Locks!Acquire
<1>3. CASE missing = {first}
  <2>1. pc' = [pc EXCEPT ![h] = AfterLock(req[h].op)]
    BY <1>3 DEF LockNext, Goto
  <2>2. \A y \in Wanted(h) : owner[y] = h \/ y = first
    BY <1>3
  <2> QED
    BY <1>1, <1>2, <2>1, <2>2
<1>4. CASE missing # {first}
  <2>1. pc' = pc
    BY <1>4 DEF LockNext
  <2>2. PICK y \in missing : y # first
    BY <1>1, <1>4
  <2> QED
    BY <1>1, <1>2, <2>1, <2>2
<1> QED
  BY <1>3, <1>4

\* UnlockNext gives up a path that the handler owns.
LEMMA UnlockNextEffect ==
  ASSUME IInv, NEW h \in Handlers, UnlockNext(h)
  PROVE  \E x \in NotePaths : owner[x] = h /\ owner' = [owner EXCEPT ![x] = None]
<1> DEFINE last == LastPath(Held(h))
<1>1. owner[last] = h /\ owner' = [owner EXCEPT ![last] = None]
  BY DEF UnlockNext, Locks!Release
<1>2. PICK z \in NotePaths : owner[z] = h
  BY DEF UnlockNext, Held
<1>3. Held(h) \subseteq NotePaths /\ Held(h) \subseteq {OldPath(h), NewPath(h)}
  BY DEF Held, IInv, LockInv, LockOf, Wanted
<1>4. PICK x \in NotePaths, y \in NotePaths : Held(h) \subseteq {x, y}
  <2> DEFINE x == IF OldPath(h) \in NotePaths THEN OldPath(h) ELSE z
             y == IF NewPath(h) \in NotePaths THEN NewPath(h) ELSE z
  <2>1. x \in NotePaths /\ y \in NotePaths /\ Held(h) \subseteq {x, y}
    BY <1>2, <1>3
  <2> QED
    BY <2>1
<1>5. last \in Held(h)
  <2>1. z \in Held(h)
    BY <1>2 DEF Held
  <2> QED
    BY <1>4, <2>1, EndPaths
<1> QED
  BY <1>1, <1>3, <1>5

\* Every step leaves each handler with the paths that its next call needs.
LEMMA LockStep == IInv /\ [Next]_vars => LockInv'
<1> SUFFICES ASSUME IInv, [Next]_vars PROVE LockInv'
  OBVIOUS
<1> USE HandlersAssumption, IdsAssumption
    DEF IInv, TypeOK, Locks!TypeOK, LockInv, LockOf, LockedPCs, CreatePCs, UpdatePCs, DeletePCs
<1>1. CASE UNCHANGED vars
  BY <1>1 DEF vars, Wanted, OldPath, NewPath, NotePath
<1>2. CASE Crash
  BY <1>2 DEF Crash, NoRequest, ById, Wanted, OldPath, NewPath, NotePath
<1>3. ASSUME NEW h \in Handlers, BeginCreate(h) PROVE LockInv'
  <2>1. PICK id \in Ids, t \in Titles, c \in Contents :
          /\ Idle(h)
          /\ req' = [req EXCEPT ![h] = [op |-> "create", id |-> id, title |-> t, content |-> c]]
          /\ from' = [from EXCEPT ![h] = t] /\ pc' = [pc EXCEPT ![h] = "lock"]
          /\ UNCHANGED owner
    BY <1>3 DEF BeginCreate, Begin, Goto
  <2>2. Wanted(h)' = {<<t, id>>} /\ <<t, id>> \in NotePaths
    BY <2>1 DEF Wanted, OldPath, NewPath, NotePath, NotePaths
  <2>3. \A x \in NotePaths : owner[x] # h
    BY <2>1 DEF Idle
  <2>4. \A g \in Handlers : g # h => Wanted(g)' = Wanted(g)
    BY <2>1 DEF Wanted, OldPath, NewPath, NotePath
  <2>5. LockOf(h)'
    BY <2>1, <2>2, <2>3
  <2> QED
    BY <2>1, <2>4, <2>5
<1>4. ASSUME NEW h \in Handlers, BeginUpdate(h) PROVE LockInv'
  BY <1>4 DEF BeginUpdate, Begin, Idle, Goto, Wanted, OldPath, NewPath, NotePath
<1>5. ASSUME NEW h \in Handlers, BeginDelete(h) PROVE LockInv'
  BY <1>5 DEF BeginDelete, Begin, Idle, Goto, ById, Wanted, OldPath, NewPath, NotePath
<1>6. ASSUME NEW h \in Handlers, BeginGet(h) PROVE LockInv'
  BY <1>6 DEF BeginGet, Begin, Idle, Goto, ById, Wanted, OldPath, NewPath, NotePath
<1>7. ASSUME NEW h \in Handlers, BeginList(h) PROVE LockInv'
  BY <1>7 DEF BeginList, Begin, Idle, Goto, ById, Wanted, OldPath, NewPath, NotePath
<1>8. ASSUME NEW h \in Handlers, Refuse(h) PROVE LockInv'
  BY <1>8 DEF Refuse, Idle, Return, Call, Stores, Wanted, OldPath, NewPath, NotePath
<1>9. ASSUME NEW h \in Handlers, LockNext(h) PROVE LockInv'
  <2>1. \A g \in Handlers : Wanted(g)' = Wanted(g)
    BY <1>9 DEF LockNext, Call, Wanted, OldPath, NewPath, NotePath
  <2>2. PICK x \in Wanted(h) :
           /\ x \in NotePaths /\ owner[x] = None
           /\ owner' = [owner EXCEPT ![x] = h]
           /\ \/ /\ pc' = [pc EXCEPT ![h] = AfterLock(req[h].op)]
                 /\ \A y \in Wanted(h) : owner[y] = h \/ y = x
              \/ /\ pc' = pc
                 /\ \E y \in Wanted(h) : owner[y] # h /\ y # x
    BY <1>9, LockNextEffect
  <2>3. /\ pc[h] = "lock" /\ req[h].op \in {"create", "update", "delete"}
        /\ Wanted(h) \subseteq NotePaths
    BY <1>9, WantedPaths DEF LockNext, At, RequestInv, RequestOf
  <2>4. AfterLock(req[h].op) \in LockedPCs
    BY <2>3 DEF AfterLock
  <2>5. LockOf(h)'
    BY <2>1, <2>2, <2>3, <2>4
  <2>6. ASSUME NEW g \in Handlers, g # h PROVE LockOf(g)'
    <3>1. pc'[g] = pc[g] /\ \A y \in NotePaths : owner'[y] = g <=> owner[y] = g
      BY <2>2, <2>6
    <3>2. pc[g] \in {"lock"} \cup LockedPCs => Wanted(g) \subseteq NotePaths
      BY WantedPaths DEF RequestInv, RequestOf
    <3> QED
      BY <2>1, <3>1, <3>2
  <2> QED
    BY <2>5, <2>6
<1>10. ASSUME NEW h \in Handlers, UnlockNext(h) PROVE LockInv'
  <2>1. \A g \in Handlers : Wanted(g)' = Wanted(g)
    BY <1>10 DEF UnlockNext, Call, Wanted, OldPath, NewPath, NotePath
  <2>2. PICK x \in NotePaths : owner[x] = h /\ owner' = [owner EXCEPT ![x] = None]
    BY <1>10, UnlockNextEffect
  <2>3. pc[h] = "done" /\ UNCHANGED pc
    BY <1>10 DEF UnlockNext, At
  <2>4. LockOf(h)'
    BY <2>1, <2>2, <2>3
  <2>5. ASSUME NEW g \in Handlers, g # h PROVE LockOf(g)'
    <3>1. \A y \in NotePaths : owner'[y] = g <=> owner[y] = g
      BY <2>2, <2>5
    <3>2. pc[g] \in {"lock"} \cup LockedPCs => Wanted(g) \subseteq NotePaths
      BY WantedPaths DEF RequestInv, RequestOf
    <3> QED
      BY <2>1, <2>3, <3>1, <3>2
  <2> QED
    BY <2>4, <2>5
<1>11. ASSUME NEW h \in Handlers, Respond(h) PROVE LockInv'
  <2>1. \A x \in NotePaths : owner[x] # h
    BY <1>11 DEF Respond, Held
  <2> QED
    BY <1>11, <2>1 DEF Respond, Wanted, OldPath, NewPath, NotePath
<1>12. ASSUME NEW h \in Handlers, OpenSentinel(h) PROVE LockInv'
  BY <1>12 DEF OpenSentinel, At, Goto, Return, Call, Stores, Wanted, OldPath, NewPath, NotePath
<1>13. ASSUME NEW h \in Handlers, FillSentinel(h) PROVE LockInv'
  BY <1>13 DEF FillSentinel, At, Goto, Return, Call, Stores, Wanted, OldPath, NewPath, NotePath
<1>14. ASSUME NEW h \in Handlers, StatCreated(h) PROVE LockInv'
  BY <1>14 DEF StatCreated, At, Goto, Return, Call, Stores, Wanted, OldPath, NewPath, NotePath
<1>15. ASSUME NEW h \in Handlers, InsertNote(h) PROVE LockInv'
  BY <1>15, SMTT(30) DEF InsertNote, At, Goto, Return, Call, Stores, Wanted, OldPath, NewPath, NotePath
<1>16. ASSUME NEW h \in Handlers, QueryRow(h) PROVE LockInv'
  <2>1. req[h].id \in Ids /\ req[h].op \in {"update", "delete", "get"} /\ pc[h] = "query"
    BY <1>16 DEF QueryRow, At, RequestInv, RequestOf
  <2>2. rows[req[h].id] # None => rows[req[h].id].title \in Titles
    BY <2>1 DEF Rows
  <2>3. \A x \in NotePaths : owner[x] # h
    BY <2>1
  <2>4. \A g \in Handlers : g # h => Wanted(g)' = Wanted(g)
    <3>1. \A g \in Handlers : g # h => req'[g] = req[g] /\ from'[g] = from[g]
      BY <1>16 DEF QueryRow
    <3> QED
      BY <3>1 DEF Wanted, OldPath, NewPath, NotePath
  <2>5. pc'[h] = "lock" => OldPath(h)' \in Wanted(h)' /\ OldPath(h)' \in NotePaths
    BY <1>16, <2>1, <2>2 DEF QueryRow, Goto, Return, Wanted, OldPath, NewPath, NotePath, NotePaths
  <2>6. /\ UNCHANGED owner /\ pc'[h] \in {"lock", "read", "done"}
        /\ \A g \in Handlers : g # h => pc'[g] = pc[g]
    BY <1>16 DEF QueryRow, Goto, Return
  <2>7. LockOf(h)'
    BY <2>3, <2>5, <2>6
  <2> QED
    BY <2>4, <2>6, <2>7
<1>17. ASSUME NEW h \in Handlers, StatOld(h) PROVE LockInv'
  BY <1>17 DEF StatOld, At, Goto, Return, Call, Stores, Wanted, OldPath, NewPath, NotePath
<1>18. ASSUME NEW h \in Handlers, RenameFile(h) PROVE LockInv'
  BY <1>18 DEF RenameFile, At, Goto, Return, Call, Stores, Wanted, OldPath, NewPath, NotePath
<1>19. ASSUME NEW h \in Handlers, WriteFile(h) PROVE LockInv'
  BY <1>19 DEF WriteFile, At, Goto, Return, Call, Stores, Wanted, OldPath, NewPath, NotePath
<1>20. ASSUME NEW h \in Handlers, StatNew(h) PROVE LockInv'
  BY <1>20 DEF StatNew, At, Goto, Return, Call, Stores, Wanted, OldPath, NewPath, NotePath
<1>21. ASSUME NEW h \in Handlers, UpdateRow(h) PROVE LockInv'
  BY <1>21 DEF UpdateRow, At, Goto, Return, Call, Stores, Wanted, OldPath, NewPath, NotePath
<1>22. ASSUME NEW h \in Handlers, RemoveFile(h) PROVE LockInv'
  BY <1>22 DEF RemoveFile, At, Goto, Return, Call, Stores, Wanted, OldPath, NewPath, NotePath
<1>23. ASSUME NEW h \in Handlers, DeleteRow(h) PROVE LockInv'
  BY <1>23 DEF DeleteRow, At, Goto, Return, Call, Stores, Wanted, OldPath, NewPath, NotePath
<1>24. ASSUME NEW h \in Handlers, ReadFile(h) PROVE LockInv'
  BY <1>24 DEF ReadFile, At, Goto, Return, Call, Stores, Wanted, OldPath, NewPath, NotePath
<1>25. ASSUME NEW h \in Handlers, ListQuery(h) PROVE LockInv'
  BY <1>25, SMTT(30) DEF ListQuery, At, Goto, Return, Call, Stores, Wanted, OldPath, NewPath, NotePath
<1>26. ASSUME NEW h \in Handlers, ListRead(h) PROVE LockInv'
  BY <1>26 DEF ListRead, At, Goto, Return, Call, Stores, Wanted, OldPath, NewPath, NotePath
<1> QED
  BY <1>1, <1>2, <1>3, <1>4, <1>5, <1>6, <1>7, <1>8, <1>9, <1>10, <1>11,
     <1>12, <1>13, <1>14, <1>15, <1>16, <1>17, <1>18, <1>19, <1>20, <1>21,
     <1>22, <1>23, <1>24, <1>25, <1>26
     DEF Next, Request, Step

-----------------------------------------------------------------------------
\* The calls that change files.
FileStep(h) ==
    \/ OpenSentinel(h) \/ FillSentinel(h) \/ InsertNote(h) \/ RenameFile(h)
    \/ WriteFile(h) \/ UpdateRow(h) \/ RemoveFile(h)

\* A handler that changes a file works on a note that exists or is being made,
\* at paths of that note that it has locked.
LEMMA FileStepPaths ==
  ASSUME IInv, NEW h \in Handlers, FileStep(h)
  PROVE  /\ pc[h] \in LockedPCs
         /\ req[h].id \in used /\ req[h].id \in Ids
         /\ OldPath(h) \in NotePaths /\ OldPath(h) \in Wanted(h)
         /\ req[h].op # "delete" => NewPath(h) \in NotePaths /\ NewPath(h) \in Wanted(h)
         /\ \A x \in Wanted(h) : x \in NotePaths /\ x[2] = req[h].id /\ owner[x] = h
<1>1. /\ pc[h] \in LockedPCs /\ req[h].op \in {"create", "update", "delete"}
      /\ from[h] \in Titles /\ req[h].id \in used
  BY DEF FileStep, OpenSentinel, FillSentinel, InsertNote, RenameFile, WriteFile, UpdateRow,
         RemoveFile, At, IInv, RequestInv, RequestOf, LockedPCs, CreatePCs, UpdatePCs, DeletePCs
<1>2. /\ req[h].id \in Ids /\ OldPath(h) \in NotePaths /\ Wanted(h) \subseteq NotePaths
      /\ req[h].op # "delete" => NewPath(h) \in NotePaths
  BY <1>1, WantedPaths DEF IInv
<1>3. \A x \in Wanted(h) : x[2] = req[h].id
  BY DEF Wanted, OldPath, NewPath, NotePath
<1> QED
  BY <1>1, <1>2, <1>3 DEF Wanted, IInv, LockInv, LockOf

\* It changes no other file, and nothing else of the handlers but its own pc.
LEMMA FileStepEffect ==
  ASSUME IInv, NEW h \in Handlers, FileStep(h)
  PROVE  /\ UNCHANGED <<owner, used, req, from, todo, listed>>
         /\ \A g \in Handlers : g # h => pc'[g] = pc[g]
         /\ \A x \in NotePaths : x \notin Wanted(h) => files'[x] = files[x]
         /\ \A g \in Handlers : g # h /\ pc[g] \in LockedPCs =>
               \A x \in Wanted(g) : files'[x] = files[x]
<1>1. /\ UNCHANGED <<owner, used, req, from, todo, listed>>
      /\ \A g \in Handlers : g # h => pc'[g] = pc[g]
  BY DEF IInv, TypeOK, FileStep, OpenSentinel, FillSentinel, InsertNote, RenameFile, WriteFile,
         UpdateRow, RemoveFile, Call, Goto, Return
<1>2. OldPath(h) \in Wanted(h) /\ (req[h].op # "delete" => NewPath(h) \in Wanted(h))
  BY FileStepPaths
<1>3. \A x \in NotePaths : x \notin Wanted(h) => files'[x] = files[x]
  <2>1. ASSUME RemoveFile(h), NEW x \in NotePaths, x \notin Wanted(h) PROVE files'[x] = files[x]
    BY <1>2, <2>1 DEF RemoveFile, IInv, TypeOK
  <2>2. ASSUME ~RemoveFile(h), NEW x \in NotePaths, x \notin Wanted(h) PROVE files'[x] = files[x]
    <3>1. req[h].op # "delete"
      BY <2>2 DEF FileStep, OpenSentinel, FillSentinel, InsertNote, RenameFile, WriteFile,
                  UpdateRow, At, IInv, RequestInv, RequestOf, CreatePCs, UpdatePCs
    <3> QED
      BY <1>2, <2>2, <3>1 DEF FileStep, OpenSentinel, FillSentinel, InsertNote, RenameFile,
                              WriteFile, UpdateRow, UndoRename, Moved, Stores, IInv, TypeOK
  <2> QED
    BY <2>1, <2>2
<1>4. ASSUME NEW g \in Handlers, g # h, pc[g] \in LockedPCs, NEW x \in Wanted(g)
      PROVE  files'[x] = files[x]
  <2>1. owner[x] = g
    BY <1>4 DEF IInv, LockInv, LockOf
  <2>2. x \notin Wanted(h)
    BY <1>4, <2>1, FileStepPaths
  <2>3. x \in NotePaths
    BY <1>4, WantedPaths DEF IInv, RequestInv, RequestOf, LockedPCs, CreatePCs, UpdatePCs, DeletePCs
  <2> QED
    BY <1>3, <2>2, <2>3
<1> QED
  BY <1>1, <1>3, <1>4

\* A handler's own files are safe from the others.
LEMMA FileOthers ==
  ASSUME IInv, NEW h \in Handlers, FileStep(h), FileOf(h)'
  PROVE  FileInv'
<1> SUFFICES ASSUME NEW g \in Handlers, g # h PROVE FileOf(g)'
  BY DEF FileInv
<1>1. pc'[g] = pc[g] /\ OldPath(g)' = OldPath(g) /\ NewPath(g)' = NewPath(g) /\ UNCHANGED req
  BY FileStepEffect DEF OldPath, NewPath
<1>2. pc[g] \in {"fill", "statCreated", "insert"} => files'[OldPath(g)] = files[OldPath(g)]
  BY FileStepEffect DEF LockedPCs, CreatePCs, Wanted
<1>3. pc[g] \in {"write", "statNew", "update"} => files'[NewPath(g)] = files[NewPath(g)]
  BY FileStepEffect DEF IInv, RequestInv, RequestOf, LockedPCs, UpdatePCs, Wanted
<1> QED
  BY <1>1, <1>2, <1>3 DEF IInv, FileInv, FileOf

\* Every step leaves the files of the handlers' notes where they are needed.
LEMMA FileInvStep == IInv /\ [Next]_vars => FileInv'
<1> SUFFICES ASSUME IInv, [Next]_vars PROVE FileInv'
  OBVIOUS
<1> USE DEF IInv, TypeOK, FileInv, FileOf
<1>1. CASE UNCHANGED vars
  BY <1>1 DEF vars, OldPath, NewPath, NotePath
<1>2. CASE Crash
  BY <1>2 DEF Crash
<1>3. ASSUME NEW h \in Handlers, BeginCreate(h) PROVE FileInv'
  BY <1>3 DEF BeginCreate, Begin, Idle, Goto, OldPath, NewPath, NotePath
<1>4. ASSUME NEW h \in Handlers, BeginUpdate(h) PROVE FileInv'
  BY <1>4 DEF BeginUpdate, Begin, Idle, Goto, OldPath, NewPath, NotePath
<1>5. ASSUME NEW h \in Handlers, BeginDelete(h) PROVE FileInv'
  BY <1>5 DEF BeginDelete, Begin, Idle, Goto, ById, OldPath, NewPath, NotePath
<1>6. ASSUME NEW h \in Handlers, BeginGet(h) PROVE FileInv'
  BY <1>6 DEF BeginGet, Begin, Idle, Goto, ById, OldPath, NewPath, NotePath
<1>7. ASSUME NEW h \in Handlers, BeginList(h) PROVE FileInv'
  BY <1>7 DEF BeginList, Begin, Idle, Goto, ById, OldPath, NewPath, NotePath
<1>8. ASSUME NEW h \in Handlers, Refuse(h) PROVE FileInv'
  BY <1>8 DEF Refuse, Idle, Return, Call, Stores, OldPath, NewPath, NotePath
<1>9. ASSUME NEW h \in Handlers, LockNext(h) PROVE FileInv'
  <2>1. AfterLock(req[h].op) \in {"sentinel", "statOld", "remove"}
    BY <1>9 DEF LockNext, At, AfterLock, RequestInv, RequestOf
  <2>2. pc' = pc \/ pc' = [pc EXCEPT ![h] = AfterLock(req[h].op)]
    BY <1>9 DEF LockNext, Goto
  <2>3. UNCHANGED <<files, req, from>>
    BY <1>9 DEF LockNext, Stores, Call
  <2> QED
    BY <2>1, <2>2, <2>3 DEF OldPath, NewPath, NotePath
<1>10. ASSUME NEW h \in Handlers, UnlockNext(h) PROVE FileInv'
  BY <1>10 DEF UnlockNext, At, Goto, Return, Call, Stores, OldPath, NewPath, NotePath
<1>11. ASSUME NEW h \in Handlers, Respond(h) PROVE FileInv'
  BY <1>11 DEF Respond, At, Goto, Return, Call, Stores, OldPath, NewPath, NotePath
<1>12. ASSUME NEW h \in Handlers, OpenSentinel(h) PROVE FileInv'
  <2>1. FileOf(h)'
    <3>1. FileStep(h)
      BY <1>12 DEF FileStep
    <3>2. /\ OldPath(h) \in NotePaths /\ (req[h].op # "delete" => NewPath(h) \in NotePaths)
          /\ OldPath(h)' = OldPath(h) /\ NewPath(h)' = NewPath(h) /\ UNCHANGED req
      BY <3>1, FileStepPaths, FileStepEffect DEF OldPath, NewPath
    <3> QED
      BY <1>12, <3>2 DEF OpenSentinel, At, Goto, Return, Renames, Moved, Stores, OldPath, NewPath
  <2> QED
    BY <1>12, <2>1, FileOthers DEF FileStep
<1>13. ASSUME NEW h \in Handlers, FillSentinel(h) PROVE FileInv'
  <2>1. FileOf(h)'
    <3>1. FileStep(h)
      BY <1>13 DEF FileStep
    <3>2. /\ OldPath(h) \in NotePaths /\ (req[h].op # "delete" => NewPath(h) \in NotePaths)
          /\ OldPath(h)' = OldPath(h) /\ NewPath(h)' = NewPath(h) /\ UNCHANGED req
      BY <3>1, FileStepPaths, FileStepEffect DEF OldPath, NewPath
    <3> QED
      BY <1>13, <3>2 DEF FillSentinel, At, Goto, Return, Renames, Moved, Stores, OldPath, NewPath
  <2> QED
    BY <1>13, <2>1, FileOthers DEF FileStep
<1>14. ASSUME NEW h \in Handlers, StatCreated(h) PROVE FileInv'
  BY <1>14 DEF StatCreated, At, Goto, Return, Call, Stores, OldPath, NewPath, NotePath
<1>15. ASSUME NEW h \in Handlers, InsertNote(h) PROVE FileInv'
  <2>1. FileOf(h)'
    <3>1. FileStep(h)
      BY <1>15 DEF FileStep
    <3>2. /\ OldPath(h) \in NotePaths /\ (req[h].op # "delete" => NewPath(h) \in NotePaths)
          /\ OldPath(h)' = OldPath(h) /\ NewPath(h)' = NewPath(h) /\ UNCHANGED req
      BY <3>1, FileStepPaths, FileStepEffect DEF OldPath, NewPath
    <3> QED
      BY <1>15, <3>2 DEF InsertNote, At, Goto, Return, Renames, Moved, Stores, OldPath, NewPath
  <2> QED
    BY <1>15, <2>1, FileOthers DEF FileStep
<1>16. ASSUME NEW h \in Handlers, QueryRow(h) PROVE FileInv'
  BY <1>16 DEF QueryRow, At, Goto, Return, Call, Stores, OldPath, NewPath, NotePath
<1>17. ASSUME NEW h \in Handlers, StatOld(h) PROVE FileInv'
  BY <1>17 DEF StatOld, At, Goto, Return, Call, Stores, Renames, OldPath, NewPath, NotePath
<1>18. ASSUME NEW h \in Handlers, RenameFile(h) PROVE FileInv'
  <2>1. FileOf(h)'
    <3>1. FileStep(h) /\ Renames(h) /\ req[h].op = "update"
      BY <1>18 DEF FileStep, RenameFile, At, RequestInv, RequestOf, UpdatePCs
    <3>2. /\ OldPath(h) \in NotePaths /\ NewPath(h) \in NotePaths /\ OldPath(h) # NewPath(h)
          /\ NewPath(h)' = NewPath(h)
      BY <3>1, FileStepPaths, FileStepEffect DEF OldPath, NewPath, NotePath, Renames
    <3> QED
      BY <1>18, <3>2 DEF RenameFile, At, Goto, Return, Moved
  <2> QED
    BY <1>18, <2>1, FileOthers DEF FileStep
<1>19. ASSUME NEW h \in Handlers, WriteFile(h) PROVE FileInv'
  <2>1. FileOf(h)'
    <3>1. FileStep(h) /\ req[h].op = "update" /\ req[h].content # None
      BY <1>19, ContentsAssumption DEF FileStep, WriteFile, At, RequestInv, RequestOf, UpdatePCs
    <3>2. NewPath(h) \in NotePaths /\ NewPath(h)' = NewPath(h)
      BY <3>1, FileStepPaths, FileStepEffect DEF NewPath
    <3> QED
      BY <1>19, <3>1, <3>2 DEF WriteFile, At, Goto, Return
  <2> QED
    BY <1>19, <2>1, FileOthers DEF FileStep
<1>20. ASSUME NEW h \in Handlers, StatNew(h) PROVE FileInv'
  BY <1>20 DEF StatNew, At, Goto, Return, Call, Stores, OldPath, NewPath, NotePath
<1>21. ASSUME NEW h \in Handlers, UpdateRow(h) PROVE FileInv'
  <2>1. FileOf(h)'
    <3>1. FileStep(h)
      BY <1>21 DEF FileStep
    <3>2. /\ OldPath(h) \in NotePaths /\ (req[h].op # "delete" => NewPath(h) \in NotePaths)
          /\ OldPath(h)' = OldPath(h) /\ NewPath(h)' = NewPath(h) /\ UNCHANGED req
      BY <3>1, FileStepPaths, FileStepEffect DEF OldPath, NewPath
    <3> QED
      BY <1>21, <3>2 DEF UpdateRow, At, Goto, Return, Renames, Moved, Stores, OldPath, NewPath
  <2> QED
    BY <1>21, <2>1, FileOthers DEF FileStep
<1>22. ASSUME NEW h \in Handlers, RemoveFile(h) PROVE FileInv'
  <2>1. FileOf(h)'
    <3>1. FileStep(h)
      BY <1>22 DEF FileStep
    <3>2. /\ OldPath(h) \in NotePaths /\ (req[h].op # "delete" => NewPath(h) \in NotePaths)
          /\ OldPath(h)' = OldPath(h) /\ NewPath(h)' = NewPath(h) /\ UNCHANGED req
      BY <3>1, FileStepPaths, FileStepEffect DEF OldPath, NewPath
    <3> QED
      BY <1>22, <3>2 DEF RemoveFile, At, Goto, Return, Renames, Moved, Stores, OldPath, NewPath
  <2> QED
    BY <1>22, <2>1, FileOthers DEF FileStep
<1>23. ASSUME NEW h \in Handlers, DeleteRow(h) PROVE FileInv'
  BY <1>23 DEF DeleteRow, At, Goto, Return, Call, Stores, OldPath, NewPath, NotePath
<1>24. ASSUME NEW h \in Handlers, ReadFile(h) PROVE FileInv'
  BY <1>24 DEF ReadFile, At, Goto, Return, Call, Stores, OldPath, NewPath, NotePath
<1>25. ASSUME NEW h \in Handlers, ListQuery(h) PROVE FileInv'
  BY <1>25 DEF ListQuery, At, Goto, Return, Call, Stores, OldPath, NewPath, NotePath
<1>26. ASSUME NEW h \in Handlers, ListRead(h) PROVE FileInv'
  BY <1>26 DEF ListRead, At, Goto, Return, Call, Stores, OldPath, NewPath, NotePath
<1> QED
  BY <1>1, <1>2, <1>3, <1>4, <1>5, <1>6, <1>7, <1>8, <1>9, <1>10, <1>11,
     <1>12, <1>13, <1>14, <1>15, <1>16, <1>17, <1>18, <1>19, <1>20, <1>21,
     <1>22, <1>23, <1>24, <1>25, <1>26
     DEF Next, Request, Step

\* A handler that works on its locked paths changes nothing of another note,
\* and nothing of a note that another handler is making.
LEMMA FreshOthers ==
  ASSUME IInv, NEW h \in Handlers, pc[h] \in LockedPCs, pc'[h] \in LockedPCs \cup {"done"},
         req[h].id \in used,
         UNCHANGED <<used, req>>,
         \A g \in Handlers : g # h => pc'[g] = pc[g],
         \A id \in Ids : id # req[h].id =>
            rows'[id] = rows[id] /\ \A t \in Titles : files'[NotePath(t, id)] = files[NotePath(t, id)],
         FreshOf(h)'
  PROVE  FreshInv'
<1>1. FreshIds'
  BY DEF FreshIds, FreshInv, IInv
<1>2. ASSUME NEW g \in Handlers, g # h, req[g].op = "create", pc[g] \in {"lock"} \cup CreatePCs
      PROVE  FreshOf(g)'
  <2>1. req[g].id \in Ids
    BY <1>2 DEF IInv, TypeOK, RequestInv, RequestOf
  <2>2. req[h].id # req[g].id
    BY <1>2 DEF IInv, FreshInv, FreshOf, LockedPCs, CreatePCs, UpdatePCs, DeletePCs
  <2>3. FreshOf(g)
    BY DEF IInv, FreshInv
  <2> QED
    BY <1>2, <2>1, <2>2, <2>3 DEF FreshOf
<1>3. ASSUME NEW g \in Handlers, g # h PROVE FreshOf(g)'
  <2>1. CASE req[g].op = "create" /\ pc[g] \in {"lock"} \cup CreatePCs
    BY <1>2, <1>3, <2>1
  <2>2. CASE ~(req[g].op = "create" /\ pc[g] \in {"lock"} \cup CreatePCs)
    BY <1>3, <2>2 DEF FreshOf
  <2> QED
    BY <2>1, <2>2
<1> QED
  BY <1>1, <1>3 DEF FreshInv

\* The steps that change files leave the other notes alone.
LEMMA FreshFileStep ==
  ASSUME IInv, NEW h \in Handlers, FileStep(h), FreshOf(h)'
  PROVE  FreshInv'
<1>1. ASSUME NEW id \in Ids, id # req[h].id
      PROVE  rows'[id] = rows[id] /\ \A t \in Titles : files'[NotePath(t, id)] = files[NotePath(t, id)]
  <2>1. rows'[id] = rows[id]
    BY <1>1 DEF FileStep, OpenSentinel, FillSentinel, InsertNote, RenameFile, WriteFile,
                UpdateRow, RemoveFile, Stores, IInv, TypeOK
  <2>2. ASSUME NEW t \in Titles PROVE files'[NotePath(t, id)] = files[NotePath(t, id)]
    <3>1. NotePath(t, id) \in NotePaths /\ NotePath(t, id)[2] = id
      BY DEF NotePath, NotePaths
    <3>2. NotePath(t, id) \notin Wanted(h)
      BY <1>1, <3>1, FileStepPaths
    <3> QED
      BY <3>1, <3>2, FileStepEffect
  <2> QED
    BY <2>1, <2>2
<1>2. pc'[h] \in LockedPCs \cup {"done"}
  BY DEF FileStep, OpenSentinel, FillSentinel, InsertNote, RenameFile, WriteFile, UpdateRow,
         RemoveFile, Goto, Return, LockedPCs, CreatePCs, UpdatePCs, DeletePCs, IInv, TypeOK
<1> QED
  BY <1>1, <1>2, FreshOthers, FileStepPaths, FileStepEffect

\* A step of a handler that changes no row and no file, and that does not start
\* a creation, takes nothing from the notes that are being made.
LEMMA FreshQuiet ==
  ASSUME FreshInv, UNCHANGED <<rows, files, used, req, from>>, TypeOK, NEW h \in Handlers,
         pc[h] \notin {"query", "done"},
         NEW label, pc' = [pc EXCEPT ![h] = label],
         FreshOf(h)'
  PROVE  FreshInv'
<1>1. FreshIds'
  BY DEF FreshInv, FreshIds
<1>2. ASSUME NEW g \in Handlers, g # h PROVE FreshOf(g)'
  <2>1. pc'[g] = pc[g] /\ FreshOf(g) /\ \A k \in Handlers : k # h => pc'[k] = pc[k]
    BY <1>2 DEF TypeOK, FreshInv
  <2>2. req[g].op = "create" /\ pc[g] \in {"lock"} \cup CreatePCs => req[h].id # req[g].id
    BY <1>2, <2>1 DEF FreshOf
  <2> QED
    BY <2>1, <2>2 DEF FreshOf
<1> QED
  BY <1>1, <1>2 DEF FreshInv

\* Every step keeps the notes that are being made out of the other handlers'
\* reach.
LEMMA FreshStep == IInv /\ [Next]_vars => FreshInv'
<1> SUFFICES ASSUME IInv, [Next]_vars PROVE FreshInv'
  OBVIOUS
<1> USE IdsAssumption DEF IInv, TypeOK, FreshInv, FreshIds, FreshOf, CreatePCs, NotePath
<1>1. CASE UNCHANGED vars
  BY <1>1 DEF vars
<1>2. CASE Crash
  BY <1>2 DEF Crash, NoRequest, ById
<1>3. ASSUME NEW h \in Handlers, BeginCreate(h) PROVE FreshInv'
  <2>1. PICK id \in Ids \ used, t \in Titles, c \in Contents :
          /\ used' = used \cup {id}
          /\ Begin(h, [op |-> "create", id |-> id, title |-> t, content |-> c], t, "lock")
    BY <1>3 DEF BeginCreate
  <2>2. \A g \in Handlers : req[g].id # id
    BY <2>1 DEF RequestInv, RequestOf
  <2>3. FreshIds'
    BY <2>1 DEF Begin
  <2>4. FreshOf(h)'
    BY <2>1, <2>2 DEF Begin, Goto
  <2>5. ASSUME NEW g \in Handlers, g # h PROVE FreshOf(g)'
    BY <2>1, <2>2, <2>5 DEF Begin, Idle, Goto
  <2> QED
    BY <2>3, <2>4, <2>5
<1>4. ASSUME NEW h \in Handlers, BeginUpdate(h) PROVE FreshInv'
  BY <1>4 DEF BeginUpdate, Begin, Idle, Goto
<1>5. ASSUME NEW h \in Handlers, BeginDelete(h) PROVE FreshInv'
  BY <1>5 DEF BeginDelete, Begin, Idle, Goto, ById
<1>6. ASSUME NEW h \in Handlers, BeginGet(h) PROVE FreshInv'
  BY <1>6 DEF BeginGet, Begin, Idle, Goto, ById
<1>7. ASSUME NEW h \in Handlers, BeginList(h) PROVE FreshInv'
  <2>1. \A g \in Handlers : req[g].op = "create" => req[g].id # None
    BY DEF RequestInv, RequestOf
  <2> QED
    BY <1>7, <2>1 DEF BeginList, Begin, Idle, Goto, ById
<1>8. ASSUME NEW h \in Handlers, Refuse(h) PROVE FreshInv'
  BY <1>8 DEF Refuse, Idle, Return, Call, Stores
<1>9. ASSUME NEW h \in Handlers, LockNext(h) PROVE FreshInv'
  <2>1. pc[h] = "lock" /\ UNCHANGED <<rows, files, used, req, from>>
    BY <1>9 DEF LockNext, At, Call, Stores
  <2>2. PICK label : /\ pc' = [pc EXCEPT ![h] = label]
                     /\ req[h].op = "create" => label \in {"lock", "sentinel"}
    <3>1. \/ pc' = pc
          \/ pc' = [pc EXCEPT ![h] = AfterLock(req[h].op)]
      BY <1>9 DEF LockNext, Goto
    <3>2. pc = [pc EXCEPT ![h] = "lock"]
      BY <2>1
    <3>3. req[h].op = "create" => AfterLock(req[h].op) = "sentinel"
      BY DEF AfterLock
    <3> QED
      BY <3>1, <3>2, <3>3
  <2>3. FreshOf(h)'
    BY <2>1, <2>2
  <2> QED
    BY <2>1, <2>2, <2>3, FreshQuiet
<1>10. ASSUME NEW h \in Handlers, UnlockNext(h) PROVE FreshInv'
  BY <1>10 DEF UnlockNext, At, Goto, Return, Call, Stores
<1>11. ASSUME NEW h \in Handlers, Respond(h) PROVE FreshInv'
  <2>1. \A g \in Handlers : req[g].op = "create" => req[g].id # None
    BY DEF RequestInv, RequestOf
  <2> QED
    BY <1>11, <2>1 DEF Respond, At, Stores, NoRequest, ById
<1>12. ASSUME NEW h \in Handlers, OpenSentinel(h) PROVE FreshInv'
  <2>1. FreshOf(h)'
    BY <1>12 DEF OpenSentinel, At, Goto, Return, Call, Stores, RequestInv, RequestOf, UpdatePCs, DeletePCs
  <2> QED
    BY <1>12, <2>1, FreshFileStep DEF FileStep
<1>13. ASSUME NEW h \in Handlers, FillSentinel(h) PROVE FreshInv'
  <2>1. FreshOf(h)'
    BY <1>13 DEF FillSentinel, At, Goto, Return, Call, Stores, RequestInv, RequestOf, UpdatePCs, DeletePCs
  <2> QED
    BY <1>13, <2>1, FreshFileStep DEF FileStep
<1>14. ASSUME NEW h \in Handlers, StatCreated(h) PROVE FreshInv'
  <2>1. FreshOf(h)'
    BY <1>14 DEF StatCreated, At, Goto, Return, Call, Stores
  <2>2. PICK label \in {"insert", "done"} : pc' = [pc EXCEPT ![h] = label]
    BY <1>14 DEF StatCreated, Goto, Return
  <2>3. UNCHANGED <<rows, files, used, req, from>>
    BY <1>14 DEF StatCreated, Call, Stores
  <2> QED
    BY <1>14, <2>1, <2>2, <2>3, FreshQuiet DEF StatCreated, At
<1>15. ASSUME NEW h \in Handlers, InsertNote(h) PROVE FreshInv'
  <2>1. FreshOf(h)'
    BY <1>15 DEF InsertNote, At, Goto, Return, Call, Stores, RequestInv, RequestOf, UpdatePCs, DeletePCs
  <2> QED
    BY <1>15, <2>1, FreshFileStep DEF FileStep
<1>16. ASSUME NEW h \in Handlers, QueryRow(h) PROVE FreshInv'
  <2>1. ASSUME NEW g \in Handlers PROVE FreshOf(g)'
    <3>1. req[h].op # "create" /\ pc[h] = "query" /\ UNCHANGED <<rows, files, req>>
      BY <1>16 DEF QueryRow, At, Stores, RequestInv, RequestOf
    <3>2. rows[req[h].id] = None => pc' = [pc EXCEPT ![h] = "done"]
      BY <1>16 DEF QueryRow, Return
    <3>3. \A f \in Handlers : f # h => pc'[f] = pc[f]
      BY <1>16 DEF QueryRow, Goto, Return
    <3>4. ASSUME req[g].op = "create", pc'[g] \in {"lock"} \cup CreatePCs
          PROVE  /\ g # h /\ pc[g] = pc'[g] /\ FreshOf(g)
                 /\ req[h].id = req[g].id => pc'[h] = "done"
      BY <3>1, <3>2, <3>3, <3>4
    <3> QED
      BY <3>1, <3>3, <3>4
  <2> QED
    BY <1>16, <2>1 DEF QueryRow, Stores
<1>17. ASSUME NEW h \in Handlers, StatOld(h) PROVE FreshInv'
  BY <1>17 DEF StatOld, At, Goto, Return, Call, Stores
<1>18. ASSUME NEW h \in Handlers, RenameFile(h) PROVE FreshInv'
  <2>1. FreshOf(h)'
    BY <1>18 DEF RenameFile, At, Goto, Return, Call, Stores, RequestInv, RequestOf, UpdatePCs, DeletePCs
  <2> QED
    BY <1>18, <2>1, FreshFileStep DEF FileStep
<1>19. ASSUME NEW h \in Handlers, WriteFile(h) PROVE FreshInv'
  <2>1. FreshOf(h)'
    BY <1>19 DEF WriteFile, At, Goto, Return, Call, Stores, RequestInv, RequestOf, UpdatePCs, DeletePCs
  <2> QED
    BY <1>19, <2>1, FreshFileStep DEF FileStep
<1>20. ASSUME NEW h \in Handlers, StatNew(h) PROVE FreshInv'
  <2>1. FreshOf(h)'
    BY <1>20 DEF StatNew, At, Goto, Return, Call, Stores
  <2>2. PICK label \in {"update", "done"} : pc' = [pc EXCEPT ![h] = label]
    BY <1>20 DEF StatNew, Goto, Return
  <2>3. UNCHANGED <<rows, files, used, req, from>>
    BY <1>20 DEF StatNew, Call, Stores
  <2> QED
    BY <1>20, <2>1, <2>2, <2>3, FreshQuiet DEF StatNew, At
<1>21. ASSUME NEW h \in Handlers, UpdateRow(h) PROVE FreshInv'
  <2>1. FreshOf(h)'
    BY <1>21 DEF UpdateRow, At, Goto, Return, Call, Stores, RequestInv, RequestOf, UpdatePCs, DeletePCs
  <2> QED
    BY <1>21, <2>1, FreshFileStep DEF FileStep
<1>22. ASSUME NEW h \in Handlers, RemoveFile(h) PROVE FreshInv'
  <2>1. FreshOf(h)'
    BY <1>22 DEF RemoveFile, At, Goto, Return, Call, Stores, RequestInv, RequestOf, UpdatePCs, DeletePCs
  <2> QED
    BY <1>22, <2>1, FreshFileStep DEF FileStep
<1>23. ASSUME NEW h \in Handlers, DeleteRow(h) PROVE FreshInv'
  <2>1. pc[h] = "delete" /\ req[h].op = "delete" /\ req[h].id \in used /\ pc[h] \in LockedPCs
    BY <1>23 DEF DeleteRow, At, RequestInv, RequestOf, LockedPCs, DeletePCs
  <2>2. /\ UNCHANGED <<files, used, req>> /\ pc'[h] = "done"
        /\ \A g \in Handlers : g # h => pc'[g] = pc[g]
        /\ \A id \in Ids : id # req[h].id => rows'[id] = rows[id]
    BY <1>23 DEF DeleteRow, Return, Call
  <2>3. FreshOf(h)'
    BY <2>1, <2>2
  <2> QED
    BY <2>1, <2>2, <2>3, FreshOthers
<1>24. ASSUME NEW h \in Handlers, ReadFile(h) PROVE FreshInv'
  BY <1>24 DEF ReadFile, At, Goto, Return, Call, Stores
<1>25. ASSUME NEW h \in Handlers, ListQuery(h) PROVE FreshInv'
  <2>1. FreshOf(h)'
    BY <1>25 DEF ListQuery, At, Goto, Return, Stores
  <2>2. PICK label \in {"listRead", "done"} : pc' = [pc EXCEPT ![h] = label]
    BY <1>25 DEF ListQuery, Goto, Return
  <2>3. UNCHANGED <<rows, files, used, req, from>>
    BY <1>25 DEF ListQuery, Stores
  <2> QED
    BY <1>25, <2>1, <2>2, <2>3, FreshQuiet DEF ListQuery, At
<1>26. ASSUME NEW h \in Handlers, ListRead(h) PROVE FreshInv'
  BY <1>26 DEF ListRead, At, Goto, Return, Call, Stores
<1> QED
  BY <1>1, <1>2, <1>3, <1>4, <1>5, <1>6, <1>7, <1>8, <1>9, <1>10, <1>11,
     <1>12, <1>13, <1>14, <1>15, <1>16, <1>17, <1>18, <1>19, <1>20, <1>21,
     <1>22, <1>23, <1>24, <1>25, <1>26
     DEF Next, Request, Step

\* Moving a note's only file leaves it with one file.
LEMMA MovedOne ==
  ASSUME TypeOK, AtMostOneFile, NEW id \in Ids, NEW t \in Titles, NEW u \in Titles,
         files[NotePath(t, id)] # None,
         files' = Moved(NotePath(t, id), NotePath(u, id))
  PROVE  AtMostOneFile'
<1> SUFFICES ASSUME NEW i \in Ids, NEW v \in Titles, NEW w \in Titles,
                    files'[NotePath(v, i)] # None, files'[NotePath(w, i)] # None
             PROVE  v = w
  BY DEF AtMostOneFile
<1>1. \A j \in Ids, s \in Titles : <<s, j>> \in NotePaths
  BY DEF NotePaths
<1>2. CASE i # id
  BY <1>1, <1>2 DEF Moved, AtMostOneFile, NotePath, TypeOK
<1>3. CASE i = id
  <2>1. ASSUME NEW s \in Titles, s # u PROVE files'[NotePath(s, id)] = None
    <3>1. CASE s = t
      BY <1>1, <2>1, <3>1 DEF Moved, NotePath, TypeOK
    <3>2. CASE s # t
      BY <1>1, <2>1, <3>2 DEF Moved, AtMostOneFile, NotePath, TypeOK
    <3> QED
      BY <3>1, <3>2
  <2> QED
    BY <1>3, <2>1
<1> QED
  BY <1>2, <1>3

\* So does a rollback.
LEMMA UndoOne ==
  ASSUME IInv, NEW h \in Handlers, pc[h] \in {"write", "update"}, UndoRename(h)
  PROVE  AtMostOneFile'
<1>1. /\ req[h].op = "update" /\ req[h].id \in Ids
      /\ req[h].title \in Titles /\ from[h] \in Titles /\ files[NewPath(h)] # None
  BY DEF IInv, TypeOK, RequestInv, RequestOf, FileInv, FileOf, LockedPCs, UpdatePCs
<1>2. CASE files' = Moved(NewPath(h), OldPath(h))
  BY <1>1, <1>2, MovedOne DEF IInv, NewPath, OldPath
<1>3. CASE UNCHANGED files
  BY <1>3 DEF IInv, AtMostOneFile
<1> QED
  BY <1>2, <1>3 DEF UndoRename

\* Every step leaves each note with at most one file.
LEMMA OneFileStep == IInv /\ [Next]_vars => AtMostOneFile'
<1> SUFFICES ASSUME IInv, [Next]_vars PROVE AtMostOneFile'
  OBVIOUS
<1>1. CASE UNCHANGED files
  BY <1>1 DEF IInv, AtMostOneFile
<1>2. ASSUME NEW h \in Handlers, FileStep(h) PROVE AtMostOneFile'
  <2>1. /\ OldPath(h) \in NotePaths /\ req[h].id \in Ids
        /\ req[h].op # "delete" => NewPath(h) \in NotePaths
    BY <1>2, FileStepPaths
  <2>2. ASSUME \A x \in NotePaths : files'[x] # None => files[x] # None
        PROVE  AtMostOneFile'
    <3>1. \A i \in Ids, t \in Titles : NotePath(t, i) \in NotePaths
      BY DEF NotePath, NotePaths
    <3> QED
      BY <2>2, <3>1 DEF IInv, AtMostOneFile
  <2>3. CASE OpenSentinel(h)
    <3>1. \A t \in Titles : files[NotePath(t, req[h].id)] = None
      BY <2>3 DEF OpenSentinel, At, IInv, RequestInv, RequestOf, FreshInv, FreshOf, CreatePCs
    <3>2. CASE files' = [files EXCEPT ![OldPath(h)] = Sentinel]
      BY <2>1, <3>1, <3>2 DEF OldPath, NotePath, NotePaths, AtMostOneFile, IInv, TypeOK
    <3> QED
      BY <1>1, <2>3, <3>2 DEF OpenSentinel
  <2>4. CASE FillSentinel(h)
    <3>1. files[OldPath(h)] # None
      BY <2>4, ContentsAssumption DEF FillSentinel, At, IInv, FileInv, FileOf
    <3> QED
      BY <2>1, <2>2, <2>4, <3>1 DEF FillSentinel, IInv, TypeOK
  <2>5. CASE InsertNote(h)
    BY <2>1, <2>2, <2>5 DEF InsertNote, Stores, IInv, TypeOK
  <2>6. CASE RenameFile(h)
    <3>1. CASE files' = Moved(OldPath(h), NewPath(h)) /\ files[OldPath(h)] # None
      <4>1. req[h].title \in Titles /\ from[h] \in Titles
        BY <2>6 DEF RenameFile, At, IInv, RequestInv, RequestOf, LockedPCs, UpdatePCs
      <4> QED
        BY <2>1, <3>1, <4>1, MovedOne DEF IInv, OldPath, NewPath
    <3> QED
      BY <1>1, <2>6, <3>1 DEF RenameFile
  <2>7. CASE WriteFile(h)
    <3>1. CASE files' = [files EXCEPT ![NewPath(h)] = req[h].content]
      <4>1. files[NewPath(h)] # None /\ req[h].op = "update"
        BY <2>7 DEF WriteFile, At, IInv, FileInv, FileOf, RequestInv, RequestOf, UpdatePCs
      <4> QED
        BY <2>1, <2>2, <3>1, <4>1 DEF IInv, TypeOK
    <3>2. CASE UndoRename(h)
      BY <2>7, <3>2, UndoOne DEF WriteFile, At
    <3> QED
      BY <2>7, <3>1, <3>2 DEF WriteFile
  <2>8. CASE UpdateRow(h)
    <3>1. CASE UndoRename(h)
      BY <2>8, <3>1, UndoOne DEF UpdateRow, At
    <3> QED
      BY <1>1, <2>8, <3>1 DEF UpdateRow, Stores
  <2>9. CASE RemoveFile(h)
    BY <2>1, <2>2, <2>9 DEF RemoveFile, IInv, TypeOK
  <2> QED
    BY <1>2, <2>3, <2>4, <2>5, <2>6, <2>7, <2>8, <2>9 DEF FileStep
<1>3. ASSUME NEW h \in Handlers, ~FileStep(h), Request(h) \/ Step(h) PROVE UNCHANGED files
  BY <1>3 DEF FileStep, Request, Step, BeginCreate, BeginUpdate, BeginDelete, BeginGet, BeginList,
     Begin, Refuse, LockNext, UnlockNext, Respond, StatCreated, QueryRow, StatOld, StatNew,
     DeleteRow, ReadFile, ListQuery, ListRead, Stores
<1> QED
  BY <1>1, <1>2, <1>3 DEF Next, Crash, vars

\* Every step keeps the empty file of CreateExclusive away from notes with a row.
LEMMA SentinelStep == IInv /\ [Next]_vars => SentinelNeverRead'
<1> SUFFICES ASSUME IInv, [Next]_vars PROVE SentinelNeverRead'
  OBVIOUS
<1>1. CASE UNCHANGED <<rows, files>>
  BY <1>1 DEF IInv, SentinelNeverRead
<1>2. ASSUME NEW h \in Handlers, FileStep(h) PROVE SentinelNeverRead'
  <2> SUFFICES ASSUME NEW id \in Ids, rows'[id] # None, NEW t \in Titles
               PROVE  files'[NotePath(t, id)] # Sentinel
    BY DEF SentinelNeverRead
  <2>1. /\ OldPath(h) \in NotePaths /\ req[h].id \in Ids
        /\ req[h].op # "delete" => NewPath(h) \in NotePaths
    BY <1>2, FileStepPaths
  <2>2. NotePath(t, id) \in NotePaths /\ NotePath(t, id)[2] = id
    BY DEF NotePath, NotePaths
  <2>3. ASSUME rows[id] # None PROVE \A u \in Titles : files[NotePath(u, id)] # Sentinel
    BY <2>3 DEF IInv, SentinelNeverRead
  <2>4. CASE id # req[h].id
    <3>1. rows'[id] = rows[id]
      BY <1>2, <2>4 DEF FileStep, OpenSentinel, FillSentinel, InsertNote, RenameFile, WriteFile,
                        UpdateRow, RemoveFile, Stores, IInv, TypeOK
    <3>2. files'[NotePath(t, id)] = files[NotePath(t, id)]
      BY <1>2, <2>2, <2>4, FileStepPaths, FileStepEffect
    <3> QED
      BY <2>3, <3>1, <3>2
  <2>5. CASE id = req[h].id /\ pc[h] \in CreatePCs
    <3>1. rows[id] = None /\ req[h].op = "create"
      BY <2>5 DEF IInv, RequestInv, RequestOf, FreshInv, FreshOf
    <3>2. InsertNote(h) /\ UNCHANGED files /\ pc[h] = "insert"
      BY <1>2, <2>5, <3>1 DEF FileStep, OpenSentinel, FillSentinel, InsertNote, RenameFile,
         WriteFile, UpdateRow, RemoveFile, Stores, At, CreatePCs
    <3>3. /\ files[OldPath(h)] = req[h].content /\ from[h] \in Titles
          /\ files[OldPath(h)] # None /\ files[OldPath(h)] # Sentinel
      BY <3>1, <3>2, ContentsAssumption
      DEF IInv, FileInv, FileOf, RequestInv, RequestOf, LockedPCs, CreatePCs
    <3>4. t # from[h] => files[NotePath(t, id)] = None
      BY <2>5, <3>3 DEF IInv, AtMostOneFile, OldPath
    <3> QED
      BY <2>5, <3>2, <3>3, <3>4, ContentsAssumption DEF OldPath
  <2>6. CASE id = req[h].id /\ pc[h] \notin CreatePCs
    <3>1. /\ RenameFile(h) \/ WriteFile(h) \/ UpdateRow(h) \/ RemoveFile(h)
          /\ from[h] \in Titles
          /\ ~RemoveFile(h) => req[h].title \in Titles /\ req[h].content \in Contents
      BY <1>2, <2>6 DEF FileStep, OpenSentinel, FillSentinel, InsertNote, RenameFile, WriteFile,
         UpdateRow, RemoveFile, At, IInv, RequestInv, RequestOf, LockedPCs, CreatePCs,
         UpdatePCs, DeletePCs
    <3>2. rows[id] # None
      BY <2>6, <3>1 DEF RenameFile, WriteFile, UpdateRow, RemoveFile, Stores
    <3>3. files[OldPath(h)] # Sentinel /\ files[NotePath(t, id)] # Sentinel
      BY <2>3, <2>6, <3>1, <3>2 DEF OldPath
    <3>4. CASE RemoveFile(h)
      BY <2>1, <2>2, <3>3, <3>4, ContentsAssumption DEF RemoveFile, IInv, TypeOK
    <3>5. CASE ~RemoveFile(h)
      <4>1. /\ files[NewPath(h)] # Sentinel /\ req[h].content # Sentinel
            /\ OldPath(h) \in NotePaths /\ NewPath(h) \in NotePaths
        BY <2>3, <2>6, <3>1, <3>2, <3>5, ContentsAssumption DEF NewPath, OldPath, NotePath, NotePaths
      <4>2. CASE files' = Moved(OldPath(h), NewPath(h)) \/ files' = Moved(NewPath(h), OldPath(h))
        BY <2>2, <3>3, <4>1, <4>2, ContentsAssumption DEF Moved, IInv, TypeOK
      <4>3. CASE files' = [files EXCEPT ![NewPath(h)] = req[h].content]
        BY <2>2, <3>3, <4>1, <4>3 DEF IInv, TypeOK
      <4>4. CASE UNCHANGED files
        BY <3>3, <4>4
      <4> QED
        BY <3>1, <3>5, <4>2, <4>3, <4>4 DEF RenameFile, WriteFile, UpdateRow, UndoRename, Stores
    <3> QED
      BY <3>4, <3>5
  <2> QED
    BY <2>4, <2>5, <2>6
<1>3. ASSUME NEW h \in Handlers, DeleteRow(h) PROVE SentinelNeverRead'
  BY <1>3 DEF DeleteRow, IInv, TypeOK, SentinelNeverRead
<1>4. ASSUME NEW h \in Handlers, ~FileStep(h), ~DeleteRow(h), Request(h) \/ Step(h)
      PROVE  UNCHANGED <<rows, files>>
  BY <1>4 DEF FileStep, Request, Step, BeginCreate, BeginUpdate, BeginDelete, BeginGet, BeginList,
     Begin, Refuse, LockNext, UnlockNext, Respond, StatCreated, QueryRow, StatOld, StatNew,
     ReadFile, ListQuery, ListRead, Stores
<1> QED
  BY <1>1, <1>2, <1>3, <1>4 DEF Next, Crash, vars

-----------------------------------------------------------------------------
\* The server starts with empty stores and idle handlers.
LEMMA InitInv == Init => IInv
<1> SUFFICES ASSUME Init PROVE IInv
  OBVIOUS
<1>1. TypeOK
  BY HandlersAssumption DEF Init, TypeOK, Locks!Init, Locks!TypeOK, PCs, NoRequest, ById
<1>2. RequestInv
  BY DEF Init, RequestInv, RequestOf, NoRequest, ById, LockedPCs, CreatePCs, UpdatePCs, DeletePCs
<1>3. LockInv
  BY HandlersAssumption DEF Init, Locks!Init, LockInv, LockOf, LockedPCs, CreatePCs, UpdatePCs,
                            DeletePCs
<1>4. FreshInv
  BY DEF Init, FreshInv, FreshIds, FreshOf, NoRequest, ById, NotePath, NotePaths
<1>5. FileInv
  BY DEF Init, FileInv, FileOf
<1>6. AtMostOneFile /\ SentinelNeverRead
  BY DEF Init, AtMostOneFile, SentinelNeverRead, NotePath, NotePaths
<1> QED
  BY <1>1, <1>2, <1>3, <1>4, <1>5, <1>6 DEF IInv

\* The inductive invariant holds in every reachable state, whichever calls fail
\* and whenever the server dies.
THEOREM Invariance == Spec => []IInv
<1>1. IInv /\ [Next]_vars => IInv'
  BY TypeOKStep, RequestStep, LockStep, FreshStep, FileInvStep, OneFileStep, SentinelStep DEF IInv
<1> QED
  BY <1>1, InitInv, PTL DEF Spec

\* Rows, files, locks and handlers keep their types; a row's preview is always
\* the cut one.
THEOREM TypeCorrect == Spec => []TypeOK
<1>1. IInv => TypeOK
  BY DEF IInv
<1> QED
  BY <1>1, Invariance, PTL

\* A note never has two files, whatever handlers, failed calls and crashes are
\* interleaved.
THEOREM AtMostOneFileHolds == Spec => []AtMostOneFile
<1>1. IInv => AtMostOneFile
  BY DEF IInv
<1> QED
  BY <1>1, Invariance, PTL

\* The empty file of CreateExclusive never stands for a note that has a row.
THEOREM SentinelNeverReadHolds == Spec => []SentinelNeverRead
<1>1. IInv => SentinelNeverRead
  BY DEF IInv
<1> QED
  BY <1>1, Invariance, PTL
=============================================================================
