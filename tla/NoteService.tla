---------------------------- MODULE NoteService ----------------------------
(***************************************************************************)
(* The notes RPC handlers over the two stores that hold a note: the row of *)
(* table notes and the file <title>_<id>.md.  Every handler runs in a      *)
(* goroutine of its own; one action is one call to the operating system,   *)
(* to SQLite or to common.Locker, so that handlers interleave wherever the *)
(* code lets them.  The path locks are those of PathMutex.                 *)
(*                                                                         *)
(* All notes are in one directory, which exists throughout.  Titles are    *)
(* numbered so that a smaller title makes the smaller file path.           *)
(***************************************************************************)
EXTENDS Integers, Sequences, FiniteSetsExt

CONSTANTS
    Handlers,       \* goroutines that serve requests
    Ids,            \* the UUIDs that uuid.NewString can return
    NumTitles,      \* number of titles that requests use
    Contents,       \* note bodies that requests carry: sequences of runes
    PreviewRunes,   \* length of a preview, 100 in the code
    Faults,         \* which calls may fail, see AllFaults
    Sentinel,       \* the empty file that CreateExclusive opens
    None            \* no row, no file, no owner, no value

\* The calls that may fail, and "crash": the server process dies.
AllFaults ==
    {"open", "temp", "swap", "statCreated", "insert", "query", "statOld",
     "rename", "write", "statNew", "update", "remove", "delete", "read",
     "list", "undo", "crash"}

Titles    == 1 .. NumTitles
NotePath(title, id) == <<title, id>>
NotePaths == Titles \X Ids

\* computePreview: the first PreviewRunes runes of the content.
Preview(content) ==
    IF Len(content) > PreviewRunes THEN SubSeq(content, 1, PreviewRunes) ELSE content

ASSUME HandlersAssumption == None \notin Handlers
ASSUME IdsAssumption      == None \notin Ids
ASSUME TitlesAssumption   == NumTitles \in Nat
ASSUME ContentsAssumption == /\ None \notin Contents /\ Sentinel \notin Contents
                             /\ None # Sentinel
ASSUME RowsAssumption     == \A t \in Titles, c \in Contents :
                                None # [title |-> t, preview |-> Preview(c)]
ASSUME FaultsAssumption   == Faults \subseteq AllFaults

VARIABLES
    rows,       \* table notes: [title, preview] of each id, or None
    files,      \* the content at each path, Sentinel, or None
    owner,      \* the path locks of NotesServer.locks
    used,       \* the UUIDs given out so far
    pc,         \* the next call of each handler
    req,        \* the request that it serves
    from,       \* the title that it read from the row (CreateNote: the new title)
    todo,       \* ListNotes: rows of the query result not looked at so far
    listed,     \* ListNotes: ids collected so far
    reply       \* the outcome it has decided on, or None

vars == <<rows, files, owner, used, pc, req, from, todo, listed, reply>>

Locks == INSTANCE PathMutex WITH Procs <- Handlers, Paths <- NotePaths, Nobody <- None

\* A request that names a note and nothing else.
ById(op, id) == [op |-> op, id |-> id, title |-> 0, content |-> None]
NoRequest    == ById("none", None)

Rows    == [title : Titles, preview : {Preview(c) : c \in Contents}]
Replies == {"ok", "invalid", "exists", "notfound", "internal"}
PCs     == {"idle", "lock", "done",
            "sentinel", "fill", "statCreated", "insert",
            "query", "statOld", "rename", "write", "statNew", "update",
            "remove", "delete", "read", "listQuery", "listRead"}

ASSUME RepliesAssumption == None \notin Replies

TypeOK ==
    /\ rows \in [Ids -> Rows \cup {None}]
    /\ files \in [NotePaths -> Contents \cup {Sentinel, None}]
    /\ Locks!TypeOK
    /\ used \subseteq Ids
    /\ pc \in [Handlers -> PCs]
    /\ req \in [Handlers -> [op : {"none", "create", "update", "delete", "get", "list"},
                             id : Ids \cup {None}, title : Titles \cup {0},
                             content : Contents \cup {None}]]
    /\ from \in [Handlers -> Titles \cup {0}]
    /\ todo \in [Handlers -> SUBSET NotePaths]
    /\ listed \in [Handlers -> SUBSET Ids]
    /\ reply \in [Handlers -> Replies \cup {None}]

Idle(h) == pc[h] = "idle"

Init ==
    /\ rows = [i \in Ids |-> None]
    /\ files = [x \in NotePaths |-> None]
    /\ Locks!Init
    /\ used = {}
    /\ pc = [h \in Handlers |-> "idle"]
    /\ req = [h \in Handlers |-> NoRequest]
    /\ from = [h \in Handlers |-> 0]
    /\ todo = [h \in Handlers |-> {}]
    /\ listed = [h \in Handlers |-> {}]
    /\ reply = [h \in Handlers |-> None]

-----------------------------------------------------------------------------
\* oldAbsPath (absPath in CreateNote, DeleteNote and GetNote) and newAbsPath.
OldPath(h) == NotePath(from[h], req[h].id)
NewPath(h) == NotePath(req[h].title, req[h].id)
Renames(h) == from[h] # req[h].title

At(h, label) == pc[h] = label

\* The handler goes on to the call named label.
Goto(h, label) == pc' = [pc EXCEPT ![h] = label] /\ UNCHANGED reply

\* The handler returns: it has decided on its outcome; its deferred unlock runs.
Return(h, outcome) ==
    /\ pc' = [pc EXCEPT ![h] = "done"]
    /\ reply' = [reply EXCEPT ![h] = outcome]

\* The call may fail, with the handler's state as it is.
Fails(fault) == fault \in Faults

Stores == <<rows, files>>
Call   == <<used, req, from, todo, listed>>

\* os.Rename: the target, if there is one, is replaced.
Moved(x, y) == [files EXCEPT ![y] = files[x], ![x] = None]

-----------------------------------------------------------------------------
(***************************************************************************)
(* Requests.                                                               *)
(***************************************************************************)
Begin(h, request, title, label) ==
    /\ Idle(h)
    /\ req' = [req EXCEPT ![h] = request]
    /\ from' = [from EXCEPT ![h] = title]
    /\ Goto(h, label)
    /\ UNCHANGED <<rows, files, owner, todo, listed>>

BeginCreate(h) ==
    \E id \in Ids \ used, t \in Titles, c \in Contents :
       /\ used' = used \cup {id}
       /\ Begin(h, [op |-> "create", id |-> id, title |-> t, content |-> c], t, "lock")

BeginUpdate(h) ==
    \E id \in used, t \in Titles, c \in Contents :
       /\ Begin(h, [op |-> "update", id |-> id, title |-> t, content |-> c], 0, "query")
       /\ UNCHANGED used

BeginDelete(h) ==
    \E id \in used :
       /\ Begin(h, ById("delete", id), 0, "query")
       /\ UNCHANGED used

BeginGet(h) ==
    \E id \in used :
       /\ Begin(h, ById("get", id), 0, "query")
       /\ UNCHANGED used

BeginList(h) ==
    /\ Begin(h, ById("list", None), 0, "listQuery")
    /\ UNCHANGED used

\* A request that fails validation touches nothing.
Refuse(h) ==
    /\ Idle(h)
    /\ Return(h, "invalid")
    /\ UNCHANGED <<Stores, owner, Call>>

-----------------------------------------------------------------------------
(***************************************************************************)
(* The path locks: Lock(absPath) and LockMany(oldAbsPath, newAbsPath), the *)
(* deferred unlock in the reverse order, and the response.                 *)
(***************************************************************************)
Wanted(h) ==
    IF req[h].op = "delete" THEN {OldPath(h)} ELSE {OldPath(h), NewPath(h)}

Held(h) == {x \in NotePaths : owner[x] = h}

FirstPath(S) == CHOOSE x \in S : \A y \in S : x[1] <= y[1]
LastPath(S)  == CHOOSE x \in S : \A y \in S : x[1] >= y[1]

AfterLock(op) ==
    CASE op = "create" -> "sentinel" [] op = "update" -> "statOld" [] op = "delete" -> "remove"

\* Mutant: the path is taken whoever has it.
LockNextUnguarded(h) ==
    /\ At(h, "lock")
    /\ LET missing == {x \in Wanted(h) : owner[x] # h} IN
         /\ owner' = [owner EXCEPT ![FirstPath(missing)] = h]
         /\ IF missing = {FirstPath(missing)}
              THEN Goto(h, AfterLock(req[h].op))
              ELSE UNCHANGED <<pc, reply>>
    /\ UNCHANGED <<Stores, Call>>

\* Mutant: the old path first, instead of the smaller one.
LockNextOldFirst(h) ==
    /\ At(h, "lock")
    /\ LET missing == {x \in Wanted(h) : owner[x] # h}
           first   == IF OldPath(h) \in missing THEN OldPath(h) ELSE NewPath(h)
       IN  /\ Locks!Acquire(h, first)
           /\ IF missing = {first}
                THEN Goto(h, AfterLock(req[h].op))
                ELSE UNCHANGED <<pc, reply>>
    /\ UNCHANGED <<Stores, Call>>

LockNext(h) ==
    /\ At(h, "lock")
    /\ LET missing == {x \in Wanted(h) : owner[x] # h} IN
         /\ Locks!Acquire(h, FirstPath(missing))
         /\ IF missing = {FirstPath(missing)}
              THEN Goto(h, AfterLock(req[h].op))
              ELSE UNCHANGED <<pc, reply>>
    /\ UNCHANGED <<Stores, Call>>

UnlockNext(h) ==
    /\ At(h, "done")
    /\ Held(h) # {}
    /\ Locks!Release(h, LastPath(Held(h)))
    /\ UNCHANGED <<Stores, Call, pc, reply>>

Respond(h) ==
    /\ At(h, "done")
    /\ Held(h) = {}
    /\ pc' = [pc EXCEPT ![h] = "idle"]
    /\ req' = [req EXCEPT ![h] = NoRequest]
    /\ from' = [from EXCEPT ![h] = 0]
    /\ listed' = [listed EXCEPT ![h] = {}]
    /\ todo' = [todo EXCEPT ![h] = {}]
    /\ reply' = [reply EXCEPT ![h] = None]
    /\ UNCHANGED <<Stores, owner, used>>

-----------------------------------------------------------------------------
(***************************************************************************)
(* CreateNote: CreateExclusive opens an empty file with O_EXCL and then    *)
(* renames the written temporary file over it; Stat; InsertNote.           *)
(***************************************************************************)
\* Mutant: the row is inserted before the content is written.
OpenSentinelThenInsert(h) ==
    /\ At(h, "sentinel")
    /\ files' = [files EXCEPT ![OldPath(h)] = Sentinel]
    /\ Goto(h, "insert")
    /\ UNCHANGED <<rows, owner, Call>>

OpenSentinel(h) ==
    /\ At(h, "sentinel")
    /\ \/ /\ IF files[OldPath(h)] = None
               THEN /\ files' = [files EXCEPT ![OldPath(h)] = Sentinel]
                    /\ Goto(h, "fill")
               ELSE /\ UNCHANGED files
                    /\ Return(h, "exists")
       \/ /\ Fails("open")
          /\ UNCHANGED files
          /\ Return(h, "internal")
    /\ UNCHANGED <<rows, owner, Call>>

\* The cleanup that removes the sentinel covers the calls on the temporary file
\* (temp) and not the final rename (swap).
FillSentinel(h) ==
    /\ At(h, "fill")
    /\ \/ /\ files' = [files EXCEPT ![OldPath(h)] = req[h].content]
          /\ Goto(h, "statCreated")
       \/ /\ Fails("temp")
          /\ files' = [files EXCEPT ![OldPath(h)] = None]
          /\ Return(h, "internal")
       \/ /\ Fails("swap")
          /\ UNCHANGED files
          /\ Return(h, "internal")
    /\ UNCHANGED <<rows, owner, Call>>

StatCreated(h) ==
    /\ At(h, "statCreated")
    /\ \/ Goto(h, "insert")
       \/ Fails("statCreated") /\ Return(h, "internal")
    /\ UNCHANGED <<Stores, owner, Call>>

\* Mutant: the row gets the content instead of its preview.
InsertNoteUncut(h) ==
    /\ At(h, "insert")
    /\ rows' = [rows EXCEPT ![req[h].id] =
                  [title |-> req[h].title, preview |-> req[h].content]]
    /\ Return(h, "ok")
    /\ UNCHANGED <<files, owner, Call>>

\* On a database error the file is removed again; that may fail too (undo).
InsertNote(h) ==
    /\ At(h, "insert")
    /\ \/ /\ rows' = [rows EXCEPT ![req[h].id] =
                        [title |-> req[h].title, preview |-> Preview(req[h].content)]]
          /\ UNCHANGED files
          /\ Return(h, "ok")
       \/ /\ Fails("insert")
          /\ files' = [files EXCEPT ![OldPath(h)] = None]
          /\ UNCHANGED rows
          /\ Return(h, "internal")
       \/ /\ Fails("insert") /\ Fails("undo")
          /\ UNCHANGED Stores
          /\ Return(h, "internal")
    /\ UNCHANGED <<owner, Call>>

-----------------------------------------------------------------------------
(***************************************************************************)
(* UpdateNote, DeleteNote and GetNote read the row first, before any lock. *)
(***************************************************************************)
QueryRow(h) ==
    /\ At(h, "query")
    /\ \/ /\ rows[req[h].id] = None
          /\ Return(h, "notfound")
          /\ UNCHANGED from
       \/ /\ rows[req[h].id] # None
          /\ from' = [from EXCEPT ![h] = rows[req[h].id].title]
          /\ Goto(h, IF req[h].op = "get" THEN "read" ELSE "lock")
       \/ /\ Fails("query")
          /\ Return(h, "internal")
          /\ UNCHANGED from
    /\ UNCHANGED <<Stores, owner, used, req, todo, listed>>

\* Mutant: no check that the old file is still there.
StatOldSkipped(h) ==
    /\ At(h, "statOld")
    /\ Goto(h, IF Renames(h) THEN "rename" ELSE "write")
    /\ UNCHANGED <<Stores, owner, Call>>

StatOld(h) ==
    /\ At(h, "statOld")
    /\ \/ /\ files[OldPath(h)] = None
          /\ Return(h, "notfound")
       \/ /\ files[OldPath(h)] # None
          /\ Goto(h, IF Renames(h) THEN "rename" ELSE "write")
       \/ /\ Fails("statOld")
          /\ Return(h, "internal")
    /\ UNCHANGED <<Stores, owner, Call>>

\* Mutant: the old file stays, as when the new path is only written.
RenameFileCopies(h) ==
    /\ At(h, "rename")
    /\ files' = [files EXCEPT ![NewPath(h)] = files[OldPath(h)]]
    /\ Goto(h, "write")
    /\ UNCHANGED <<rows, owner, Call>>

RenameFile(h) ==
    /\ At(h, "rename")
    /\ \/ /\ IF files[OldPath(h)] = None
               THEN /\ UNCHANGED files
                    /\ Return(h, "notfound")
               ELSE /\ files' = Moved(OldPath(h), NewPath(h))
                    /\ Goto(h, "write")
       \/ /\ Fails("rename")
          /\ UNCHANGED files
          /\ Return(h, "internal")
    /\ UNCHANGED <<rows, owner, Call>>

\* Mutant: no rollback.
UndoNothing(h) == UNCHANGED files

\* The rollback of a rename, which may itself fail (undo).
UndoRename(h) ==
    IF Renames(h)
      THEN \/ files' = Moved(NewPath(h), OldPath(h))
           \/ Fails("undo") /\ UNCHANGED files
      ELSE UNCHANGED files

\* Mutant: a failed write has destroyed the file (no temporary file).
WriteFileInPlace(h) ==
    /\ At(h, "write")
    /\ \/ /\ files' = [files EXCEPT ![NewPath(h)] = req[h].content]
          /\ Goto(h, "statNew")
       \/ /\ Fails("write")
          /\ files' = [files EXCEPT ![NewPath(h)] = None]
          /\ Return(h, "internal")
    /\ UNCHANGED <<rows, owner, Call>>

\* common.File replaces the content by a rename of the temporary file.
WriteFile(h) ==
    /\ At(h, "write")
    /\ \/ /\ files' = [files EXCEPT ![NewPath(h)] = req[h].content]
          /\ Goto(h, "statNew")
       \/ /\ Fails("write")
          /\ UndoRename(h)
          /\ Return(h, "internal")
    /\ UNCHANGED <<rows, owner, Call>>

\* A failure here is not rolled back.
StatNew(h) ==
    /\ At(h, "statNew")
    /\ \/ Goto(h, "update")
       \/ Fails("statNew") /\ Return(h, "internal")
    /\ UNCHANGED <<Stores, owner, Call>>

\* A row that is gone is not rolled back either; another database error is,
\* as to the file's name and not its content.
UpdateRow(h) ==
    /\ At(h, "update")
    /\ \/ /\ rows[req[h].id] = None
          /\ UNCHANGED Stores
          /\ Return(h, "notfound")
       \/ /\ rows[req[h].id] # None
          /\ rows' = [rows EXCEPT ![req[h].id] =
                        [title |-> req[h].title, preview |-> Preview(req[h].content)]]
          /\ UNCHANGED files
          /\ Return(h, "ok")
       \/ /\ Fails("update")
          /\ UndoRename(h)
          /\ UNCHANGED rows
          /\ Return(h, "internal")
    /\ UNCHANGED <<owner, Call>>

-----------------------------------------------------------------------------
(***************************************************************************)
(* DeleteNote: the file first (a missing file is not an error), then the   *)
(* row.                                                                    *)
(***************************************************************************)
RemoveFile(h) ==
    /\ At(h, "remove")
    /\ \/ /\ files' = [files EXCEPT ![OldPath(h)] = None]
          /\ Goto(h, "delete")
       \/ /\ Fails("remove")
          /\ UNCHANGED files
          /\ Return(h, "internal")
    /\ UNCHANGED <<rows, owner, Call>>

DeleteRow(h) ==
    /\ At(h, "delete")
    /\ \/ /\ rows' = [rows EXCEPT ![req[h].id] = None]
          /\ Return(h, IF rows[req[h].id] = None THEN "notfound" ELSE "ok")
       \/ /\ Fails("delete")
          /\ UNCHANGED rows
          /\ Return(h, "internal")
    /\ UNCHANGED <<files, owner, Call>>

-----------------------------------------------------------------------------
(***************************************************************************)
(* GetNote and ListNotes read the files without a lock; ListNotes skips a  *)
(* note whose file is missing.                                             *)
(***************************************************************************)
ReadFile(h) ==
    /\ At(h, "read")
    /\ \/ Return(h, IF files[OldPath(h)] = None THEN "notfound" ELSE "ok")
       \/ Fails("read") /\ Return(h, "internal")
    /\ UNCHANGED <<Stores, owner, Call>>

ListQuery(h) ==
    /\ At(h, "listQuery")
    /\ \/ /\ todo' = [todo EXCEPT ![h] =
                        {NotePath(rows[i].title, i) : i \in {j \in Ids : rows[j] # None}}]
          /\ Goto(h, "listRead")
       \/ /\ Fails("list")
          /\ Return(h, "internal")
          /\ UNCHANGED todo
    /\ UNCHANGED <<Stores, owner, used, req, from, listed>>

\* One row of the result; the order is the database's.
ListRead(h) ==
    /\ At(h, "listRead")
    /\ \/ \E x \in todo[h] :
            /\ todo' = [todo EXCEPT ![h] = @ \ {x}]
            /\ listed' = [listed EXCEPT ![h] = IF files[x] = None THEN @ ELSE @ \cup {x[2]}]
            /\ UNCHANGED <<pc, reply>>
       \/ /\ todo[h] # {} /\ Fails("read")
          /\ Return(h, "internal")
          /\ UNCHANGED <<todo, listed>>
       \/ /\ todo[h] = {}
          /\ Return(h, "ok")
          /\ UNCHANGED <<todo, listed>>
    /\ UNCHANGED <<Stores, owner, used, req, from>>

-----------------------------------------------------------------------------
\* The process dies: rows and files survive, everything else is gone.
Crash ==
    /\ Fails("crash")
    /\ owner' = [x \in NotePaths |-> None]
    /\ pc' = [h \in Handlers |-> "idle"]
    /\ req' = [h \in Handlers |-> NoRequest]
    /\ from' = [h \in Handlers |-> 0]
    /\ todo' = [h \in Handlers |-> {}]
    /\ listed' = [h \in Handlers |-> {}]
    /\ reply' = [h \in Handlers |-> None]
    /\ UNCHANGED <<rows, files, used>>

Request(h) ==
    \/ BeginCreate(h) \/ BeginUpdate(h) \/ BeginDelete(h) \/ BeginGet(h)
    \/ BeginList(h) \/ Refuse(h)

Step(h) ==
    \/ LockNext(h) \/ UnlockNext(h) \/ Respond(h)
    \/ OpenSentinel(h) \/ FillSentinel(h) \/ StatCreated(h) \/ InsertNote(h)
    \/ QueryRow(h) \/ StatOld(h) \/ RenameFile(h) \/ WriteFile(h) \/ StatNew(h)
    \/ UpdateRow(h) \/ RemoveFile(h) \/ DeleteRow(h)
    \/ ReadFile(h) \/ ListQuery(h) \/ ListRead(h)

Next == Crash \/ \E h \in Handlers : Request(h) \/ Step(h)

Spec == Init /\ [][Next]_vars

\* Every goroutine runs on, and a caller of Lock that waits for a path gets it
\* if the path is free again and again (PathLock's LockReturns).
Fairness == \A h \in Handlers : SF_vars(Step(h))

FairSpec == Spec /\ Fairness

-----------------------------------------------------------------------------
RowPath(id) == NotePath(rows[id].title, id)

\* No handler works on the note.
Quiet(id) == \A h \in Handlers : req[h].id # id

\* A note never has two files, whatever handlers, failed calls and crashes of
\* the server are interleaved: UpdateNote moves the file and writes in place.
AtMostOneFile ==
    \A id \in Ids : \A t, u \in Titles :
       files[NotePath(t, id)] # None /\ files[NotePath(u, id)] # None => t = u

\* The empty file of CreateExclusive never stands for a note that has a row, so
\* GetNote and ListNotes never return it, also after a failure or a crash
\* between the two renames of CreateNote.
SentinelNeverRead ==
    \A id \in Ids : rows[id] # None => \A t \in Titles : files[NotePath(t, id)] # Sentinel

\* A note whose path nobody has locked can be read: its row names its file.
\* The rollbacks of UpdateNote and CreateNote keep this, for every order of
\* concurrent updates, renames and deletions that read the row before the lock.
RowHasFile ==
    \A id \in Ids :
       rows[id] # None /\ owner[RowPath(id)] = None => files[RowPath(id)] # None

\* The preview in the row is that of the file's content when nobody has the
\* note's path locked: concurrent UpdateNotes leave both from the same request.
PreviewMatches ==
    \A id \in Ids :
       rows[id] # None /\ owner[RowPath(id)] = None =>
          /\ files[RowPath(id)] # None
          /\ rows[id].preview = Preview(files[RowPath(id)])

\* What CreateNote or UpdateNote has acknowledged is in both stores, as long as
\* it has its path locked: no handler interferes with a locked note.
AckedIsStored ==
    \A h \in Handlers :
       /\ req[h].op \in {"create", "update"} /\ reply[h] = "ok"
       /\ owner[NewPath(h)] = h
       => /\ rows[req[h].id] = [title |-> req[h].title, preview |-> Preview(req[h].content)]
          /\ files[NewPath(h)] = req[h].content

\* A file without a row does not outlive the handlers that work on its note.
NoOrphanFile ==
    \A x \in NotePaths : files[x] # None /\ Quiet(x[2]) => rows[x[2]] # None

\* h finds in this step that note id does not exist: it decides to answer
\* NotFound, or ListNotes skips the row.
Misses(h, id) ==
    \/ req[h].id = id /\ reply[h] # "notfound" /\ reply'[h] = "notfound"
    \/ /\ pc[h] = "listRead" /\ todo'[h] # todo[h] /\ listed'[h] = listed[h]
       /\ \E x \in todo[h] \ todo'[h] : x[2] = id

\* UpdateNote, GetNote, DeleteNote and ListNotes miss a note only when its row
\* is gone or a DeleteNote has already removed its file.
MissesOnlyDeleted ==
    [][\A h \in Handlers, id \in Ids : Misses(h, id) =>
          \/ rows[id] = None
          \/ \E g \in Handlers : req[g].op = "delete" /\ req[g].id = id /\ pc[g] = "delete"]_vars

\* Every request is answered: no handler is stuck at a path lock.
EveryRequestAnswered == \A h \in Handlers : pc[h] # "idle" ~> pc[h] = "idle"

-----------------------------------------------------------------------------
(***************************************************************************)
(* The service as a store.  A note is there when it has a row and the      *)
(* row's file; UpdateNote has taken effect when the file is written,       *)
(* DeleteNote when it is removed, CreateNote when the row is inserted.     *)
(***************************************************************************)
NoteContent == [id \in Ids |-> IF rows[id] = None THEN None ELSE files[RowPath(id)]]

StageAt(label) ==
    CASE label \in {"statNew", "update", "delete"} -> "applied"
      [] label = "listRead" -> "listing"
      [] label = "idle" -> "idle"
      [] label = "done" -> "answered"
      [] OTHER -> "called"

Stage  == [h \in Handlers |-> StageAt(pc[h])]
Asked  == [h \in Handlers |-> [op |-> req[h].op, id |-> req[h].id, content |-> req[h].content]]
ToLook == [h \in Handlers |-> {x[2] : x \in todo[h]}]

Store == INSTANCE NoteStore
         WITH Clients <- Handlers, notes <- NoteContent, stage <- Stage, ask <- Asked,
              todo <- ToLook

\* While notes keep their titles, the handlers together are one atomic store of
\* notes, whichever calls fail and whenever the server dies: a note is never
\* there empty or half made, an acknowledged creation or update is not lost,
\* NotFound is answered only when the note is not there, and ListNotes leaves
\* out no note that is there from its query to its answer.
ImplementsNoteStore == Store!Spec
=============================================================================
