----------------------------- MODULE FolderOps ------------------------------
(***************************************************************************)
(* The file RPC handlers, and the two handlers that put something into a   *)
(* folder.  A folder exists on disk only; what it holds is recorded twice: *)
(* note files move with the directory, the parent_dir columns of notes and *)
(* task_lists are rewritten by SQL.  One action is one call to the         *)
(* operating system, to SQLite or to FileServer.locks.                     *)
(*                                                                         *)
(* The data directory holds no symbolic links and no folder that has the   *)
(* name of a note file.  Titles and contents are left out, and so are the  *)
(* locks of CreateNote and CreateTaskList: theirs are not FileServer's.    *)
(***************************************************************************)
EXTENDS ParentDirs

CONSTANTS
    Handlers,       \* goroutines that serve requests
    Notes, Lists,   \* the UUIDs that uuid.NewString can return
    Folders,        \* paths that requests carry, valid or not
    Names,          \* folder names that requests carry, valid or not
    Faults,         \* which calls may fail, see AllFaults
    MaxRequests,    \* bound: requests that pass their checks
    None            \* no directory, no row, no owner, no value

\* The calls that may fail, and "crash": the server process dies.
AllFaults ==
    {"mkdir", "rename", "renameRows", "undo", "deleteRows", "removeAll", "readDir",
     "count", "query", "create", "stat", "insert", "remove", "crash"}

\* Every path that a handler can work on: in the code, every path.
Paths == LET valid == {Resolve(p) : p \in {q \in Folders : CleanPath(q)}} IN
         valid \cup {InDir(d, n) : d \in valid \cup {Dir(p) : p \in valid}, n \in Names}

ASSUME HandlersAssumption == None \notin Handlers
ASSUME ItemsAssumption    == None \notin Notes \cup Lists /\ Notes \cap Lists = {}
ASSUME FoldersAssumption  == /\ Folders \subseteq Text /\ Names \subseteq Text
                             /\ None \notin Text
ASSUME RequestsAssumption == MaxRequests \in Nat
ASSUME FolderFaultsAssumption == Faults \subseteq AllFaults

VARIABLES
    dirs,       \* the directories below the data directory
    files,      \* the directory that holds each note's file, or None
    notes,      \* parent_dir of each row of table notes, or None
    lists,      \* parent_dir of each row of table task_lists, or None
    used,       \* the UUIDs given out so far
    begun,      \* the number of requests that passed their checks
    owner,      \* the path locks of FileServer.locks
    pc,         \* the next call of each handler
    req,        \* the request that it serves
    todo,       \* ListFiles: folders to build an entry for, the first call made or not
    seen,       \* ListFiles: the entries built so far
    reply,      \* the outcome it has decided on, or None
    calm,       \* history: ListFiles calls during which nothing changed or failed
    disturbed   \* history: a failure that the code does not repair, or a tangle

stores == <<dirs, files, notes, lists>>
vars   == <<dirs, files, notes, lists, used, begun, owner, pc, req, todo, seen, reply,
            calm, disturbed>>

Locks == INSTANCE PathMutex WITH Procs <- Handlers, Paths <- Paths, Nobody <- None

\* A request: the folder it is about, where that goes (a rename), the item it
\* creates, and the text that a new row gets as its parent_dir.
Request(op, path, target, item, text) ==
    [op |-> op, path |-> path, target |-> target, item |-> item, text |-> text]
NoRequest == Request("none", Root, Root, None, Root)

\* An answer of ListFiles: the child_count of each folder entry, the ids of
\* the task lists and of the notes.
NothingSeen == [folders |-> <<>>, lists |-> {}, notes |-> {}]

Exists(dir) == dir = Root \/ dir \in dirs
Subdirs(dir) == {d \in dirs : d # dir /\ Dir(d) = dir}
RowsIn(table, dir) == {i \in DOMAIN table : table[i] = dir}
Empty(dir) == Subdirs(dir) = {} /\ RowsIn(files, dir) = {}

PCs == {"idle", "lock", "stat", "mkdir", "check", "rename", "renameRows", "undo",
        "moveBack", "deleteRows", "removeAll", "readDir", "entries", "countRows",
        "listNotes", "create", "statFile", "insert", "remove", "insertList", "done"}
Replies == {"ok", "invalid", "exists", "notfound", "internal"}
ASSUME RepliesAssumption == None \notin Replies

Init ==
    /\ dirs = {}
    /\ files = [n \in Notes |-> None]
    /\ notes = [n \in Notes |-> None]
    /\ lists = [l \in Lists |-> None]
    /\ used = {}
    /\ begun = 0
    /\ Locks!Init
    /\ pc = [h \in Handlers |-> "idle"]
    /\ req = [h \in Handlers |-> NoRequest]
    /\ todo = [h \in Handlers |-> {}]
    /\ seen = [h \in Handlers |-> NothingSeen]
    /\ reply = [h \in Handlers |-> None]
    /\ calm = {}
    /\ disturbed = FALSE

-----------------------------------------------------------------------------
At(h, label) == pc[h] = label

Goto(h, label) == pc' = [pc EXCEPT ![h] = label] /\ UNCHANGED reply

\* The handler returns: it has decided on its outcome; its deferred unlock runs.
Return(h, outcome) ==
    /\ pc' = [pc EXCEPT ![h] = "done"]
    /\ reply' = [reply EXCEPT ![h] = outcome]

Fails(fault) == fault \in Faults

\* What a call of a handler that lists nothing leaves alone.
Call == <<used, begun, req, todo, seen>>

\* A step that changes a store ends the calm of every ListFiles under way.
Quiet   == UNCHANGED <<calm, disturbed>>
Stirs   == calm' = {} /\ UNCHANGED disturbed
Damages == calm' = {} /\ disturbed' = TRUE

-----------------------------------------------------------------------------
(***************************************************************************)
(* Two requests tangle when one works on a folder on, above or below the   *)
(* other's.  The lock of a folder keeps requests for that very path apart, *)
(* and CreateFolder writes no row, so neither of these tangles.            *)
(***************************************************************************)
Footprint(r) == {r.path, r.target}
Writes(r)    == r.op \in {"update", "delete", "note", "list"}
LocksFolder(r) == r.op \in {"update", "delete"}

Tangled(r, s) ==
    /\ Writes(r) /\ Writes(s)
    /\ ~ (LocksFolder(r) /\ LocksFolder(s) /\ r.path = s.path)
    /\ LocksFolder(r) \/ LocksFolder(s)
    /\ \E x \in Footprint(r), y \in Footprint(s) : Within(x, y) \/ Within(y, x)

\* The handler starts a request that has passed its checks.
Start(h, request, label) ==
    /\ begun < MaxRequests
    /\ begun' = begun + 1
    /\ req' = [req EXCEPT ![h] = request]
    /\ used' = used \cup ({request.item} \ {None})
    /\ calm' = IF request.op = "files" THEN calm \cup {h} ELSE calm
    /\ disturbed' = (\/ disturbed
                      \/ \E k \in Handlers \ {h} : ~ At(k, "done") /\ Tangled(request, req[k]))
    /\ Goto(h, label)

\* The checks before the first call that matters: the paths and names, then
\* RequireDir on the directory that the request names.
Begin(h, valid, dir, request, label) ==
    /\ At(h, "idle")
    /\ \/ valid /\ Exists(dir) /\ Start(h, request, label)
       \/ /\ Return(h, IF valid THEN "notfound" ELSE "invalid")
          /\ valid => ~ Exists(dir)
          /\ UNCHANGED <<req, used, begun>> /\ Quiet
    /\ UNCHANGED <<stores, owner, todo, seen>>

BeginCreateFolder(h) ==
    \E p \in Folders, n \in Names :
       LET new == InDir(Resolve(p), n) IN
       Begin(h, ValidateName(n) /\ ValidateParentDir(p), Resolve(p),
             Request("create", new, new, None, Root), "lock")

BeginUpdateFolder(h) ==
    \E p \in Folders, n \in Names :
       Begin(h, ValidateName(n) /\ ValidatePath(p), p,
             Request("update", p, InDir(Dir(p), n), None, Root), "lock")

BeginDeleteFolder(h) ==
    \E p \in Folders :
       Begin(h, ValidatePath(p), p, Request("delete", p, p, None, Root), "lock")

BeginListFiles(h) ==
    \E p \in Folders :
       Begin(h, ValidateParentDir(p), Resolve(p),
             Request("files", Resolve(p), Resolve(p), None, p), "readDir")

BeginCreateNote(h) ==
    \E p \in Folders, n \in Notes \ used :
       Begin(h, ValidateParentDir(p), Resolve(p),
             Request("note", Resolve(p), Resolve(p), n, p), "create")

BeginCreateTaskList(h) ==
    \E p \in Folders, l \in Lists \ used :
       Begin(h, ValidateParentDir(p), Resolve(p),
             Request("list", Resolve(p), Resolve(p), l, p), "insertList")

-----------------------------------------------------------------------------
(***************************************************************************)
(* FileServer.locks: CreateFolder locks the new path, UpdateFolder the old *)
(* one, DeleteFolder its target.                                           *)
(***************************************************************************)
FirstCall == [create |-> "stat", update |-> "check", delete |-> "deleteRows"]

\* A mutated Lock that returns at once.
LockNothing(h) ==
    /\ At(h, "lock")
    /\ Goto(h, FirstCall[req[h].op])
    /\ UNCHANGED <<stores, owner, Call>> /\ Quiet

Lock(h) ==
    /\ At(h, "lock")
    /\ Locks!Acquire(h, req[h].path)
    /\ Goto(h, FirstCall[req[h].op])
    /\ UNCHANGED <<stores, Call>> /\ Quiet

\* The deferred unlock, and the answer is sent.
Respond(h) ==
    /\ At(h, "done")
    /\ owner' = [p \in Paths |-> IF owner[p] = h THEN None ELSE owner[p]]
    /\ pc' = [pc EXCEPT ![h] = "idle"]
    /\ req' = [req EXCEPT ![h] = NoRequest]
    /\ todo' = [todo EXCEPT ![h] = {}]
    /\ seen' = [seen EXCEPT ![h] = NothingSeen]
    /\ reply' = [reply EXCEPT ![h] = None]
    /\ calm' = calm \ {h}
    /\ UNCHANGED <<stores, used, begun, disturbed>>

-----------------------------------------------------------------------------
(***************************************************************************)
(* CreateFolder.                                                           *)
(***************************************************************************)
StatFolder(h) ==
    /\ At(h, "stat")
    /\ \/ Exists(req[h].path) /\ Return(h, "exists")
       \/ ~ Exists(req[h].path) /\ Goto(h, "mkdir")
    /\ UNCHANGED <<stores, owner, Call>> /\ Quiet

\* os.Mkdir fails when the path exists or its parent does not.
Mkdir(h) ==
    LET new == req[h].path IN
    /\ At(h, "mkdir")
    /\ \/ /\ ~ Exists(new) /\ Exists(Dir(new))
          /\ dirs' = dirs \cup {new}
          /\ Return(h, "ok")
          /\ Stirs
       \/ /\ Fails("mkdir") \/ Exists(new) \/ ~ Exists(Dir(new))
          /\ Return(h, "internal")
          /\ UNCHANGED dirs /\ Quiet
    /\ UNCHANGED <<files, notes, lists, owner, Call>>

-----------------------------------------------------------------------------
(***************************************************************************)
(* UpdateFolder.                                                           *)
(***************************************************************************)
\* The Stat of the new path, and the Lstat with which os.Rename refuses a new
\* path that is a directory, the old path included.
CheckTarget(h) ==
    LET r == req[h] IN
    /\ At(h, "check")
    /\ \/ r.target # r.path /\ Exists(r.target) /\ Return(h, "exists")
       \/ Exists(r.target) /\ Return(h, "internal")
       \/ ~ Exists(r.target) /\ Goto(h, "rename")
    /\ UNCHANGED <<stores, owner, Call>> /\ Quiet

\* rename(2) of a directory: the new path, if it is there by now, is empty.
CanRename(old, new) == Exists(old) /\ (Exists(new) => Empty(new))

\* A mutated rename that moves the directory without what is in it.
RenameShallow(old, new) ==
    /\ dirs' = {IF d = old THEN new ELSE d : d \in dirs}
    /\ files' = [n \in Notes |-> IF files[n] = old THEN new ELSE files[n]]

RenameOnDisk(old, new) ==
    /\ dirs' = {Moved(d, old, new) : d \in dirs}
    /\ files' = [n \in Notes |-> IF files[n] = None THEN None ELSE Moved(files[n], old, new)]

RenameFolder(h) ==
    LET r == req[h] IN
    /\ At(h, "rename")
    /\ \/ /\ CanRename(r.path, r.target)
          /\ RenameOnDisk(r.path, r.target)
          /\ Goto(h, "renameRows")
          /\ Stirs
       \/ /\ Fails("rename") \/ ~ CanRename(r.path, r.target)
          /\ Return(h, "internal")
          /\ UNCHANGED <<dirs, files>> /\ Quiet
    /\ UNCHANGED <<notes, lists, owner, Call>>

\* RenameParentDir: one transaction on both tables.
RenamedTable(table, r) ==
    [i \in DOMAIN table |->
        IF table[i] = None THEN None ELSE RenamedBy(table[i], r.path, r.target)]

RenameParentDir(h) ==
    /\ At(h, "renameRows")
    /\ \/ /\ notes' = RenamedTable(notes, req[h])
          /\ lists' = RenamedTable(lists, req[h])
          /\ Return(h, "ok")
          /\ Stirs
       \/ /\ Fails("renameRows")
          /\ Goto(h, "undo")
          /\ UNCHANGED <<notes, lists>> /\ Quiet
    /\ UNCHANGED <<dirs, files, owner, Call>>

\* The rollback: the Lstat with which os.Rename refuses an old path that is
\* there again, then rename(2).
CheckOldPath(h) ==
    /\ At(h, "undo")
    /\ \/ Exists(req[h].path) /\ Return(h, "internal") /\ Damages
       \/ ~ Exists(req[h].path) /\ Goto(h, "moveBack") /\ Quiet
    /\ UNCHANGED <<stores, owner, Call>>

UndoRename(h) ==
    LET r == req[h] IN
    /\ At(h, "moveBack")
    /\ \/ /\ CanRename(r.target, r.path)
          /\ RenameOnDisk(r.target, r.path)
          /\ Stirs
       \/ /\ Fails("undo") \/ ~ CanRename(r.target, r.path)
          /\ UNCHANGED <<dirs, files>> /\ Damages
    /\ Return(h, "internal")
    /\ UNCHANGED <<notes, lists, owner, Call>>

-----------------------------------------------------------------------------
(***************************************************************************)
(* DeleteFolder.                                                           *)
(***************************************************************************)
\* DeleteByParentDir: one transaction on both tables.
DeletedTable(table, r) ==
    [i \in DOMAIN table |->
        IF table[i] = None \/ DeletedBy(table[i], r.path) THEN None ELSE table[i]]

DeleteByParentDir(h) ==
    /\ At(h, "deleteRows")
    /\ \/ /\ notes' = DeletedTable(notes, req[h])
          /\ lists' = DeletedTable(lists, req[h])
          /\ Goto(h, "removeAll")
          /\ Stirs
       \/ /\ Fails("deleteRows")
          /\ Return(h, "internal")
          /\ UNCHANGED <<notes, lists>> /\ Quiet
    /\ UNCHANGED <<dirs, files, owner, Call>>

\* os.RemoveAll removes the files and directories in gone.  It fails with
\* some of them left, and no directory goes before what it holds.
RemoveOnDisk(gone, lost) ==
    /\ dirs' = dirs \ gone
    /\ files' = [n \in Notes |-> IF n \in lost THEN None ELSE files[n]]

RemoveAll(h) ==
    LET inside == {d \in dirs : Within(d, req[h].path)}
        held   == {n \in Notes : files[n] # None /\ Within(files[n], req[h].path)}
    IN
    /\ At(h, "removeAll")
    /\ \/ RemoveOnDisk(inside, held) /\ Return(h, "ok") /\ Stirs
       \/ /\ Fails("removeAll")
          /\ \E gone \in SUBSET inside, lost \in SUBSET held :
                /\ \A d \in gone : /\ Subdirs(d) \subseteq gone
                                   /\ RowsIn(files, d) \subseteq lost
                /\ RemoveOnDisk(gone, lost)
          /\ Return(h, "internal")
          /\ Damages
    /\ UNCHANGED <<notes, lists, owner, Call>>

-----------------------------------------------------------------------------
(***************************************************************************)
(* ListFiles.                                                              *)
(***************************************************************************)
\* A mutated entryPath that forgets the folder that is listed.
EntryName(dir, name) == name

\* The path that a child has in the answer and in CountChildrenInDir.
EntryPath(dir, name) == InDir(dir, name)

ReadDir(h) ==
    /\ At(h, "readDir")
    /\ \/ /\ Exists(req[h].path)
          /\ todo' = [todo EXCEPT ![h] = {Base(d) : d \in Subdirs(req[h].path)}]
          /\ Goto(h, "entries")
       \/ /\ Fails("readDir") \/ ~ Exists(req[h].path)
          /\ Return(h, "internal")
          /\ UNCHANGED todo
    /\ UNCHANGED <<stores, owner, used, begun, req, seen>> /\ Quiet

\* A call of buildFolderEntry that fails counts nothing and goes on.
Miscounts(h) == calm' = calm \ {h} /\ UNCHANGED disturbed

\* The entries built so far and one more.
Entered(counts, entry, n) ==
    [e \in DOMAIN counts \cup {entry} |-> IF e = entry THEN n ELSE counts[e]]

\* buildFolderEntry, first call: the subdirectories on disk.
CountSubdirs(h) ==
    /\ At(h, "entries") /\ todo[h] # {}
    /\ LET name  == CHOOSE n \in todo[h] : TRUE
           child == InDir(req[h].path, name)
           entry == EntryPath(req[h].text, name)
           Count(n) == seen' = [seen EXCEPT ![h].folders = Entered(@, entry, n)]
       IN  \/ Exists(child) /\ Count(Cardinality(Subdirs(child))) /\ Quiet
           \/ (Fails("count") \/ ~ Exists(child)) /\ Count(0) /\ Miscounts(h)
    /\ Goto(h, "countRows")
    /\ UNCHANGED <<stores, owner, used, begun, req, todo>>

\* buildFolderEntry, second call: CountChildrenInDir.
CountChildrenInDir(h) ==
    /\ At(h, "countRows")
    /\ LET name  == CHOOSE n \in todo[h] : TRUE
           entry == EntryPath(req[h].text, name)
           rows  == Cardinality(RowsIn(notes, entry)) + Cardinality(RowsIn(lists, entry))
       IN  /\ todo' = [todo EXCEPT ![h] = @ \ {name}]
           /\ \/ seen' = [seen EXCEPT ![h].folders[entry] = @ + rows] /\ Quiet
              \/ Fails("count") /\ UNCHANGED seen /\ Miscounts(h)
    /\ Goto(h, "entries")
    /\ UNCHANGED <<stores, owner, used, begun, req>>

ListTaskLists(h) ==
    /\ At(h, "entries") /\ todo[h] = {}
    /\ \/ /\ seen' = [seen EXCEPT ![h].lists = RowsIn(lists, req[h].text)]
          /\ Goto(h, "listNotes")
       \/ Fails("query") /\ Return(h, "internal") /\ UNCHANGED seen
    /\ UNCHANGED <<stores, owner, used, begun, req, todo>> /\ Quiet

ListNotes(h) ==
    /\ At(h, "listNotes")
    /\ \/ seen' = [seen EXCEPT ![h].notes = RowsIn(notes, req[h].text)] /\ Return(h, "ok")
       \/ Fails("query") /\ Return(h, "internal") /\ UNCHANGED seen
    /\ UNCHANGED <<stores, owner, used, begun, req, todo>> /\ Quiet

-----------------------------------------------------------------------------
(***************************************************************************)
(* CreateNote, as far as the folder matters, and CreateTaskList.  No other *)
(* request knows the new id, so the file's own lock is never waited for.   *)
(***************************************************************************)
\* The file is where CreateNote put it.
InPlace(h) == files[req[h].item] = req[h].path

CreateFile(h) ==
    /\ At(h, "create")
    /\ \/ /\ Exists(req[h].path)
          /\ files' = [files EXCEPT ![req[h].item] = req[h].path]
          /\ Goto(h, "statFile") /\ Stirs
       \/ /\ Fails("create") \/ ~ Exists(req[h].path)
          /\ Return(h, "internal")
          /\ UNCHANGED files /\ Quiet
    /\ UNCHANGED <<dirs, notes, lists, owner, Call>>

\* A Stat that fails returns without removing the file.
StatFile(h) ==
    /\ At(h, "statFile")
    /\ \/ InPlace(h) /\ Goto(h, "insert") /\ Quiet
       \/ (Fails("stat") \/ ~ InPlace(h)) /\ Return(h, "internal") /\ Damages
    /\ UNCHANGED <<stores, owner, Call>>

InsertNote(h) ==
    /\ At(h, "insert")
    /\ \/ /\ notes' = [notes EXCEPT ![req[h].item] = req[h].text]
          /\ Return(h, "ok") /\ Stirs
       \/ Fails("insert") /\ Goto(h, "remove") /\ UNCHANGED notes /\ Quiet
    /\ UNCHANGED <<dirs, files, lists, owner, Call>>

\* The rollback of CreateNote.
RemoveFile(h) ==
    /\ At(h, "remove")
    /\ \/ /\ InPlace(h)
          /\ files' = [files EXCEPT ![req[h].item] = None]
          /\ Stirs
       \/ (Fails("remove") \/ ~ InPlace(h)) /\ UNCHANGED files /\ Damages
    /\ Return(h, "internal")
    /\ UNCHANGED <<dirs, notes, lists, owner, Call>>

InsertTaskList(h) ==
    /\ At(h, "insertList")
    /\ \/ /\ lists' = [lists EXCEPT ![req[h].item] = req[h].text]
          /\ Return(h, "ok") /\ Stirs
       \/ Fails("insert") /\ Return(h, "internal") /\ UNCHANGED lists /\ Quiet
    /\ UNCHANGED <<dirs, files, notes, owner, Call>>

-----------------------------------------------------------------------------
\* The server dies between two calls and is started again: the requests and
\* the locks are gone.  What a request was in the middle of stays half done.
HalfDone(h) ==
    pc[h] \in {"renameRows", "undo", "moveBack", "removeAll", "statFile", "insert", "remove"}

Crash ==
    /\ Fails("crash")
    /\ \E h \in Handlers : ~ At(h, "idle")
    /\ disturbed' = (disturbed \/ \E h \in Handlers : HalfDone(h))
    /\ owner' = [p \in Paths |-> None]
    /\ pc' = [h \in Handlers |-> "idle"]
    /\ req' = [h \in Handlers |-> NoRequest]
    /\ todo' = [h \in Handlers |-> {}]
    /\ seen' = [h \in Handlers |-> NothingSeen]
    /\ reply' = [h \in Handlers |-> None]
    /\ calm' = {}
    /\ UNCHANGED <<stores, used, begun>>

Step(h) ==
    \/ BeginCreateFolder(h) \/ BeginUpdateFolder(h) \/ BeginDeleteFolder(h)
    \/ BeginListFiles(h) \/ BeginCreateNote(h) \/ BeginCreateTaskList(h)
    \/ Lock(h) \/ Respond(h)
    \/ StatFolder(h) \/ Mkdir(h)
    \/ CheckTarget(h) \/ RenameFolder(h) \/ RenameParentDir(h)
    \/ CheckOldPath(h) \/ UndoRename(h)
    \/ DeleteByParentDir(h) \/ RemoveAll(h)
    \/ ReadDir(h) \/ CountSubdirs(h) \/ CountChildrenInDir(h)
    \/ ListTaskLists(h) \/ ListNotes(h)
    \/ CreateFile(h) \/ StatFile(h) \/ InsertNote(h) \/ RemoveFile(h)
    \/ InsertTaskList(h)

Next == Crash \/ \E h \in Handlers : Step(h)

Spec == Init /\ [][Next]_vars
-----------------------------------------------------------------------------
(***************************************************************************)
(* Properties.                                                             *)
(***************************************************************************)
\* The state has the form that the declarations above describe.
TypeOK ==
    /\ dirs \subseteq Text \ {Root}
    /\ \A d \in dirs : Exists(Dir(d))
    /\ files \in [Notes -> dirs \cup {Root, None}]
    /\ DOMAIN notes = Notes /\ DOMAIN lists = Lists
    /\ used \subseteq Notes \cup Lists
    /\ begun \in 0..MaxRequests
    /\ Locks!TypeOK
    /\ pc \in [Handlers -> PCs]
    /\ reply \in [Handlers -> Replies \cup {None}]
    /\ \A h \in Handlers : reply[h] # None <=> At(h, "done")
    /\ calm \subseteq Handlers
    /\ disturbed \in BOOLEAN

\* A request in the middle of changing both stores at this place.
BeingChanged(place) ==
    \E h \in Handlers : /\ HalfDone(h)
                        /\ \E x \in Footprint(req[h]) : Within(place, x)

\* However requests on unrelated folders, or on one and the same folder, are
\* interleaved, and whichever call fails with a rollback that works: a note's
\* row names the directory that holds its file (UpdateFolder renames on disk,
\* then rewrites the rows; DeleteFolder deletes rows, then the directory).
NotesInPlace ==
    disturbed \/ \A n \in Notes :
       \/ files[n] = None /\ notes[n] = None
       \/ files[n] # None /\ notes[n] # None /\ files[n] = Resolve(notes[n])
       \/ \E place \in {files[n], notes[n]} \ {None} : BeingChanged(place)

\* Under the same conditions the folder of a task list exists: no sequence of
\* folder requests leaves a list in a folder that nobody can open, which no
\* file on disk would show.
ListsInPlace ==
    disturbed \/ \A l \in Lists :
       \/ lists[l] = None
       \/ Exists(Resolve(lists[l]))
       \/ BeingChanged(lists[l])

\* A task list is in the database only, so nobody would notice a row that a
\* LIKE pattern catches by mistake: a list is deleted only with a folder that
\* holds it, and moved only with one, to the place where its directory went.
ListsFollowFolders ==
    [][\A l \in Lists :
         \/ lists[l] \in {None, lists'[l]}
         \/ \E h \in Handlers :
               /\ Within(lists[l], req[h].path)
               /\ lists'[l] = IF At(h, "deleteRows") THEN None
                              ELSE Moved(lists[l], req[h].path, req[h].target)]_vars

\* An answer of ListFiles during which nothing changed or failed is what the
\* disk holds: every folder with the number of its subfolders, notes and task
\* lists, and every note whose file is in the directory.
TrueCount(d) == Cardinality(Subdirs(d))
                + (Cardinality(RowsIn(files, d)) + Cardinality(RowsIn(lists, d)))
ListingTrue ==
    \A h \in calm :
       (/\ ~ disturbed
        /\ At(h, "done") /\ reply[h] = "ok" /\ req[h].text = req[h].path
        /\ \A k \in Handlers : ~ HalfDone(k))
       => LET d == req[h].path IN
          /\ seen[h].folders = [c \in Subdirs(d) |-> TrueCount(c)]
          /\ seen[h].notes = RowsIn(files, d)
          /\ seen[h].lists = RowsIn(lists, d)
=============================================================================
