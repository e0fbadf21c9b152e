-------------------------- MODULE FolderOps_proof ---------------------------
(***************************************************************************)
(* Proved of FolderOps for any number of handlers, folders, names and      *)
(* requests, with every call failing at will: task lists follow their      *)
(* folders; the form of the state; a note's row and file agree; the folder *)
(* of a task list exists; an undisturbed listing tells what is on disk.    *)
(***************************************************************************)
EXTENDS FolderOps, ParentDirs_proof

-----------------------------------------------------------------------------
(***************************************************************************)
(* The paths in requests have one-byte characters, and no two characters   *)
(* are the same to LIKE.  RenameWide shows that the first is needed.       *)
(***************************************************************************)
Plain == OneCase /\ \A p \in Folders : OneByte(Prefix(p))

RequestType == [op : {"none", "create", "update", "delete", "files", "note", "list"},
                path : Text, target : Text, item : Notes \cup Lists \cup {None}, text : Text]

Renaming(r) == r.op = "update" /\ OneByte(Prefix(r.path)) /\ ~ Under(r.target, r.path)

\* What a request has to be like when its handler is at a label.
Fits(r, label) ==
    /\ label = "lock" => r.op \in {"create", "delete"} \/ Renaming(r)
    /\ label \in {"check", "rename", "renameRows"} => Renaming(r)

\* The new list of a request is in no row and in no other request.
Fresh(h) ==
    /\ req[h].item \in Lists \cap used
    /\ lists[req[h].item] = None
    /\ \A k \in Handlers \ {h} : At(k, "insertList") => req[k].item # req[h].item

ListsInv ==
    /\ lists \in [Lists -> Text \cup {None}]
    /\ pc \in [Handlers -> PCs]
    /\ req \in [Handlers -> RequestType]
    /\ \A h \in Handlers : Fits(req[h], pc[h])
    /\ \A h \in Handlers : At(h, "insertList") => Fresh(h)
    /\ \A l \in Lists : lists[l] # None => l \in used

LEMMA MovedText ==
    ASSUME NEW s \in Text, NEW old \in Text, NEW new \in Text
    PROVE  Moved(s, old, new) \in Text
  <1>1. CASE ~ Within(s, old)  BY <1>1 DEF Moved
  <1>2. CASE Within(s, old)
    <2> DEFINE rest == SubSeq(s, Len(old) + 1, Len(s))
    <2>1. rest \in Seq(Chars)
      BY DEF Text
    <2> HIDE DEF rest
    <2>2. new \o rest \in Seq(Chars)  BY <2>1, ConcatProperties DEF Text
    <2> QED  BY <1>2, <2>2 DEF Moved, rest, Text
  <1> QED  BY <1>1, <1>2

\* A handler goes on to a label that its request fits.
LEMMA MovesOn ==
    ASSUME ListsInv, NEW h \in Handlers, NEW label \in PCs \ {"insertList"},
           pc' = [pc EXCEPT ![h] = label], Fits(req[h], label),
           UNCHANGED <<lists, used, req>>
    PROVE  ListsInv'
  <1>1. \A k \in Handlers : pc'[k] = IF k = h THEN label ELSE pc[k]  BY DEF ListsInv
  <1>2. pc' \in [Handlers -> PCs]  BY DEF ListsInv
  <1>3. \A k \in Handlers : Fits(req[k], pc[k])'
    BY <1>1 DEF ListsInv, Fits, Renaming
  <1>4. \A k \in Handlers : At(k, "insertList")' => Fresh(k)'
    BY <1>1 DEF ListsInv, Fresh, At
  <1> QED  BY <1>2, <1>3, <1>4 DEF ListsInv

\* A handler starts a request.
LEMMA Starts ==
    ASSUME ListsInv, NEW h \in Handlers, NEW r \in RequestType,
           NEW label \in {"lock", "readDir", "create", "insertList"},
           Start(h, r, label), Fits(r, label), UNCHANGED lists,
           label = "insertList" => r.item \in Lists \ used
    PROVE  ListsInv'
  <1>1. /\ pc' = [pc EXCEPT ![h] = label]
        /\ req' = [req EXCEPT ![h] = r]
        /\ used' = used \cup ({r.item} \ {None})
    BY DEF Start, Goto
  <1>2. \A k \in Handlers : /\ pc'[k] = IF k = h THEN label ELSE pc[k]
                            /\ req'[k] = IF k = h THEN r ELSE req[k]
    BY <1>1 DEF ListsInv
  <1>3. pc' \in [Handlers -> PCs] /\ req' \in [Handlers -> RequestType]
    BY <1>1 DEF ListsInv, PCs
  <1>4. \A k \in Handlers : Fits(req[k], pc[k])'
    BY <1>2 DEF ListsInv, Fits, Renaming
  <1>5. ASSUME NEW k \in Handlers, pc'[k] = "insertList" PROVE Fresh(k)'
    <2>1. CASE k = h
      <3>1. label = "insertList" /\ r.item \in Lists \ used  BY <1>2, <1>5, <2>1
      <3>2. r.item \in used'
        BY <1>1, <3>1, ItemsAssumption
      <3>3. lists[r.item] = None  BY <3>1 DEF ListsInv
      <3>4. \A j \in Handlers \ {h} : At(j, "insertList")' => req'[j].item # r.item
        BY <1>2, <3>1 DEF ListsInv, Fresh, At
      <3> QED  BY <1>2, <2>1, <3>1, <3>2, <3>3, <3>4 DEF Fresh
    <2>2. CASE k # h
      <3>1. pc[k] = "insertList" /\ req'[k] = req[k]  BY <1>2, <1>5, <2>2
      <3>2. Fresh(k)  BY <3>1 DEF ListsInv, At
      <3>3. req[k].item \in Lists \cap used' /\ lists'[req[k].item] = None
        BY <1>1, <3>2 DEF Fresh
      <3>4. \A j \in Handlers \ {k} : At(j, "insertList")' => req'[j].item # req[k].item
        BY <1>2, <3>2 DEF Fresh, At
      <3> QED  BY <3>1, <3>3, <3>4 DEF Fresh
    <2> QED  BY <2>1, <2>2
  <1>6. \A l \in Lists : lists'[l] # None => l \in used'
    BY <1>1 DEF ListsInv
  <1> QED  BY <1>3, <1>4, <1>5, <1>6 DEF ListsInv, At
\* A handler checks a request: it starts it, or it refuses and answers.
LEMMA Begins ==
    ASSUME ListsInv, NEW h \in Handlers, NEW valid, NEW dir, NEW r,
           NEW label \in {"lock", "readDir", "create", "insertList"},
           Begin(h, valid, dir, r, label),
           valid => /\ r \in RequestType /\ Fits(r, label)
                    /\ label = "insertList" => r.item \in Lists \ used
    PROVE  ListsInv' /\ lists' = lists
  <1>1. lists' = lists  BY DEF Begin, stores
  <1>2. CASE valid /\ Start(h, r, label)
    BY <1>1, <1>2, Starts
  <1>3. CASE /\ pc' = [pc EXCEPT ![h] = "done"]
             /\ UNCHANGED <<req, used>>
    BY <1>1, <1>3, MovesOn DEF PCs, Fits
  <1> QED  BY <1>1, <1>2, <1>3 DEF Begin, Return

LEMMA ResolvedText ==
    ASSUME NEW p \in Folders
    PROVE  p \in Text /\ Resolve(p) \in Text /\ (p # Root => Dir(p) \in Text)
  BY FoldersAssumption, DirShorter DEF Resolve, Root, Text

\* The checks of the six handlers.
LEMMA BeginSteps ==
    ASSUME Plain, ListsInv, NEW h \in Handlers,
           \/ BeginCreateFolder(h) \/ BeginUpdateFolder(h) \/ BeginDeleteFolder(h)
           \/ BeginListFiles(h) \/ BeginCreateNote(h) \/ BeginCreateTaskList(h)
    PROVE  ListsInv' /\ lists' = lists
  <1>0. Root \in Text /\ \A n \in Names : n \in Text
    BY FoldersAssumption DEF Root, Text
  <1>1. CASE BeginCreateFolder(h)
    <2> PICK p \in Folders, n \in Names :
           Begin(h, ValidateName(n) /\ ValidateParentDir(p), Resolve(p),
                 Request("create", InDir(Resolve(p), n), InDir(Resolve(p), n), None, Root),
                 "lock")
      BY <1>1 DEF BeginCreateFolder
    <2> DEFINE r == Request("create", InDir(Resolve(p), n), InDir(Resolve(p), n), None, Root)
    <2>1. InDir(Resolve(p), n) \in Text  BY <1>0, ResolvedText, InDirText
    <2>2. r \in RequestType /\ r.op = "create"
      BY <1>0, <2>1 DEF Request, RequestType
    <2>3. Fits(r, "lock")  BY <2>2 DEF Fits
    <2> QED  BY <2>2, <2>3, Begins
  <1>2. CASE BeginUpdateFolder(h)
    <2> PICK p \in Folders, n \in Names :
           Begin(h, ValidateName(n) /\ ValidatePath(p), p,
                 Request("update", p, InDir(Dir(p), n), None, Root), "lock")
      BY <1>2 DEF BeginUpdateFolder
    <2> DEFINE r == Request("update", p, InDir(Dir(p), n), None, Root)
    <2>1. p \in Text /\ n \in Text  BY <1>0, ResolvedText
    <2>2. InDir(Dir(p), n) \in Text  BY <2>1, DirShorter, InDirText
    <2>3. /\ r \in RequestType /\ r.op = "update" /\ r.path = p
          /\ r.target = InDir(Dir(p), n)
      BY <1>0, <2>1, <2>2 DEF Request, RequestType
    <2>4. ASSUME ValidateName(n), ValidatePath(p) PROVE Fits(r, "lock")
      <3>1. p # Root  BY <2>4 DEF ValidatePath, Resolve, Root
      <3>2. ~ Under(InDir(Dir(p), n), p)  BY <2>1, <2>4, <3>1, TargetNotUnder
      <3>3. Renaming(r)  BY <2>3, <3>2 DEF Renaming, Plain
      <3> QED  BY <3>3 DEF Fits
    <2> HIDE DEF r
    <2> QED  BY <2>3, <2>4, Begins DEF r
  <1>3. CASE BeginDeleteFolder(h)
    <2> PICK p \in Folders :
           Begin(h, ValidatePath(p), p, Request("delete", p, p, None, Root), "lock")
      BY <1>3 DEF BeginDeleteFolder
    <2> DEFINE r == Request("delete", p, p, None, Root)
    <2>1. r \in RequestType /\ r.op = "delete"
      BY <1>0, ResolvedText DEF Request, RequestType
    <2>2. Fits(r, "lock")  BY <2>1 DEF Fits
    <2> QED  BY <2>1, <2>2, Begins
  <1>4. CASE BeginListFiles(h)
    <2> PICK p \in Folders :
           Begin(h, ValidateParentDir(p), Resolve(p),
                 Request("files", Resolve(p), Resolve(p), None, p), "readDir")
      BY <1>4 DEF BeginListFiles
    <2> DEFINE r == Request("files", Resolve(p), Resolve(p), None, p)
    <2>1. r \in RequestType  BY <1>0, ResolvedText DEF Request, RequestType
    <2>2. Fits(r, "readDir")  BY DEF Fits
    <2> QED  BY <2>1, <2>2, Begins
  <1>5. CASE BeginCreateNote(h)
    <2> PICK p \in Folders, n \in Notes \ used :
           Begin(h, ValidateParentDir(p), Resolve(p),
                 Request("note", Resolve(p), Resolve(p), n, p), "create")
      BY <1>5 DEF BeginCreateNote
    <2> DEFINE r == Request("note", Resolve(p), Resolve(p), n, p)
    <2>1. r \in RequestType  BY ResolvedText DEF Request, RequestType
    <2>2. Fits(r, "create")  BY DEF Fits
    <2> QED  BY <2>1, <2>2, Begins
  <1>6. CASE BeginCreateTaskList(h)
    <2> PICK p \in Folders, l \in Lists \ used :
           Begin(h, ValidateParentDir(p), Resolve(p),
                 Request("list", Resolve(p), Resolve(p), l, p), "insertList")
      BY <1>6 DEF BeginCreateTaskList
    <2> DEFINE r == Request("list", Resolve(p), Resolve(p), l, p)
    <2>1. r \in RequestType /\ r.item = l  BY ResolvedText DEF Request, RequestType
    <2>2. Fits(r, "insertList")  BY DEF Fits
    <2> QED  BY <2>1, <2>2, Begins
  <1> QED  BY <1>1, <1>2, <1>3, <1>4, <1>5, <1>6
\* The calls that leave task_lists alone.
LEMMA QuietSteps ==
    ASSUME ListsInv, NEW h \in Handlers,
           \/ Lock(h) \/ StatFolder(h) \/ Mkdir(h)
           \/ CheckTarget(h) \/ RenameFolder(h) \/ CheckOldPath(h) \/ UndoRename(h) \/ RemoveAll(h)
           \/ ReadDir(h) \/ CountSubdirs(h) \/ CountChildrenInDir(h)
           \/ ListTaskLists(h) \/ ListNotes(h)
           \/ CreateFile(h) \/ StatFile(h) \/ InsertNote(h) \/ RemoveFile(h)
    PROVE  ListsInv' /\ lists' = lists
  <1>1. UNCHANGED <<lists, used, req>>
    BY DEF stores, Call, Lock, StatFolder, Mkdir, CheckTarget, CheckOldPath, RenameFolder, UndoRename,
           RemoveAll, ReadDir, CountSubdirs, CountChildrenInDir, ListTaskLists, ListNotes,
           CreateFile, StatFile, InsertNote, RemoveFile
  <1>2. CASE Lock(h)
    <2> DEFINE label == FirstCall[req[h].op]
    <2>1. pc[h] = "lock" /\ pc' = [pc EXCEPT ![h] = label]
      BY <1>2 DEF Lock, At, Goto
    <2>2. Fits(req[h], "lock")  BY <2>1 DEF ListsInv
    <2>3. req[h].op \in {"create", "update", "delete"} /\ (req[h].op = "update" => Renaming(req[h]))
      BY <2>2 DEF Fits, Renaming
    <2>4. /\ req[h].op = "create" => label = "stat"
          /\ req[h].op = "update" => label = "check"
          /\ req[h].op = "delete" => label = "deleteRows"
      BY DEF FirstCall
    <2>5. label \in PCs \ {"insertList"} /\ Fits(req[h], label)
      BY <2>3, <2>4 DEF PCs, Fits
    <2> HIDE DEF label
    <2> QED  BY <1>1, <2>1, <2>5, MovesOn
  <1>3. CASE CheckTarget(h)
    <2>1. Renaming(req[h])  BY <1>3 DEF CheckTarget, At, ListsInv, Fits
    <2>2. \E label \in {"rename", "done"} : pc' = [pc EXCEPT ![h] = label]
      BY <1>3 DEF CheckTarget, Goto, Return
    <2> QED  BY <1>1, <2>1, <2>2, MovesOn DEF PCs, Fits
  <1>4. CASE RenameFolder(h)
    <2>1. Renaming(req[h])  BY <1>4 DEF RenameFolder, At, ListsInv, Fits
    <2>2. \E label \in {"renameRows", "done"} : pc' = [pc EXCEPT ![h] = label]
      BY <1>4 DEF RenameFolder, Goto, Return
    <2> QED  BY <1>1, <2>1, <2>2, MovesOn DEF PCs, Fits
  <1>5. CASE ~ (Lock(h) \/ CheckTarget(h) \/ RenameFolder(h))
    <2>1. \E label \in {"mkdir", "entries", "countRows", "listNotes", "statFile", "insert",
                        "remove", "moveBack", "done"} : pc' = [pc EXCEPT ![h] = label]
      BY <1>5 DEF StatFolder, Mkdir, CheckOldPath, UndoRename, RemoveAll, ReadDir, CountSubdirs,
                  CountChildrenInDir, ListTaskLists, ListNotes, CreateFile, StatFile,
                  InsertNote, RemoveFile, Goto, Return
    <2> QED  BY <1>1, <2>1, MovesOn DEF PCs, Fits
  <1> QED  BY <1>1, <1>2, <1>3, <1>4, <1>5

\* A step that empties handlers: an answer, or a crash.
LEMMA Empties ==
    ASSUME ListsInv, NEW H \in SUBSET Handlers,
           pc' = [k \in Handlers |-> IF k \in H THEN "idle" ELSE pc[k]],
           req' = [k \in Handlers |-> IF k \in H THEN NoRequest ELSE req[k]],
           UNCHANGED <<lists, used>>
    PROVE  ListsInv'
  <1>1. NoRequest \in RequestType
    <2>1. Root \in Text  BY DEF Root, Text
    <2> QED  BY <2>1 DEF NoRequest, Request, RequestType
  <1>2. pc' \in [Handlers -> PCs] /\ req' \in [Handlers -> RequestType]
    BY <1>1 DEF ListsInv, PCs
  <1>3. \A k \in Handlers : Fits(req[k], pc[k])'
    <2> TAKE k \in Handlers
    <2>1. CASE k \in H
      <3>1. pc'[k] = "idle"  BY <2>1
      <3> QED  BY <3>1 DEF Fits
    <2>2. CASE k \notin H
      <3>1. pc'[k] = pc[k] /\ req'[k] = req[k]  BY <2>2
      <3> QED  BY <3>1 DEF ListsInv, Fits, Renaming
    <2> QED  BY <2>1, <2>2
  <1>4. ASSUME NEW k \in Handlers, pc'[k] = "insertList" PROVE Fresh(k)'
    <2>1. /\ pc[k] = "insertList" /\ req'[k] = req[k]
          /\ \A j \in Handlers : pc'[j] = "insertList" =>
                pc[j] = "insertList" /\ req'[j] = req[j]
      BY <1>4
    <2>2. Fresh(k)  BY <2>1 DEF ListsInv, At
    <2> QED  BY <2>1, <2>2 DEF Fresh, At
  <1> QED  BY <1>2, <1>3, <1>4 DEF ListsInv, At

-----------------------------------------------------------------------------
\* The step that ListsFollowFolders allows.
FollowStep ==
    \A l \in Lists :
       \/ lists[l] \in {None, lists'[l]}
       \/ \E h \in Handlers :
             /\ Within(lists[l], req[h].path)
             /\ lists'[l] = IF At(h, "deleteRows") THEN None
                            ELSE Moved(lists[l], req[h].path, req[h].target)

\* RenameParentDir and DeleteByParentDir: the rows get values that fit, and
\* the invariant does not depend on which.
LEMMA RowsChange ==
    ASSUME ListsInv, NEW h \in Handlers, NEW label \in PCs \ {"insertList"},
           pc' = [pc EXCEPT ![h] = label], Fits(req[h], label), UNCHANGED <<used, req>>,
           lists' \in [Lists -> Text \cup {None}],
           \A l \in Lists : lists[l] = None => lists'[l] = None
    PROVE  ListsInv'
  <1>1. \A k \in Handlers : pc'[k] = IF k = h THEN label ELSE pc[k]  BY DEF ListsInv
  <1>2. pc' \in [Handlers -> PCs]  BY DEF ListsInv
  <1>3. \A k \in Handlers : Fits(req[k], pc[k])'
    BY <1>1 DEF ListsInv, Fits, Renaming
  <1>4. \A k \in Handlers : At(k, "insertList")' => Fresh(k)'
    BY <1>1 DEF ListsInv, Fresh, At
  <1> QED  BY <1>2, <1>3, <1>4 DEF ListsInv

LEMMA RenameRowsStep ==
    ASSUME Plain, ListsInv, NEW h \in Handlers, RenameParentDir(h)
    PROVE  ListsInv' /\ FollowStep
  <1> DEFINE r == req[h]
  <1>1. /\ Renaming(r) /\ r \in RequestType /\ UNCHANGED <<used, req>>
        /\ pc[h] = "renameRows"
    BY DEF RenameParentDir, At, ListsInv, Fits, Call
  <1>2. CASE lists' = RenamedTable(lists, r) /\ Return(h, "ok")
    <2>1. r.path \in Text /\ r.target \in Text  BY <1>1 DEF RequestType
    <2>2. \A s \in Text : RenamedBy(s, r.path, r.target) = Moved(s, r.path, r.target)
      BY <1>1, <2>1, RenameExact DEF Plain, Renaming
    <2>3. \A s \in Text : Moved(s, r.path, r.target) \in Text
      BY <2>1, MovedText
    <2> DEFINE new(l) == IF lists[l] = None THEN None
                         ELSE RenamedBy(lists[l], r.path, r.target)
    <2>4. lists' = [l \in Lists |-> new(l)] /\ \A l \in Lists : lists[l] \in Text \cup {None}
      BY <1>2 DEF RenamedTable, ListsInv
    <2>5. ASSUME NEW l \in Lists
          PROVE  /\ lists'[l] \in Text \cup {None} /\ (lists[l] = None => lists'[l] = None)
                 /\ lists[l] # None => lists'[l] = Moved(lists[l], r.path, r.target)
      <3> HIDE DEF r
      <3>1. lists'[l] = new(l) /\ lists[l] \in Text \cup {None}  BY <2>4
      <3> QED  BY <2>2, <2>3, <3>1
    <2>6. lists' \in [Lists -> Text \cup {None}]
      <3>1. lists' = [l \in Lists |-> lists'[l]]  BY <2>4
      <3> QED  BY <2>5, <3>1
    <2>7. FollowStep
      <3> SUFFICES ASSUME NEW l \in Lists, lists[l] # None, lists[l] # lists'[l]
                   PROVE  /\ Within(lists[l], r.path)
                          /\ lists'[l] = IF At(h, "deleteRows") THEN None
                                         ELSE Moved(lists[l], r.path, r.target)
        BY DEF FollowStep
      <3>1. lists'[l] = Moved(lists[l], r.path, r.target)  BY <2>5
      <3> QED  BY <1>1, <3>1 DEF Moved, At
    <2>8. ListsInv'
      BY <1>1, <1>2, <2>5, <2>6, RowsChange DEF Return, PCs, Fits
    <2> QED  BY <2>7, <2>8
  <1>3. CASE UNCHANGED lists /\ Goto(h, "undo")
    <2>1. ListsInv'  BY <1>1, <1>3, MovesOn DEF Goto, PCs, Fits
    <2> QED  BY <1>3, <2>1 DEF FollowStep
  <1> QED  BY <1>2, <1>3 DEF RenameParentDir

LEMMA DeleteRowsStep ==
    ASSUME Plain, ListsInv, NEW h \in Handlers, DeleteByParentDir(h)
    PROVE  ListsInv' /\ FollowStep
  <1> DEFINE r == req[h]
  <1>1. r \in RequestType /\ UNCHANGED <<used, req>> /\ pc[h] = "deleteRows"
    BY DEF DeleteByParentDir, At, ListsInv, Call
  <1>2. CASE lists' = DeletedTable(lists, r) /\ Goto(h, "removeAll")
    <2>1. r.path \in Text  BY <1>1 DEF RequestType
    <2>2. \A s \in Text : DeletedBy(s, r.path) <=> Within(s, r.path)
      BY <2>1, DeleteExact DEF Plain
    <2>3. \A l \in Lists : lists[l] \in Text \cup {None}  BY DEF ListsInv
    <2>4. /\ lists' \in [Lists -> Text \cup {None}]
          /\ \A l \in Lists :
                lists'[l] = IF lists[l] = None \/ DeletedBy(lists[l], r.path)
                            THEN None ELSE lists[l]
      BY <1>2, <2>3 DEF DeletedTable, ListsInv
    <2>5. FollowStep
      <3> SUFFICES ASSUME NEW l \in Lists, lists[l] # None, lists[l] # lists'[l]
                   PROVE  Within(lists[l], r.path) /\ lists'[l] = None
        BY <1>1 DEF FollowStep, At
      <3> QED  BY <2>2, <2>3, <2>4
    <2>6. ListsInv'
      BY <1>1, <1>2, <2>4, RowsChange DEF Goto, PCs, Fits
    <2> QED  BY <2>5, <2>6
  <1>3. CASE UNCHANGED lists /\ Return(h, "internal")
    <2>1. ListsInv'  BY <1>1, <1>3, MovesOn DEF Return, PCs, Fits
    <2> QED  BY <1>3, <2>1 DEF FollowStep
  <1> QED  BY <1>2, <1>3 DEF DeleteByParentDir

LEMMA InsertStep ==
    ASSUME ListsInv, NEW h \in Handlers, InsertTaskList(h)
    PROVE  ListsInv' /\ FollowStep
  <1> DEFINE r == req[h]
  <1>1. /\ pc' = [pc EXCEPT ![h] = "done"] /\ UNCHANGED <<used, req>>
        /\ pc[h] = "insertList" /\ r \in RequestType
    BY DEF InsertTaskList, At, ListsInv, Call, Return
  <1>2. Fresh(h)  BY <1>1 DEF ListsInv, At
  <1>3. CASE lists' = [lists EXCEPT ![r.item] = r.text]
    <2>1. r.item \in Lists \cap used /\ lists[r.item] = None /\ r.text \in Text
      BY <1>1, <1>2 DEF Fresh, RequestType
    <2>2. /\ lists' \in [Lists -> Text \cup {None}]
          /\ \A l \in Lists : lists'[l] = IF l = r.item THEN r.text ELSE lists[l]
      BY <1>3, <2>1 DEF ListsInv
    <2>3. \A k \in Handlers : pc'[k] = IF k = h THEN "done" ELSE pc[k]
      BY <1>1 DEF ListsInv
    <2>4. pc' \in [Handlers -> PCs]  BY <1>1 DEF ListsInv, PCs
    <2>5. \A k \in Handlers : Fits(req[k], pc[k])'
      BY <1>1, <2>3 DEF ListsInv, Fits, Renaming
    <2>6. ASSUME NEW k \in Handlers, pc'[k] = "insertList" PROVE Fresh(k)'
      <3>1. k # h /\ pc[k] = "insertList"  BY <2>3, <2>6
      <3>2. Fresh(k) /\ req[k].item # r.item  BY <1>2, <3>1 DEF ListsInv, At, Fresh
      <3> QED  BY <1>1, <2>2, <2>3, <3>2 DEF Fresh, At
    <2>7. \A l \in Lists : lists'[l] # None => l \in used'
      BY <1>1, <2>1, <2>2 DEF ListsInv
    <2>8. ListsInv'
      BY <1>1, <2>2, <2>4, <2>5, <2>6, <2>7 DEF ListsInv, At
    <2>9. FollowStep  BY <2>1, <2>2 DEF FollowStep
    <2> QED  BY <2>8, <2>9
  <1>4. CASE UNCHANGED lists
    <2>1. ListsInv'  BY <1>1, <1>4, MovesOn DEF PCs, Fits
    <2> QED  BY <1>4, <2>1 DEF FollowStep
  <1> QED  BY <1>3, <1>4 DEF InsertTaskList

LEMMA ListsStep ==
    ASSUME Plain, ListsInv, [Next]_vars
    PROVE  ListsInv' /\ [FollowStep]_vars
  <1>0. ASSUME ListsInv', lists' = lists PROVE ListsInv' /\ [FollowStep]_vars
    BY <1>0 DEF FollowStep
  <1>1. CASE UNCHANGED vars
    <2>1. ListsInv'
      BY <1>1 DEF vars, ListsInv, Fits, Renaming, Fresh, At
    <2> QED  BY <1>0, <1>1, <2>1 DEF vars
  <1>2. CASE Crash
    <2>1. /\ pc' = [k \in Handlers |-> IF k \in Handlers THEN "idle" ELSE pc[k]]
          /\ req' = [k \in Handlers |-> IF k \in Handlers THEN NoRequest ELSE req[k]]
          /\ UNCHANGED <<lists, used>>
      BY <1>2 DEF Crash, stores
    <2>2. ListsInv'  BY <2>1, Empties
    <2> QED  BY <1>0, <2>1, <2>2
  <1>3. ASSUME NEW h \in Handlers, Step(h) PROVE ListsInv' /\ [FollowStep]_vars
    <2>1. CASE Respond(h)
      <3>1. /\ pc' = [k \in Handlers |-> IF k \in {h} THEN "idle" ELSE pc[k]]
            /\ req' = [k \in Handlers |-> IF k \in {h} THEN NoRequest ELSE req[k]]
            /\ UNCHANGED <<lists, used>>
        BY <2>1 DEF Respond, stores, ListsInv
      <3>2. {h} \in SUBSET Handlers  OBVIOUS
      <3>3. ListsInv'  BY <3>1, <3>2, Empties
      <3> QED  BY <1>0, <3>1, <3>3
    <2>2. CASE RenameParentDir(h)  BY <2>2, RenameRowsStep
    <2>3. CASE DeleteByParentDir(h)  BY <2>3, DeleteRowsStep
    <2>4. CASE InsertTaskList(h)  BY <2>4, InsertStep
    <2>5. CASE \/ BeginCreateFolder(h) \/ BeginUpdateFolder(h) \/ BeginDeleteFolder(h)
               \/ BeginListFiles(h) \/ BeginCreateNote(h) \/ BeginCreateTaskList(h)
      BY <1>0, <2>5, BeginSteps
    <2>6. CASE \/ Lock(h) \/ StatFolder(h) \/ Mkdir(h)
               \/ CheckTarget(h) \/ RenameFolder(h) \/ CheckOldPath(h) \/ UndoRename(h) \/ RemoveAll(h)
               \/ ReadDir(h) \/ CountSubdirs(h) \/ CountChildrenInDir(h)
               \/ ListTaskLists(h) \/ ListNotes(h)
               \/ CreateFile(h) \/ StatFile(h) \/ InsertNote(h) \/ RemoveFile(h)
      BY <1>0, <2>6, QuietSteps
    <2> QED  BY <1>3, <2>1, <2>2, <2>3, <2>4, <2>5, <2>6 DEF Step
  <1> QED  BY <1>1, <1>2, <1>3 DEF Next

LEMMA ListsInit ==
    ASSUME Init
    PROVE  ListsInv
  <1>1. NoRequest \in RequestType
    <2>1. Root \in Text  BY DEF Root, Text
    <2> QED  BY <2>1 DEF NoRequest, Request, RequestType
  <1> QED  BY <1>1 DEF Init, ListsInv, Fits, At, PCs

\* However many requests on however many folders are interleaved, tangled or
\* not, whatever fails and whenever the server crashes: DeleteByParentDir and
\* RenameParentDir delete and move the task lists of their own folder and no
\* others, and move them where the directory went, as long as the paths in
\* requests are made of one-byte characters and do not differ in case only.
THEOREM ListsFollow ==
    ASSUME Plain
    PROVE  Spec => ListsFollowFolders
  <1>1. Init => ListsInv  BY ListsInit
  <1>2. ListsInv /\ [Next]_vars => ListsInv' /\ [FollowStep]_vars  BY ListsStep
  <1> QED  BY <1>1, <1>2, PTL DEF Spec, ListsFollowFolders, FollowStep
-----------------------------------------------------------------------------
(***************************************************************************)
(* The form of the state, whatever fails: the directories are a tree, a    *)
(* note's file lies in one of them, and a handler is at a call of its own  *)
(* request, with the lock of its folder.                                   *)
(***************************************************************************)
Renames(label)  == label \in {"rename", "renameRows", "undo", "moveBack"}
Moving(label)   == label \in {"renameRows", "undo", "moveBack"}
Making(label)   == label \in {"statFile", "insert", "remove"}
HasLock(label)  == label \in {"check", "rename", "renameRows", "undo", "moveBack", "deleteRows", "removeAll"}

\* The call is one of the handler of the request.
Serves(r, label) ==
    /\ label \in {"check", "rename", "renameRows", "undo", "moveBack"} => r.op = "update"
    /\ label \in {"deleteRows", "removeAll"} => r.op = "delete"
    /\ label \in {"stat", "mkdir"} => r.op = "create"
    /\ label \in {"readDir", "entries", "countRows", "listNotes"} => r.op = "files"
    /\ label = "create" \/ Making(label) => r.op = "note"
    /\ label = "insertList" => r.op = "list"
    /\ label = "lock" => r.op \in {"create", "update", "delete"}

\* What the checks of the request let through.
Checked(r) ==
    /\ r.op = "create" => r.path # Root /\ r.path[1] # Slash
    /\ r.op = "update" => /\ r.path \in Paths \ {Root, <<Dot>>} /\ r.path[1] # Slash
                          /\ r.target \notin {Root, <<Dot>>} /\ r.target[1] # Slash
                          /\ Dir(r.target) = Dir(r.path)
    /\ r.op = "delete" => r.path \in Paths \ {Root, <<Dot>>} /\ r.target = r.path
    /\ r.op \in {"note", "list"} => /\ r.text \in Folders
                                    /\ r.path = Resolve(r.text) /\ r.target = r.path
                                    /\ r.item \in IF r.op = "note" THEN Notes ELSE Lists

ControlInv ==
    /\ owner \in [Paths -> Handlers \cup {None}]
    /\ pc \in [Handlers -> PCs]
    /\ req \in [Handlers -> RequestType]
    /\ reply \in [Handlers -> Replies \cup {None}]
    /\ used \subseteq Notes \cup Lists
    /\ begun \in 0..MaxRequests
    /\ calm \subseteq Handlers
    /\ disturbed \in BOOLEAN
    /\ \A h \in Handlers : /\ Serves(req[h], pc[h])
                           /\ Checked(req[h])
                           /\ HasLock(pc[h]) => owner[req[h].path] = h
                           /\ reply[h] # None <=> pc[h] = "done"

Tree(D) == D \subseteq Text \ {Root} /\ \A d \in D : Dir(d) = Root \/ Dir(d) \in D

TreeInv == Tree(dirs) /\ files \in [Notes -> dirs \cup {Root, None}]

\* A handler makes a call and goes on, or decides on its answer.
Advances(h) ==
    \E label \in PCs :
       /\ pc' = [pc EXCEPT ![h] = label]
       /\ Serves(req[h], label)
       /\ HasLock(label) => HasLock(pc[h])
       /\ pc[h] # "done"
       /\ IF label = "done" THEN \E r \in Replies : reply' = [reply EXCEPT ![h] = r]
                            ELSE UNCHANGED reply
       /\ UNCHANGED <<owner, used, begun, req>>
       /\ calm' \subseteq calm
       /\ disturbed' \in {disturbed, TRUE}

LEMMA AdvanceKeeps ==
    ASSUME ControlInv, NEW h \in Handlers, Advances(h)
    PROVE  ControlInv'
  <1> PICK label \in PCs :
         /\ pc' = [pc EXCEPT ![h] = label]
         /\ Serves(req[h], label)
         /\ HasLock(label) => HasLock(pc[h])
         /\ pc[h] # "done"
         /\ IF label = "done" THEN \E r \in Replies : reply' = [reply EXCEPT ![h] = r]
                              ELSE UNCHANGED reply
         /\ UNCHANGED <<owner, used, begun, req>>
         /\ calm' \subseteq calm
         /\ disturbed' \in {disturbed, TRUE}
    BY DEF Advances
  <1>1. \A k \in Handlers : pc'[k] = IF k = h THEN label ELSE pc[k]  BY DEF ControlInv
  <1>2. pc' \in [Handlers -> PCs]  BY DEF ControlInv
  <1>3. /\ reply' \in [Handlers -> Replies \cup {None}]
        /\ \A k \in Handlers : reply'[k] # None <=> pc'[k] = "done"
    <2>1. CASE label = "done"
      <3> PICK r \in Replies : reply' = [reply EXCEPT ![h] = r]  BY <2>1
      <3>1. \A k \in Handlers : reply'[k] = IF k = h THEN r ELSE reply[k]  BY DEF ControlInv
      <3>2. r # None  BY RepliesAssumption
      <3> QED  BY <1>1, <2>1, <3>1, <3>2 DEF ControlInv
    <2>2. CASE label # "done"
      <3>1. reply' = reply  BY <2>2
      <3> QED  BY <1>1, <2>2, <3>1 DEF ControlInv
    <2> QED  BY <2>1, <2>2
  <1>4. ASSUME NEW k \in Handlers
        PROVE  /\ Serves(req'[k], pc'[k]) /\ Checked(req'[k])
               /\ HasLock(pc'[k]) => owner'[req'[k].path] = k
    BY <1>1 DEF ControlInv
  <1>5. calm' \subseteq Handlers /\ disturbed' \in BOOLEAN  BY DEF ControlInv
  <1> QED  BY <1>2, <1>3, <1>4, <1>5 DEF ControlInv, Checked

\* The calls after the checks and before the answer.
Calls(h) ==
    \/ StatFolder(h) \/ Mkdir(h)
    \/ CheckTarget(h) \/ RenameFolder(h) \/ RenameParentDir(h)
    \/ CheckOldPath(h) \/ UndoRename(h)
    \/ DeleteByParentDir(h) \/ RemoveAll(h)
    \/ ReadDir(h) \/ CountSubdirs(h) \/ CountChildrenInDir(h)
    \/ ListTaskLists(h) \/ ListNotes(h)
    \/ CreateFile(h) \/ StatFile(h) \/ InsertNote(h) \/ RemoveFile(h)
    \/ InsertTaskList(h)

\* A handler goes on to a label of its request, or answers.
LEMMA Advance ==
    ASSUME NEW h \in Handlers, NEW label \in PCs, NEW outcome \in Replies,
           Serves(req[h], pc[h]),
           \/ Goto(h, label) /\ label # "done"
           \/ Return(h, outcome) /\ label = "done",
           Serves(req[h], label), HasLock(label) => HasLock(pc[h]), pc[h] # "done",
           UNCHANGED <<owner, used, begun, req>>,
           Quiet \/ Stirs \/ Damages \/ Miscounts(h)
    PROVE  Advances(h)
  <1>1. calm' \subseteq calm /\ disturbed' \in {disturbed, TRUE}
    BY DEF Quiet, Stirs, Damages, Miscounts
  <1>2. /\ pc' = [pc EXCEPT ![h] = label]
        /\ IF label = "done" THEN \E r \in Replies : reply' = [reply EXCEPT ![h] = r]
                             ELSE UNCHANGED reply
    BY DEF Goto, Return
  <1> QED  BY <1>1, <1>2 DEF Advances

LEMMA CallsAdvance ==
    ASSUME ControlInv, NEW h \in Handlers, Calls(h)
    PROVE  Advances(h)
  <1>0. Serves(req[h], pc[h])  BY DEF ControlInv
  <1>1. ASSUME NEW label \in PCs \ {"done"}, Goto(h, label), pc[h] # "done",
               Serves(req[h], label), HasLock(label) => HasLock(pc[h]),
               UNCHANGED <<owner, used, begun, req>>, Quiet \/ Stirs \/ Damages \/ Miscounts(h)
        PROVE  Advances(h)
    BY <1>0, <1>1, Advance DEF Replies
  <1>2. ASSUME NEW outcome \in Replies, Return(h, outcome), pc[h] # "done",
               UNCHANGED <<owner, used, begun, req>>, Quiet \/ Stirs \/ Damages \/ Miscounts(h)
        PROVE  Advances(h)
    <2>1. Serves(req[h], "done") /\ ~ HasLock("done") /\ "done" \in PCs
      BY DEF Serves, HasLock, Making, PCs
    <2> QED  BY <1>0, <1>2, <2>1, Advance
  <1> USE DEF At, Call, Replies, PCs
  <1>3. CASE StatFolder(h)
    <2>1. pc[h] = "stat" /\ Serves(req[h], "mkdir") /\ ~ HasLock("mkdir")
      BY <1>0, <1>3 DEF StatFolder, Serves, HasLock, Making
    <2> QED  BY <1>1, <1>2, <1>3, <2>1 DEF StatFolder
  <1>4. CASE Mkdir(h)  BY <1>2, <1>4 DEF Mkdir
  <1>5. CASE CheckTarget(h)
    <2>1. pc[h] = "check" /\ Serves(req[h], "rename") /\ HasLock("check")
      BY <1>0, <1>5 DEF CheckTarget, Serves, HasLock, Making
    <2> QED  BY <1>1, <1>2, <1>5, <2>1 DEF CheckTarget
  <1>6. CASE RenameFolder(h)
    <2>1. pc[h] = "rename" /\ Serves(req[h], "renameRows") /\ HasLock("rename")
      BY <1>0, <1>6 DEF RenameFolder, Serves, HasLock, Making
    <2> QED  BY <1>1, <1>2, <1>6, <2>1 DEF RenameFolder
  <1>7. CASE RenameParentDir(h)
    <2>1. pc[h] = "renameRows" /\ Serves(req[h], "undo") /\ HasLock("renameRows")
      BY <1>0, <1>7 DEF RenameParentDir, Serves, HasLock, Making
    <2> QED  BY <1>1, <1>2, <1>7, <2>1 DEF RenameParentDir
  <1>8. CASE UndoRename(h)  BY <1>2, <1>8 DEF UndoRename
  <1>21. CASE CheckOldPath(h)
    <2>1. pc[h] = "undo" /\ Serves(req[h], "moveBack") /\ HasLock("undo")
      BY <1>0, <1>21 DEF CheckOldPath, Serves, HasLock, Making
    <2> QED  BY <1>1, <1>2, <1>21, <2>1 DEF CheckOldPath
  <1>9. CASE DeleteByParentDir(h)
    <2>1. pc[h] = "deleteRows" /\ Serves(req[h], "removeAll") /\ HasLock("deleteRows")
      BY <1>0, <1>9 DEF DeleteByParentDir, Serves, HasLock, Making
    <2> QED  BY <1>1, <1>2, <1>9, <2>1 DEF DeleteByParentDir
  <1>10. CASE RemoveAll(h)  BY <1>2, <1>10 DEF RemoveAll
  <1>11. CASE ReadDir(h)
    <2>1. pc[h] = "readDir" /\ Serves(req[h], "entries") /\ ~ HasLock("entries")
      BY <1>0, <1>11 DEF ReadDir, Serves, HasLock, Making
    <2> QED  BY <1>1, <1>2, <1>11, <2>1 DEF ReadDir
  <1>12. CASE CountSubdirs(h)
    <2>1. pc[h] = "entries" /\ Serves(req[h], "countRows") /\ ~ HasLock("countRows")
      BY <1>0, <1>12 DEF CountSubdirs, Serves, HasLock, Making
    <2>2. Quiet \/ Miscounts(h)  BY <1>12 DEF CountSubdirs
    <2> QED  BY <1>1, <1>12, <2>1, <2>2 DEF CountSubdirs
  <1>13. CASE CountChildrenInDir(h)
    <2>1. pc[h] = "countRows" /\ Serves(req[h], "entries") /\ ~ HasLock("entries")
      BY <1>0, <1>13 DEF CountChildrenInDir, Serves, HasLock, Making
    <2>2. Quiet \/ Miscounts(h)  BY <1>13 DEF CountChildrenInDir
    <2> QED  BY <1>1, <1>13, <2>1, <2>2 DEF CountChildrenInDir
  <1>14. CASE ListTaskLists(h)
    <2>1. pc[h] = "entries" /\ Serves(req[h], "listNotes") /\ ~ HasLock("listNotes")
      BY <1>0, <1>14 DEF ListTaskLists, Serves, HasLock, Making
    <2> QED  BY <1>1, <1>2, <1>14, <2>1 DEF ListTaskLists
  <1>15. CASE ListNotes(h)  BY <1>2, <1>15 DEF ListNotes
  <1>16. CASE CreateFile(h)
    <2>1. pc[h] = "create" /\ Serves(req[h], "statFile") /\ ~ HasLock("statFile")
      BY <1>0, <1>16 DEF CreateFile, Serves, HasLock, Making
    <2> QED  BY <1>1, <1>2, <1>16, <2>1 DEF CreateFile
  <1>17. CASE StatFile(h)
    <2>1. pc[h] = "statFile" /\ Serves(req[h], "insert") /\ ~ HasLock("insert")
      BY <1>0, <1>17 DEF StatFile, Serves, HasLock, Making
    <2> QED  BY <1>1, <1>2, <1>17, <2>1 DEF StatFile
  <1>18. CASE InsertNote(h)
    <2>1. pc[h] = "insert" /\ Serves(req[h], "remove") /\ ~ HasLock("remove")
      BY <1>0, <1>18 DEF InsertNote, Serves, HasLock, Making
    <2> QED  BY <1>1, <1>2, <1>18, <2>1 DEF InsertNote
  <1>19. CASE RemoveFile(h)  BY <1>2, <1>19 DEF RemoveFile
  <1>20. CASE InsertTaskList(h)  BY <1>2, <1>20 DEF InsertTaskList
  <1> QED
    BY <1>3, <1>4, <1>5, <1>6, <1>7, <1>8, <1>9, <1>10, <1>11, <1>12, <1>13, <1>14, <1>15,
       <1>16, <1>17, <1>18, <1>19, <1>20, <1>21 DEF Calls

\* The lock, the answer and a crash.
LEMMA LockKeepsControl ==
    ASSUME ControlInv, NEW h \in Handlers, Lock(h)
    PROVE  ControlInv'
  <1> DEFINE label == FirstCall[req[h].op]
  <1>1. /\ pc[h] = "lock" /\ pc' = [pc EXCEPT ![h] = label]
        /\ owner[req[h].path] = None /\ owner' = [owner EXCEPT ![req[h].path] = h]
        /\ UNCHANGED <<reply, used, begun, req, calm, disturbed>>
    BY DEF Lock, At, Goto, Call, Quiet, Locks!Acquire
  <1>2. Serves(req[h], "lock") /\ Checked(req[h])  BY <1>1 DEF ControlInv
  <1>3. req[h].op \in {"create", "update", "delete"}  BY <1>2 DEF Serves
  <1>4. /\ req[h].op = "create" => label = "stat"
        /\ req[h].op = "update" => label = "check"
        /\ req[h].op = "delete" => label = "deleteRows"
    BY DEF FirstCall
  <1>5. /\ label \in PCs \ {"done"} /\ Serves(req[h], label)
        /\ HasLock(label) => req[h].path \in Paths
    BY <1>2, <1>3, <1>4 DEF PCs, Serves, Making, HasLock, Checked
  <1> HIDE DEF label
  <1>6. pc' \in [Handlers -> PCs] /\ owner' \in [Paths -> Handlers \cup {None}]
    BY <1>1, <1>5 DEF ControlInv
  <1>7. ASSUME NEW k \in Handlers
        PROVE  /\ Serves(req[k], pc'[k])
               /\ HasLock(pc'[k]) => owner'[req[k].path] = k
               /\ reply[k] # None <=> pc'[k] = "done"
    <2>1. CASE k = h
      <3>1. pc'[k] = label  BY <1>1, <2>1 DEF ControlInv
      <3>2. HasLock(label) => owner'[req[k].path] = k  BY <1>1, <1>5, <2>1 DEF ControlInv
      <3>3. reply[k] = None  BY <1>1, <2>1 DEF ControlInv
      <3> QED  BY <1>5, <2>1, <3>1, <3>2, <3>3
    <2>2. CASE k # h
      <3>1. pc'[k] = pc[k]  BY <1>1, <2>2 DEF ControlInv
      <3>2. HasLock(pc[k]) => owner[req[k].path] = k  BY DEF ControlInv
      <3>3. HasLock(pc[k]) => req[k].path # req[h].path
        BY <1>1, <3>2, HandlersAssumption
      <3>4. HasLock(pc[k]) => owner'[req[k].path] = k
        BY <1>1, <3>2, <3>3 DEF ControlInv
      <3> QED  BY <3>1, <3>4 DEF ControlInv
    <2> QED  BY <2>1, <2>2
  <1> QED  BY <1>1, <1>6, <1>7 DEF ControlInv

LEMMA EmptyKeepsControl ==
    ASSUME ControlInv, NEW H \in SUBSET Handlers,
           pc' = [k \in Handlers |-> IF k \in H THEN "idle" ELSE pc[k]],
           req' = [k \in Handlers |-> IF k \in H THEN NoRequest ELSE req[k]],
           reply' = [k \in Handlers |-> IF k \in H THEN None ELSE reply[k]],
           owner' = [p \in Paths |-> IF owner[p] \in H THEN None ELSE owner[p]],
           UNCHANGED <<used, begun>>, calm' \subseteq calm, disturbed' \in BOOLEAN
    PROVE  ControlInv'
  <1>1. NoRequest \in RequestType /\ NoRequest.op = "none"
    <2>1. Root \in Text  BY DEF Root, Text
    <2> QED  BY <2>1 DEF NoRequest, Request, RequestType
  <1>2. /\ pc' \in [Handlers -> PCs] /\ req' \in [Handlers -> RequestType]
        /\ reply' \in [Handlers -> Replies \cup {None}]
        /\ owner' \in [Paths -> Handlers \cup {None}]
    BY <1>1 DEF ControlInv, PCs
  <1>3. ASSUME NEW k \in Handlers
        PROVE  /\ Serves(req'[k], pc'[k]) /\ Checked(req'[k])
               /\ HasLock(pc'[k]) => owner'[req'[k].path] = k
               /\ reply'[k] # None <=> pc'[k] = "done"
    <2>1. CASE k \in H
      <3>1. pc'[k] = "idle" /\ req'[k] = NoRequest /\ reply'[k] = None  BY <2>1
      <3> QED  BY <1>1, <3>1 DEF Serves, Making, Checked, HasLock
    <2>2. CASE k \notin H
      <3>1. pc'[k] = pc[k] /\ req'[k] = req[k] /\ reply'[k] = reply[k]  BY <2>2
      <3>2. HasLock(pc[k]) => owner[req[k].path] = k  BY DEF ControlInv
      <3>3. HasLock(pc[k]) => req[k].path \in Paths
        BY DEF ControlInv, Serves, Checked, HasLock
      <3>4. HasLock(pc[k]) => owner'[req[k].path] = k  BY <2>2, <3>2, <3>3
      <3> QED  BY <3>1, <3>4 DEF ControlInv
    <2> QED  BY <2>1, <2>2
  <1>4. calm' \subseteq Handlers /\ used \subseteq Notes \cup Lists /\ begun \in 0..MaxRequests
    BY DEF ControlInv
  <1> QED  BY <1>2, <1>3, <1>4 DEF ControlInv, Checked

\* A request passes its checks.
Passes(h, r, label) ==
    /\ Start(h, r, label)
    /\ r \in RequestType /\ label \in {"lock", "readDir", "create", "insertList"}
    /\ Serves(r, label) /\ Checked(r)
    /\ label \in {"create", "insertList"} => Exists(r.path) /\ r.item \notin used
Refuses(h) ==
    /\ \E outcome \in Replies : Return(h, outcome)
    /\ UNCHANGED <<req, used, begun>> /\ Quiet

Begins6(h) ==
    \/ BeginCreateFolder(h) \/ BeginUpdateFolder(h) \/ BeginDeleteFolder(h)
    \/ BeginListFiles(h) \/ BeginCreateNote(h) \/ BeginCreateTaskList(h)

LEMMA BeginCases ==
    ASSUME NEW h \in Handlers, NEW valid, NEW dir, NEW r, NEW label,
           Begin(h, valid, dir, r, label),
           valid => /\ r \in RequestType /\ label \in {"lock", "readDir", "create", "insertList"}
                    /\ Serves(r, label) /\ Checked(r)
                    /\ label \in {"create", "insertList"} => r.path = dir /\ r.item \notin used
    PROVE  /\ pc[h] = "idle" /\ UNCHANGED <<stores, owner, todo, seen>>
           /\ Refuses(h) \/ \E q, l : Passes(h, q, l)
  <1>1. pc[h] = "idle" /\ UNCHANGED <<stores, owner, todo, seen>>  BY DEF Begin, At
  <1>2. CASE valid /\ Exists(dir) /\ Start(h, r, label)
    <2>1. Passes(h, r, label)  BY <1>2 DEF Passes
    <2> QED  BY <1>1, <2>1
  <1>3. CASE /\ Return(h, IF valid THEN "notfound" ELSE "invalid")
             /\ UNCHANGED <<req, used, begun>> /\ Quiet
    <2>1. (IF valid THEN "notfound" ELSE "invalid") \in Replies  BY DEF Replies
    <2>2. Refuses(h)  BY <1>3, <2>1 DEF Refuses
    <2> QED  BY <1>1, <2>2
  <1> QED  BY <1>2, <1>3 DEF Begin

\* The new path of a folder that is renamed or made.
LEMMA NewPath ==
    ASSUME NEW d \in Text, NEW n \in Text, ValidateName(n)
    PROVE  /\ InDir(d, n) \in Text \ {Root, <<Dot>>} /\ Dir(InDir(d, n)) = d
  <1>1. n # <<>> /\ n # <<Dot>> /\ \A i \in 1..Len(n) : n[i] # Slash
    BY DEF ValidateName, Occurs
  <1>2. InDir(d, n) \in Text /\ Dir(InDir(d, n)) = d /\ InDir(d, n) # Root
    BY <1>1, DirInDir, InDirText
  <1>3. InDir(d, n) # <<Dot>>
    <2>1. CASE d = Root  BY <1>1, <2>1 DEF InDir
    <2>2. CASE d # Root
      <3>1. Len(InDir(d, n)) = Len(d) + 1 + Len(n)  BY <2>2, InDirText
      <3>2. Len(d) \in Nat /\ Len(n) \in Nat /\ Len(n) > 0  BY <1>1 DEF Text
      <3>3. Len(InDir(d, n)) > 1 \/ Len(d) = 0  BY <3>1, <3>2
      <3>4. Len(d) # 0  BY <2>2 DEF Text, Root
      <3>5. Len(<<Dot>>) = 1  OBVIOUS
      <3>6. ASSUME InDir(d, n) = <<Dot>> PROVE FALSE
        <4>1. Len(InDir(d, n)) = 1  BY <3>5, <3>6
        <4> HIDE <3>6
        <4> QED  BY <3>3, <3>4, <4>1
      <3> QED  BY <3>6
    <2> QED  BY <2>1, <2>2
  <1> QED  BY <1>2, <1>3

LEMMA ValidFolder ==
    ASSUME NEW p \in Folders, ValidatePath(p)
    PROVE  Resolve(p) = p /\ p \in Paths \ {Root, <<Dot>>} /\ p[1] # Slash
  <1>1. CleanPath(p) /\ Resolve(p) # Root  BY DEF ValidatePath
  <1>2. Resolve(p) = p /\ p # Root /\ p # <<Dot>>  BY <1>1 DEF Resolve
  <1>3. Resolve(p) \in Paths  BY <1>1 DEF Paths
  <1>4. p[1] # Slash  BY <1>1, <1>2, CleanHead, FoldersAssumption
  <1> QED  BY <1>2, <1>3, <1>4

\* The new path begins with no slash, as the folder it is in does.
LEMMA NewHead ==
    ASSUME NEW d \in Text, d # Root => d[1] # Slash, NEW n \in Text, ValidateName(n)
    PROVE  InDir(d, n)[1] # Slash
  <1>1. Len(n) \in Nat /\ Len(n) > 0  BY DEF ValidateName, Text
  <1>2. n # <<>> /\ n[1] # Slash  BY <1>1 DEF ValidateName, Occurs
  <1> QED  BY <1>2, InDirHead

LEMMA BeginForms ==
    ASSUME NEW h \in Handlers, Begins6(h)
    PROVE  /\ pc[h] = "idle" /\ UNCHANGED <<stores, owner, todo, seen>>
           /\ Refuses(h) \/ \E q, l : Passes(h, q, l)
  <1>0. Root \in Text /\ \A n \in Names : n \in Text
    BY FoldersAssumption DEF Root, Text
  <1> USE DEF Serves, Making, Checked
  <1>1. CASE BeginCreateFolder(h)
    <2> PICK p \in Folders, n \in Names :
           Begin(h, ValidateName(n) /\ ValidateParentDir(p), Resolve(p),
                 Request("create", InDir(Resolve(p), n), InDir(Resolve(p), n), None, Root),
                 "lock")
      BY <1>1 DEF BeginCreateFolder
    <2> DEFINE r == Request("create", InDir(Resolve(p), n), InDir(Resolve(p), n), None, Root)
    <2>1. InDir(Resolve(p), n) \in Text  BY <1>0, ResolvedText, InDirText
    <2>2. r \in RequestType /\ r.op = "create" /\ r.path = InDir(Resolve(p), n)
      BY <1>0, <2>1 DEF Request, RequestType
    <2>3. ValidateName(n) => r.path # Root  BY <1>0, <2>2, ResolvedText, NewPath
    <2>4. ValidateName(n) /\ ValidateParentDir(p) => r.path[1] # Slash
      <3> SUFFICES ASSUME ValidateName(n), ValidateParentDir(p) PROVE r.path[1] # Slash
        OBVIOUS
      <3>1. Resolve(p) # Root => Resolve(p) = p /\ CleanPath(p) /\ p # Root
        BY DEF Resolve, ValidateParentDir
      <3>2. Resolve(p) # Root => Resolve(p)[1] # Slash  BY <3>1, CleanHead, ResolvedText
      <3>3. InDir(Resolve(p), n)[1] # Slash  BY <1>0, <3>2, ResolvedText, NewHead
      <3> QED  BY <2>2, <3>3
    <2> HIDE DEF r
    <2> QED  BY <2>2, <2>3, <2>4, BeginCases DEF r
  <1>2. CASE BeginUpdateFolder(h)
    <2> PICK p \in Folders, n \in Names :
           Begin(h, ValidateName(n) /\ ValidatePath(p), p,
                 Request("update", p, InDir(Dir(p), n), None, Root), "lock")
      BY <1>2 DEF BeginUpdateFolder
    <2> DEFINE r == Request("update", p, InDir(Dir(p), n), None, Root)
    <2>1. p \in Text /\ n \in Text /\ Dir(p) \in Text  BY <1>0, ResolvedText, DirShorter
    <2>2. InDir(Dir(p), n) \in Text  BY <2>1, InDirText
    <2>3. /\ r \in RequestType /\ r.op = "update" /\ r.path = p
          /\ r.target = InDir(Dir(p), n)
      BY <1>0, <2>1, <2>2 DEF Request, RequestType
    <2>4. ValidatePath(p) => p \in Paths \ {Root, <<Dot>>} /\ p[1] # Slash  BY ValidFolder
    <2>5. ValidateName(n) => r.target \notin {Root, <<Dot>>} /\ Dir(r.target) = Dir(p)
      BY <2>1, <2>3, NewPath
    <2>6. ValidateName(n) /\ ValidatePath(p) => r.target[1] # Slash
      BY <2>1, <2>3, <2>4, DirHead, NewHead
    <2> HIDE DEF r
    <2> QED  BY <2>3, <2>4, <2>5, <2>6, BeginCases DEF r
  <1>3. CASE BeginDeleteFolder(h)
    <2> PICK p \in Folders :
           Begin(h, ValidatePath(p), p, Request("delete", p, p, None, Root), "lock")
      BY <1>3 DEF BeginDeleteFolder
    <2> DEFINE r == Request("delete", p, p, None, Root)
    <2>1. r \in RequestType /\ r.op = "delete" /\ r.path = p /\ r.target = p
      BY <1>0, ResolvedText DEF Request, RequestType
    <2>2. ValidatePath(p) => p \in Paths \ {Root, <<Dot>>}  BY ValidFolder
    <2> HIDE DEF r
    <2> QED  BY <2>1, <2>2, BeginCases DEF r
  <1>4. CASE BeginListFiles(h)
    <2> PICK p \in Folders :
           Begin(h, ValidateParentDir(p), Resolve(p),
                 Request("files", Resolve(p), Resolve(p), None, p), "readDir")
      BY <1>4 DEF BeginListFiles
    <2> DEFINE r == Request("files", Resolve(p), Resolve(p), None, p)
    <2>1. r \in RequestType /\ r.op = "files"
      BY <1>0, ResolvedText DEF Request, RequestType
    <2> HIDE DEF r
    <2> QED  BY <2>1, BeginCases DEF r
  <1>5. CASE BeginCreateNote(h)
    <2> PICK p \in Folders, n \in Notes \ used :
           Begin(h, ValidateParentDir(p), Resolve(p),
                 Request("note", Resolve(p), Resolve(p), n, p), "create")
      BY <1>5 DEF BeginCreateNote
    <2> DEFINE r == Request("note", Resolve(p), Resolve(p), n, p)
    <2>1. /\ r \in RequestType /\ r.op = "note" /\ r.item = n /\ r.text = p
          /\ r.path = Resolve(p) /\ r.target = Resolve(p)
      BY ResolvedText DEF Request, RequestType
    <2> HIDE DEF r
    <2> QED  BY <2>1, BeginCases DEF r
  <1>6. CASE BeginCreateTaskList(h)
    <2> PICK p \in Folders, l \in Lists \ used :
           Begin(h, ValidateParentDir(p), Resolve(p),
                 Request("list", Resolve(p), Resolve(p), l, p), "insertList")
      BY <1>6 DEF BeginCreateTaskList
    <2> DEFINE r == Request("list", Resolve(p), Resolve(p), l, p)
    <2>1. /\ r \in RequestType /\ r.op = "list" /\ r.item = l /\ r.text = p
          /\ r.path = Resolve(p) /\ r.target = Resolve(p)
      BY ResolvedText DEF Request, RequestType
    <2> HIDE DEF r
    <2> QED  BY <2>1, BeginCases DEF r
  <1> QED  BY <1>1, <1>2, <1>3, <1>4, <1>5, <1>6 DEF Begins6

LEMMA BeginKeepsControl ==
    ASSUME ControlInv, NEW h \in Handlers, Begins6(h)
    PROVE  ControlInv'
  <1>1. pc[h] = "idle" /\ owner' = owner  BY BeginForms
  <1>2. CASE Refuses(h)
    <2>1. PICK outcome \in Replies : Return(h, outcome)  BY <1>2 DEF Refuses
    <2>2. /\ Serves(req[h], "done") /\ ~ HasLock("done") /\ "done" \in PCs
          /\ Serves(req[h], pc[h])
      BY DEF Serves, HasLock, Making, PCs, ControlInv
    <2>3. Advances(h)
      BY <1>1, <1>2, <2>1, <2>2, Advance DEF Refuses
    <2> QED  BY <2>3, AdvanceKeeps
  <1>3. ASSUME NEW r, NEW label, Passes(h, r, label) PROVE ControlInv'
    <2>1. /\ begun < MaxRequests /\ begun' = begun + 1
          /\ req' = [req EXCEPT ![h] = r] /\ pc' = [pc EXCEPT ![h] = label]
          /\ used' = used \cup ({r.item} \ {None}) /\ reply' = reply
          /\ calm' \subseteq calm \cup {h}
      BY <1>3 DEF Passes, Start, Goto
    <2>2. disturbed' \in BOOLEAN
      <3>1. disturbed \in BOOLEAN  BY DEF ControlInv
      <3> QED  BY <1>3, <3>1 DEF Passes, Start
    <2>3. /\ r \in RequestType /\ label \in PCs \ {"done"} /\ ~ HasLock(label)
          /\ Serves(r, label) /\ Checked(r)
      BY <1>3 DEF Passes, PCs, HasLock
    <2>4. pc' \in [Handlers -> PCs] /\ req' \in [Handlers -> RequestType]
      BY <2>1, <2>3 DEF ControlInv
    <2>5. used' \subseteq Notes \cup Lists
      BY <2>1, <2>3 DEF ControlInv, RequestType
    <2>6. begun' \in 0..MaxRequests  BY <2>1, RequestsAssumption DEF ControlInv
    <2>7. ASSUME NEW k \in Handlers
          PROVE  /\ Serves(req'[k], pc'[k]) /\ Checked(req'[k])
                 /\ HasLock(pc'[k]) => owner[req'[k].path] = k
                 /\ reply[k] # None <=> pc'[k] = "done"
      <3>1. CASE k = h
        <4>1. pc'[k] = label /\ req'[k] = r  BY <2>1, <3>1 DEF ControlInv
        <4>2. reply[k] = None  BY <1>1, <3>1 DEF ControlInv
        <4> QED  BY <2>3, <4>1, <4>2
      <3>2. CASE k # h
        <4>1. pc'[k] = pc[k] /\ req'[k] = req[k]  BY <2>1, <3>2 DEF ControlInv
        <4> QED  BY <4>1 DEF ControlInv
      <3> QED  BY <3>1, <3>2
    <2>8. calm' \subseteq Handlers  BY <2>1 DEF ControlInv
    <2> QED
      BY <1>1, <2>1, <2>2, <2>4, <2>5, <2>6, <2>7, <2>8 DEF ControlInv, Checked
  <1> QED  BY <1>2, <1>3, BeginForms

LEMMA ControlStep ==
    ASSUME ControlInv, [Next]_vars
    PROVE  ControlInv'
  <1>1. CASE UNCHANGED vars
    BY <1>1 DEF vars, ControlInv, Serves, Making, Checked, HasLock
  <1>2. CASE Crash
    <2> DEFINE H == Handlers
    <2>1. /\ pc' = [k \in Handlers |-> IF k \in H THEN "idle" ELSE pc[k]]
          /\ req' = [k \in Handlers |-> IF k \in H THEN NoRequest ELSE req[k]]
          /\ reply' = [k \in Handlers |-> IF k \in H THEN None ELSE reply[k]]
          /\ UNCHANGED <<used, begun>> /\ calm' \subseteq calm
      BY <1>2 DEF Crash
    <2>2. owner' = [p \in Paths |-> IF owner[p] \in H THEN None ELSE owner[p]]
      BY <1>2 DEF Crash, ControlInv
    <2>3. disturbed' \in BOOLEAN
      <3>1. disturbed \in BOOLEAN  BY DEF ControlInv
      <3> QED  BY <1>2, <3>1 DEF Crash
    <2> QED  BY <2>1, <2>2, <2>3, EmptyKeepsControl
  <1>3. ASSUME NEW h \in Handlers, Step(h) PROVE ControlInv'
    <2>1. CASE Begins6(h)  BY <2>1, BeginKeepsControl
    <2>2. CASE Lock(h)  BY <2>2, LockKeepsControl
    <2>3. CASE Calls(h)  BY <2>3, CallsAdvance, AdvanceKeeps
    <2>4. CASE Respond(h)
      <3> DEFINE H == {h}
      <3>1. /\ pc' = [k \in Handlers |-> IF k \in H THEN "idle" ELSE pc[k]]
            /\ req' = [k \in Handlers |-> IF k \in H THEN NoRequest ELSE req[k]]
            /\ reply' = [k \in Handlers |-> IF k \in H THEN None ELSE reply[k]]
            /\ owner' = [p \in Paths |-> IF owner[p] \in H THEN None ELSE owner[p]]
            /\ UNCHANGED <<used, begun>> /\ calm' \subseteq calm
        BY <2>4 DEF Respond, ControlInv
      <3>2. disturbed' \in BOOLEAN  BY <2>4 DEF Respond, ControlInv
      <3>3. H \in SUBSET Handlers  OBVIOUS
      <3> QED  BY <3>1, <3>2, <3>3, EmptyKeepsControl
    <2> QED  BY <1>3, <2>1, <2>2, <2>3, <2>4 DEF Step, Begins6, Calls
  <1> QED  BY <1>1, <1>2, <1>3 DEF Next

\* A rename within its parent directory keeps the tree.
LEMMA TreeMoved ==
    ASSUME NEW D, Tree(D),
           NEW old \in Text \ {Root}, NEW new \in Text \ {Root}, Dir(new) = Dir(old),
           NEW E, E = {Moved(d, old, new) : d \in D}
    PROVE  /\ Tree(E)
           /\ \A d \in D \cup {Root} : Moved(d, old, new) \in E \cup {Root}
  <1>0. /\ Root \in Text /\ Len(Root) = 0
        /\ Len(old) \in Nat /\ Len(old) > 0 /\ Len(new) \in Nat /\ Len(new) > 0
    BY DEF Root, Text
  <1>1. /\ ~ Within(Root, old) /\ ~ Within(Root, new)
        /\ D \in SUBSET (Text \ {Root}) /\ \A d \in D : Dir(d) = Root \/ Dir(d) \in D
    BY <1>0, WithinPoints DEF Tree
  <1>2. Moved(Root, old, new) = Root  BY <1>1 DEF Moved
  <1>3. ~ Within(Dir(old), old)
    <2>1. CASE Dir(old) = Root  BY <1>1, <2>1
    <2>2. CASE Dir(old) # Root
      <3>1. Dir(old) \in Text /\ Len(Dir(old)) < Len(old)  BY <2>2, DirShorter
      <3>2. Len(Dir(old)) \in Nat  BY <3>1 DEF Text
      <3> QED  BY <1>0, <3>1, <3>2, WithinPoints
    <2> QED  BY <2>1, <2>2
  <1>4. ASSUME NEW d \in D
        PROVE  /\ Moved(d, old, new) \in Text \ {Root}
               /\ Dir(Moved(d, old, new)) \in {Moved(c, old, new) : c \in D} \cup {Root}
    <2>0. d \in Text \ {Root} /\ (Dir(d) = Root \/ Dir(d) \in D)  BY <1>1
    <2>1. CASE d = old
      <3>1. Within(d, old)  BY <2>1 DEF Within
      <3>2. Moved(d, old, new) \in Text /\ Moved(d, old, new) = new
        <4>1. Len(SubSeq(d, Len(old) + 1, Len(d))) = 0 /\ SubSeq(d, Len(old) + 1, Len(d)) = <<>>
          BY <1>0, <2>0, <2>1 DEF Text
        <4> QED  BY <3>1, <4>1 DEF Moved, Text
      <3>3. Dir(old) = Root \/ (Dir(old) \in D /\ Moved(Dir(old), old, new) = Dir(old))
        BY <1>3, <2>0, <2>1 DEF Moved
      <3> QED  BY <3>2, <3>3
    <2>2. CASE Under(d, old)
      <3>1. Within(d, old)  BY <2>2 DEF Within
      <3>2. Moved(d, old, new) \in Text /\ Within(Moved(d, old, new), new)
        BY <2>0, <3>1, MovedWithin
      <3>3. Dir(Moved(d, old, new)) = Moved(Dir(d), old, new)  BY <2>0, <2>2, DirMoved
      <3>4. Within(Dir(d), old)  BY <2>0, <2>2, DirWithin
      <3>5. Dir(d) \in D  BY <1>1, <2>0, <3>4
      <3> QED  BY <1>1, <3>2, <3>3, <3>5
    <2>3. CASE ~ Within(d, old)
      <3>1. Moved(d, old, new) = d  BY <2>3 DEF Moved
      <3>2. ~ Within(Dir(d), old)  BY <2>0, <2>3, WithinDir DEF Within
      <3>3. Moved(Dir(d), old, new) = Dir(d)  BY <3>2 DEF Moved
      <3> QED  BY <2>0, <3>1, <3>3
    <2> QED  BY <2>1, <2>2, <2>3 DEF Within
  <1> QED  BY <1>2, <1>4 DEF Tree

LEMMA FilesMoved ==
    ASSUME TreeInv, NEW old \in Text \ {Root}, NEW new \in Text \ {Root},
           Dir(new) = Dir(old), RenameOnDisk(old, new)
    PROVE  TreeInv'
  <1>1. dirs' = {Moved(d, old, new) : d \in dirs}  BY DEF RenameOnDisk
  <1>2. /\ dirs' \subseteq Text \ {Root}
        /\ \A d \in dirs' : Dir(d) = Root \/ Dir(d) \in dirs'
        /\ \A d \in dirs \cup {Root} : Moved(d, old, new) \in dirs' \cup {Root}
    <2>1. Tree(dirs)  BY DEF TreeInv, Tree
    <2>2. Tree(dirs')  BY <1>1, <2>1, TreeMoved
    <2>3. \A d \in dirs \cup {Root} : Moved(d, old, new) \in dirs' \cup {Root}
      BY <1>1, <2>1, TreeMoved
    <2> QED  BY <2>2, <2>3 DEF Tree
  <1>3. files' \in [Notes -> dirs' \cup {Root, None}]
    <2>1. \A n \in Notes : files[n] \in dirs \cup {Root, None}  BY DEF TreeInv, Tree
    <2>2. \A n \in Notes : files'[n] \in dirs' \cup {Root, None}
      BY <1>2, <2>1 DEF RenameOnDisk
    <2> QED  BY <2>2 DEF RenameOnDisk
  <1> QED  BY <1>2, <1>3 DEF TreeInv, Tree

\* What is left when directories go after what they hold is a tree.
LEMMA FilesRemoved ==
    ASSUME TreeInv, NEW gone, NEW lost, RemoveOnDisk(gone, lost),
           \A d \in dirs : Dir(d) \in gone => d \in gone,
           \A n \in Notes : files[n] \in gone => n \in lost,
           Root \notin gone, None \notin gone
    PROVE  TreeInv'
  <1>1. dirs' = dirs \ gone /\ files' = [n \in Notes |-> IF n \in lost THEN None ELSE files[n]]
    BY DEF RemoveOnDisk
  <1>2. \A n \in Notes : files'[n] \in dirs' \cup {Root, None}  BY <1>1 DEF TreeInv, Tree
  <1>3. files' \in [Notes -> dirs' \cup {Root, None}]  BY <1>1, <1>2
  <1> QED  BY <1>1, <1>3 DEF TreeInv, Tree

LEMMA TreeStep ==
    ASSUME ControlInv, TreeInv, [Next]_vars
    PROVE  TreeInv'
  <1>0. ASSUME UNCHANGED <<dirs, files>> PROVE TreeInv'  BY <1>0 DEF TreeInv, Tree
  <1>1. ASSUME NEW h \in Handlers
        PROVE  /\ req[h] \in RequestType /\ Checked(req[h]) /\ Serves(req[h], pc[h])
    BY DEF ControlInv
  <1>2. ASSUME NEW h \in Handlers, Mkdir(h) PROVE TreeInv'
    <2>1. CASE dirs' = dirs \cup {req[h].path} /\ Exists(Dir(req[h].path))
      <3>1. pc[h] = "mkdir" /\ files' = files  BY <1>2 DEF Mkdir, At
      <3>2. req[h].path \in Text \ {Root}
        BY <1>1, <3>1 DEF Serves, Checked, RequestType
      <3> QED  BY <2>1, <3>1, <3>2 DEF TreeInv, Tree, Exists
    <2>2. CASE UNCHANGED dirs  BY <1>0, <1>2, <2>2 DEF Mkdir
    <2> QED  BY <1>2, <2>1, <2>2 DEF Mkdir
  <1>3. ASSUME NEW h \in Handlers, RenameFolder(h) \/ UndoRename(h) PROVE TreeInv'
    <2>1. req[h].op = "update"  BY <1>1, <1>3 DEF RenameFolder, UndoRename, At, Serves
    <2>2. /\ req[h].path \in Text \ {Root} /\ req[h].target \in Text \ {Root}
          /\ Dir(req[h].target) = Dir(req[h].path)
      BY <1>1, <2>1 DEF Checked, RequestType
    <2>3. \/ RenameOnDisk(req[h].path, req[h].target)
          \/ RenameOnDisk(req[h].target, req[h].path)
          \/ UNCHANGED <<dirs, files>>
      BY <1>3 DEF RenameFolder, UndoRename
    <2> QED  BY <1>0, <2>2, <2>3, FilesMoved
  <1>4. ASSUME NEW h \in Handlers, RemoveAll(h) PROVE TreeInv'
    <2> DEFINE x      == req[h].path
               inside == {d \in dirs : Within(d, x)}
               held   == {n \in Notes : files[n] # None /\ Within(files[n], x)}
    <2>1. req[h].op = "delete"  BY <1>1, <1>4 DEF RemoveAll, At, Serves
    <2>2. x \in Text \ {Root}  BY <1>1, <2>1 DEF Checked, RequestType
    <2>3. dirs \subseteq Text \ {Root} /\ None \notin dirs
      BY FoldersAssumption DEF TreeInv, Tree
    <2>4. CASE RemoveOnDisk(inside, held)
      <3>1. \A d \in dirs : Within(Dir(d), x) => Within(d, x)
        BY <2>2, <2>3, WithinDir DEF Within
      <3>2. \A d \in dirs : Dir(d) \in inside => d \in inside  BY <3>1
      <3>3. \A n \in Notes : files[n] \in inside => n \in held  BY <2>3
      <3>4. Root \notin inside /\ None \notin inside  BY <2>3
      <3> HIDE DEF inside, held
      <3> QED  BY <2>4, <3>2, <3>3, <3>4, FilesRemoved
    <2>5. ASSUME NEW gone \in SUBSET inside, NEW lost \in SUBSET held,
                 \A d \in gone : /\ Subdirs(d) \subseteq gone
                                 /\ RowsIn(files, d) \subseteq lost,
                 RemoveOnDisk(gone, lost)
          PROVE  TreeInv'
      <3>1. \A d \in dirs : Dir(d) \in gone => d \in gone
        <4> SUFFICES ASSUME NEW d \in dirs, Dir(d) \in gone PROVE d \in gone
          OBVIOUS
        <4>1. Dir(d) # Root  BY <2>3
        <4>2. Len(Dir(d)) < Len(d) /\ Dir(d) \in Text  BY <2>3, <4>1, DirShorter
        <4>3. d # Dir(d)  BY <2>3, <4>2 DEF Text
        <4>4. d \in Subdirs(Dir(d))  BY <4>3 DEF Subdirs
        <4> QED  BY <2>5, <4>4
      <3>2. \A n \in Notes : files[n] \in gone => n \in lost
        BY <2>5 DEF RowsIn, TreeInv
      <3>3. Root \notin gone /\ None \notin gone  BY <2>3
      <3> HIDE DEF inside, held
      <3> QED  BY <2>5, <3>1, <3>2, <3>3, FilesRemoved
    <2> QED  BY <1>4, <2>4, <2>5 DEF RemoveAll
  <1>5. ASSUME NEW h \in Handlers, CreateFile(h) \/ RemoveFile(h) PROVE TreeInv'
    <2>1. dirs' = dirs  BY <1>5 DEF CreateFile, RemoveFile
    <2>2. \/ files' = [files EXCEPT ![req[h].item] = req[h].path] /\ Exists(req[h].path)
          \/ files' = [files EXCEPT ![req[h].item] = None]
          \/ files' = files
      BY <1>5 DEF CreateFile, RemoveFile
    <2>3. files' \in [Notes -> dirs \cup {Root, None}]
      BY <2>2 DEF TreeInv, Tree, Exists
    <2> QED  BY <2>1, <2>3 DEF TreeInv, Tree
  <1>6. CASE UNCHANGED vars  BY <1>0, <1>6 DEF vars
  <1>7. CASE Crash  BY <1>0, <1>7 DEF Crash, stores
  <1>8. ASSUME NEW h \in Handlers, Step(h),
               ~ Mkdir(h), ~ RenameFolder(h), ~ UndoRename(h), ~ RemoveAll(h),
               ~ CreateFile(h), ~ RemoveFile(h)
        PROVE  TreeInv'
    <2>1. CASE Begins6(h)  BY <1>0, <2>1, BeginForms DEF stores
    <2>2. CASE ~ Begins6(h)
      BY <1>0, <1>8, <2>2 DEF Step, Begins6, stores, Lock, Respond, StatFolder, CheckTarget, CheckOldPath,
         RenameParentDir, DeleteByParentDir, ReadDir, CountSubdirs, CountChildrenInDir,
         ListTaskLists, ListNotes, StatFile, InsertNote, InsertTaskList
    <2> QED  BY <2>1, <2>2
  <1> QED  BY <1>2, <1>3, <1>4, <1>5, <1>6, <1>7, <1>8 DEF Next

LEMMA TablesStep ==
    ASSUME DOMAIN notes = Notes, DOMAIN lists = Lists, [Next]_vars
    PROVE  DOMAIN notes' = Notes /\ DOMAIN lists' = Lists
  <1>1. CASE UNCHANGED vars  BY <1>1 DEF vars
  <1>2. CASE Crash  BY <1>2 DEF Crash, stores
  <1>3. ASSUME NEW h \in Handlers, Begins6(h) PROVE DOMAIN notes' = Notes /\ DOMAIN lists' = Lists
    BY <1>3, BeginForms DEF stores
  <1>4. ASSUME NEW h \in Handlers, RenameParentDir(h) \/ DeleteByParentDir(h)
        PROVE  DOMAIN notes' = Notes /\ DOMAIN lists' = Lists
    BY <1>4 DEF RenameParentDir, DeleteByParentDir, RenamedTable, DeletedTable
  <1>5. ASSUME NEW h \in Handlers, InsertNote(h) \/ InsertTaskList(h)
        PROVE  DOMAIN notes' = Notes /\ DOMAIN lists' = Lists
    BY <1>5 DEF InsertNote, InsertTaskList
  <1>6. ASSUME NEW h \in Handlers, Step(h), ~ Begins6(h), ~ RenameParentDir(h),
               ~ DeleteByParentDir(h), ~ InsertNote(h), ~ InsertTaskList(h)
        PROVE  DOMAIN notes' = Notes /\ DOMAIN lists' = Lists
    <2>1. UNCHANGED <<notes, lists>>
      BY <1>6 DEF Step, Begins6, stores, Lock, Respond, StatFolder, Mkdir, CheckTarget, CheckOldPath,
         RenameFolder, UndoRename, RemoveAll, ReadDir, CountSubdirs, CountChildrenInDir,
         ListTaskLists, ListNotes, CreateFile, StatFile, RemoveFile
    <2> QED  BY <2>1
  <1> QED  BY <1>1, <1>2, <1>3, <1>4, <1>5, <1>6 DEF Next

LEMMA FormInit ==
    ASSUME Init
    PROVE  ControlInv /\ TreeInv /\ DOMAIN notes = Notes /\ DOMAIN lists = Lists
  <1>1. NoRequest \in RequestType /\ NoRequest.op = "none"
    <2>1. Root \in Text  BY DEF Root, Text
    <2> QED  BY <2>1 DEF NoRequest, Request, RequestType
  <1>2. \A h \in Handlers : /\ pc[h] = "idle" /\ req[h] = NoRequest /\ reply[h] = None
    BY DEF Init
  <1>3. \A h \in Handlers : /\ Serves(req[h], pc[h]) /\ Checked(req[h])
                            /\ ~ HasLock(pc[h])
                            /\ reply[h] # None <=> pc[h] = "done"
    BY <1>1, <1>2 DEF Serves, Making, Checked, HasLock
  <1>4. /\ owner \in [Paths -> Handlers \cup {None}] /\ pc \in [Handlers -> PCs]
        /\ req \in [Handlers -> RequestType] /\ reply \in [Handlers -> Replies \cup {None}]
    BY <1>1 DEF Init, Locks!Init, PCs
  <1>5. /\ used \subseteq Notes \cup Lists /\ begun \in 0..MaxRequests
        /\ calm \subseteq Handlers /\ disturbed \in BOOLEAN
    <2>1. begun \in 0..MaxRequests  BY RequestsAssumption DEF Init
    <2>2. used \subseteq Notes \cup Lists /\ calm \subseteq Handlers  BY DEF Init
    <2>3. disturbed \in BOOLEAN  BY DEF Init
    <2> QED  BY <2>1, <2>2, <2>3
  <1>6. ControlInv  BY <1>3, <1>4, <1>5 DEF ControlInv
  <1>7. TreeInv  BY DEF Init, TreeInv, Tree
  <1> QED  BY <1>6, <1>7 DEF Init

\* The form of the state: whatever is interleaved and fails, what is below the
\* data directory stays a tree of directories with every file in one of them,
\* after a RemoveAll that gave up half way too; a path lock has one owner; a
\* handler has an answer exactly when it returns.
THEOREM TypeCorrect == Spec => []TypeOK
  <1> DEFINE Form == ControlInv /\ TreeInv /\ DOMAIN notes = Notes /\ DOMAIN lists = Lists
  <1>1. Init => Form  BY FormInit
  <1>2. Form /\ [Next]_vars => Form'  BY ControlStep, TreeStep, TablesStep
  <1>3. Form => TypeOK
    <2> SUFFICES ASSUME Form PROVE TypeOK
      OBVIOUS
    <2>1. /\ dirs \subseteq Text \ {Root} /\ files \in [Notes -> dirs \cup {Root, None}]
          /\ \A d \in dirs : Exists(Dir(d))
      BY DEF TreeInv, Tree, Exists
    <2>2. Locks!TypeOK  BY DEF ControlInv, Locks!TypeOK
    <2> QED  BY <2>1, <2>2 DEF ControlInv, TypeOK, At
  <1> QED  BY <1>1, <1>2, <1>3, PTL DEF Spec

-----------------------------------------------------------------------------
(***************************************************************************)
(* The two places of a note, and the folder of a task list, agree.         *)
(*                                                                         *)
(* A new note's id is in no row and in no other request.                   *)
(***************************************************************************)
MakesNote(label) == label = "create" \/ Making(label)

FreshNote(h) ==
    /\ req[h].item \in Notes \cap used
    /\ notes[req[h].item] = None
    /\ \A k \in Handlers \ {h} : MakesNote(pc[k]) => req[k].item # req[h].item

NotesFresh ==
    /\ notes \in [Notes -> Text \cup {None}]
    /\ \A h \in Handlers : MakesNote(pc[h]) => FreshNote(h)
    /\ \A n \in Notes : notes[n] # None => n \in used

\* A call goes on to a label of the same handler.
LEMMA CallsFacts ==
    ASSUME ControlInv, NEW h \in Handlers, Calls(h)
    PROVE  /\ pc[h] \notin {"idle", "done", "lock"}
           /\ \E label \in PCs \ {"idle"} : /\ pc' = [pc EXCEPT ![h] = label]
                                            /\ Serves(req[h], label)
           /\ UNCHANGED <<owner, used, begun, req>>
           /\ disturbed' \in {disturbed, TRUE}
           /\ \A k \in Handlers \ {h} : pc'[k] = pc[k]
           /\ MakesNote(pc'[h]) => MakesNote(pc[h])
  <1>1. pc[h] \notin {"idle", "done", "lock"}
    BY DEF Calls, At, StatFolder, Mkdir, CheckTarget, CheckOldPath, RenameFolder, RenameParentDir,
       UndoRename, DeleteByParentDir, RemoveAll, ReadDir, CountSubdirs, CountChildrenInDir,
       ListTaskLists, ListNotes, CreateFile, StatFile, InsertNote, RemoveFile, InsertTaskList
  <1>2. Advances(h)  BY CallsAdvance
  <1>3. PICK label \in PCs : pc' = [pc EXCEPT ![h] = label] /\ Serves(req[h], label)
    BY <1>2 DEF Advances
  <1>4. UNCHANGED <<owner, used, begun, req>> /\ disturbed' \in {disturbed, TRUE}
    BY <1>2 DEF Advances
  <1>5. pc'[h] = label /\ \A k \in Handlers \ {h} : pc'[k] = pc[k]  BY <1>3 DEF ControlInv
  <1>6. label # "idle"
    BY <1>5 DEF Calls, Goto, Return, ControlInv, StatFolder, Mkdir, CheckTarget, CheckOldPath, RenameFolder,
       RenameParentDir, UndoRename, DeleteByParentDir, RemoveAll, ReadDir, CountSubdirs,
       CountChildrenInDir, ListTaskLists, ListNotes, CreateFile, StatFile, InsertNote,
       RemoveFile, InsertTaskList
  <1>7. MakesNote(label) => MakesNote(pc[h])
    <2> SUFFICES ASSUME MakesNote(label) PROVE MakesNote(pc[h])
      OBVIOUS
    <2>1. req[h].op = "note"  BY <1>3 DEF Serves, MakesNote
    <2>2. Serves(req[h], pc[h]) /\ pc[h] \in PCs  BY DEF ControlInv
    <2> QED  BY <1>1, <2>1, <2>2 DEF Serves, PCs, MakesNote, Making
  <1> QED  BY <1>1, <1>3, <1>4, <1>5, <1>6, <1>7

LEMMA FreshKept ==
    ASSUME NotesFresh, NEW h \in Handlers, \A k \in Handlers \ {h} : pc'[k] = pc[k] /\ req'[k] = req[k],
           MakesNote(pc'[h]) => MakesNote(pc[h]) /\ req'[h] = req[h],
           notes' \in [Notes -> Text \cup {None}], used' = used,
           \A n \in Notes :
              \/ notes[n] = None => notes'[n] = None
              \/ n = req[h].item /\ MakesNote(pc[h]) /\ ~ MakesNote(pc'[h])
    PROVE  NotesFresh'
  <1>1. ASSUME NEW k \in Handlers, MakesNote(pc'[k]) PROVE FreshNote(k)'
    <2>1. MakesNote(pc[k]) /\ req'[k] = req[k]  BY <1>1
    <2>2. FreshNote(k)  BY <2>1 DEF NotesFresh
    <2>3. notes'[req[k].item] = None
      <3>1. CASE k = h  BY <1>1, <2>2, <3>1 DEF FreshNote
      <3>2. CASE k # h
        <4>1. MakesNote(pc[h]) => req[h].item # req[k].item  BY <2>2, <3>2 DEF FreshNote
        <4> QED  BY <2>2, <4>1 DEF FreshNote
      <3> QED  BY <3>1, <3>2
    <2>4. \A j \in Handlers \ {k} : MakesNote(pc'[j]) => req'[j].item # req[k].item
      BY <2>2 DEF FreshNote
    <2> QED  BY <2>1, <2>2, <2>3, <2>4 DEF FreshNote
  <1>2. \A n \in Notes : notes'[n] # None => n \in used
    BY DEF NotesFresh, FreshNote
  <1> QED  BY <1>1, <1>2 DEF NotesFresh, MakesNote

\* The rows that RenameParentDir and DeleteByParentDir leave.
LEMMA RenamedRows ==
    ASSUME Plain, ListsInv, NotesFresh, NEW h \in Handlers, pc[h] = "renameRows"
    PROVE  /\ req[h] \in RequestType
           /\ RenamedTable(notes, req[h]) =
                [n \in Notes |-> IF notes[n] = None THEN None
                                 ELSE Moved(notes[n], req[h].path, req[h].target)]
           /\ RenamedTable(lists, req[h]) =
                [l \in Lists |-> IF lists[l] = None THEN None
                                 ELSE Moved(lists[l], req[h].path, req[h].target)]
  <1> DEFINE r == req[h]
  <1>1. Renaming(r) /\ r \in RequestType  BY DEF ListsInv, Fits
  <1>2. r.path \in Text /\ r.target \in Text  BY <1>1 DEF RequestType
  <1>3. \A s \in Text : RenamedBy(s, r.path, r.target) = Moved(s, r.path, r.target)
    BY <1>1, <1>2, RenameExact DEF Plain, Renaming
  <1>4. /\ DOMAIN notes = Notes /\ \A n \in Notes : notes[n] \in Text \cup {None}
        /\ DOMAIN lists = Lists /\ \A l \in Lists : lists[l] \in Text \cup {None}
    BY DEF NotesFresh, ListsInv
  <1> HIDE DEF r
  <1>5. RenamedTable(notes, r) =
          [n \in Notes |-> IF notes[n] = None THEN None ELSE Moved(notes[n], r.path, r.target)]
    BY <1>3, <1>4 DEF RenamedTable
  <1>6. RenamedTable(lists, r) =
          [l \in Lists |-> IF lists[l] = None THEN None ELSE Moved(lists[l], r.path, r.target)]
    BY <1>3, <1>4 DEF RenamedTable
  <1> QED  BY <1>1, <1>5, <1>6 DEF r

LEMMA DeletedRows ==
    ASSUME Plain, ListsInv, NotesFresh, NEW h \in Handlers
    PROVE  /\ DeletedTable(notes, req[h]) =
                [n \in Notes |-> IF notes[n] = None \/ Within(notes[n], req[h].path) THEN None
                                 ELSE notes[n]]
           /\ DeletedTable(lists, req[h]) =
                [l \in Lists |-> IF lists[l] = None \/ Within(lists[l], req[h].path) THEN None
                                 ELSE lists[l]]
  <1> DEFINE r == req[h]
  <1>1. r.path \in Text  BY DEF ListsInv, RequestType
  <1>2. \A s \in Text : DeletedBy(s, r.path) <=> Within(s, r.path)
    BY <1>1, DeleteExact DEF Plain
  <1>3. /\ DOMAIN notes = Notes /\ \A n \in Notes : notes[n] \in Text \cup {None}
        /\ DOMAIN lists = Lists /\ \A l \in Lists : lists[l] \in Text \cup {None}
    BY DEF NotesFresh, ListsInv
  <1> HIDE DEF r
  <1>4. DeletedTable(notes, r) =
          [n \in Notes |-> IF notes[n] = None \/ Within(notes[n], r.path) THEN None ELSE notes[n]]
    BY <1>2, <1>3 DEF DeletedTable
  <1>5. DeletedTable(lists, r) =
          [l \in Lists |-> IF lists[l] = None \/ Within(lists[l], r.path) THEN None ELSE lists[l]]
    BY <1>2, <1>3 DEF DeletedTable
  <1> QED  BY <1>4, <1>5 DEF r

LEMMA FreshStep ==
    ASSUME Plain, ControlInv, ListsInv, NotesFresh, [Next]_vars
    PROVE  NotesFresh'
  <1>1. CASE UNCHANGED vars
    BY <1>1 DEF vars, NotesFresh, FreshNote, MakesNote, Making
  <1>2. CASE Crash
    <2>1. \A k \in Handlers : pc'[k] = "idle"  BY <1>2 DEF Crash
    <2>2. \A k \in Handlers : ~ MakesNote(pc'[k])  BY <2>1 DEF MakesNote, Making
    <2>3. UNCHANGED <<notes, used>>  BY <1>2 DEF Crash, stores
    <2> QED  BY <2>2, <2>3 DEF NotesFresh, MakesNote
  <1>3. ASSUME NEW h \in Handlers, Step(h) PROVE NotesFresh'
    <2>0. notes \in [Notes -> Text \cup {None}]  BY DEF NotesFresh
    <2>1. CASE Begins6(h)
      <3>1. pc[h] = "idle" /\ notes' = notes  BY <2>1, BeginForms DEF stores
      <3>2. CASE Refuses(h)
        <4>1. pc' = [pc EXCEPT ![h] = "done"] /\ UNCHANGED <<req, used>>
          BY <3>2 DEF Refuses, Return
        <4>2. ~ MakesNote(pc'[h]) /\ \A k \in Handlers \ {h} : pc'[k] = pc[k] /\ req'[k] = req[k]
          BY <4>1 DEF ControlInv, MakesNote, Making
        <4> QED  BY <2>0, <3>1, <4>1, <4>2, FreshKept
      <3>3. ASSUME NEW r, NEW label, Passes(h, r, label) PROVE NotesFresh'
        <4>1. /\ req' = [req EXCEPT ![h] = r] /\ pc' = [pc EXCEPT ![h] = label]
              /\ used' = used \cup ({r.item} \ {None})
          BY <3>3 DEF Passes, Start, Goto
        <4>2. /\ pc'[h] = label /\ req'[h] = r
              /\ \A k \in Handlers \ {h} : pc'[k] = pc[k] /\ req'[k] = req[k]
          BY <4>1 DEF ControlInv
        <4>3. MakesNote(label) => r.item \in Notes \ used
          BY <3>3 DEF Passes, MakesNote, Making, Serves, Checked
        <4>4. ASSUME NEW k \in Handlers, MakesNote(pc'[k]) PROVE FreshNote(k)'
          <5>1. CASE k = h
            <6>1. r.item \in Notes \ used  BY <4>2, <4>3, <4>4, <5>1
            <6>2. r.item \in used' /\ notes[r.item] = None
              BY <4>1, <6>1, ItemsAssumption DEF NotesFresh
            <6>3. \A j \in Handlers \ {h} : MakesNote(pc'[j]) => req'[j].item # r.item
              BY <4>2, <6>1 DEF NotesFresh, FreshNote
            <6> QED  BY <3>1, <4>2, <5>1, <6>1, <6>2, <6>3 DEF FreshNote
          <5>2. CASE k # h
            <6>1. FreshNote(k) /\ req'[k] = req[k]  BY <4>2, <4>4, <5>2 DEF NotesFresh
            <6>2. ASSUME NEW j \in Handlers \ {k}, MakesNote(pc'[j])
                  PROVE  req'[j].item # req[k].item
              <7>1. CASE j = h  BY <4>2, <4>3, <6>1, <6>2, <7>1 DEF FreshNote
              <7>2. CASE j # h  BY <4>2, <6>1, <6>2, <7>2 DEF FreshNote
              <7> QED  BY <7>1, <7>2
            <6> QED  BY <3>1, <4>1, <6>1, <6>2 DEF FreshNote
          <5> QED  BY <5>1, <5>2
        <4>5. \A n \in Notes : notes'[n] # None => n \in used'
          BY <3>1, <4>1 DEF NotesFresh
        <4> QED  BY <2>0, <3>1, <4>4, <4>5 DEF NotesFresh, MakesNote
      <3> QED  BY <2>1, <3>2, <3>3, BeginForms
    <2>2. CASE Lock(h)
      <3>1. pc[h] = "lock" /\ pc' = [pc EXCEPT ![h] = FirstCall[req[h].op]] /\ UNCHANGED <<notes, used, req>>
        BY <2>2 DEF Lock, At, Goto, Call, stores
      <3>2. Serves(req[h], "lock")  BY <3>1 DEF ControlInv
      <3>3. FirstCall[req[h].op] \in {"stat", "check", "deleteRows"}
        BY <3>2 DEF Serves, FirstCall
      <3>4. ~ MakesNote(pc'[h]) /\ \A k \in Handlers \ {h} : pc'[k] = pc[k] /\ req'[k] = req[k]
        BY <3>1, <3>3 DEF ControlInv, MakesNote, Making
      <3> QED  BY <2>0, <3>1, <3>4, FreshKept
    <2>3. CASE Respond(h)
      <3>1. ~ MakesNote(pc'[h]) /\ \A k \in Handlers \ {h} : pc'[k] = pc[k] /\ req'[k] = req[k]
        BY <2>3 DEF Respond, ControlInv, MakesNote, Making
      <3>2. UNCHANGED <<notes, used>>  BY <2>3 DEF Respond, stores
      <3> QED  BY <2>0, <3>1, <3>2, FreshKept
    <2>4. CASE Calls(h)
      <3>1. /\ UNCHANGED <<used, req>> /\ \A k \in Handlers \ {h} : pc'[k] = pc[k]
            /\ MakesNote(pc'[h]) => MakesNote(pc[h])
        BY <2>4, CallsFacts
      <3>2. CASE InsertNote(h) /\ notes' # notes
        <4>1. pc[h] = "insert" /\ notes' = [notes EXCEPT ![req[h].item] = req[h].text]
              /\ pc' = [pc EXCEPT ![h] = "done"]
          BY <3>2 DEF InsertNote, At, Return
        <4>2. req[h].text \in Text  BY DEF ControlInv, RequestType
        <4>3. notes' \in [Notes -> Text \cup {None}]  BY <2>0, <4>1, <4>2
        <4>4. MakesNote(pc[h]) /\ ~ MakesNote(pc'[h])
          BY <4>1 DEF MakesNote, Making, ControlInv
        <4>5. \A n \in Notes : n # req[h].item => notes'[n] = notes[n]  BY <2>0, <4>1
        <4> QED  BY <3>1, <4>3, <4>4, <4>5, FreshKept
      <3>3. ASSUME notes' \in [Notes -> Text \cup {None}],
                   \A n \in Notes : notes[n] = None => notes'[n] = None
            PROVE  NotesFresh'
        BY <3>1, <3>3, FreshKept
      <3>4. CASE RenameParentDir(h) /\ notes' # notes
        <4>1. pc[h] = "renameRows" /\ notes' = RenamedTable(notes, req[h])
          BY <3>4 DEF RenameParentDir, At
        <4>2. /\ notes' = [n \in Notes |-> IF notes[n] = None THEN None
                                           ELSE Moved(notes[n], req[h].path, req[h].target)]
              /\ req[h].path \in Text /\ req[h].target \in Text
          BY <4>1, RenamedRows DEF RequestType
        <4>3. \A n \in Notes : notes[n] # None => Moved(notes[n], req[h].path, req[h].target) \in Text
          BY <2>0, <4>2, MovedText
        <4> QED  BY <3>3, <4>2, <4>3
      <3>5. CASE DeleteByParentDir(h) /\ notes' # notes
        <4>1. notes' = DeletedTable(notes, req[h])  BY <3>5 DEF DeleteByParentDir
        <4>2. notes' = [n \in Notes |-> IF notes[n] = None \/ Within(notes[n], req[h].path)
                                        THEN None ELSE notes[n]]
          BY <4>1, DeletedRows
        <4> QED  BY <2>0, <3>3, <4>2
      <3>6. CASE notes' = notes  BY <2>0, <3>3, <3>6
      <3>7. notes' # notes => InsertNote(h) \/ RenameParentDir(h) \/ DeleteByParentDir(h)
        BY <2>4 DEF Calls, stores, StatFolder, Mkdir, CheckTarget, CheckOldPath,
         RenameFolder, UndoRename, RemoveAll, ReadDir, CountSubdirs, CountChildrenInDir,
         ListTaskLists, ListNotes, CreateFile, StatFile, RemoveFile, InsertTaskList
      <3> QED  BY <3>2, <3>4, <3>5, <3>6, <3>7
    <2> QED  BY <1>3, <2>1, <2>2, <2>3, <2>4 DEF Step, Begins6, Calls
  <1> QED  BY <1>1, <1>2, <1>3 DEF Next

-----------------------------------------------------------------------------
\* No two requests under way tangle.
Active(h) == pc[h] \notin {"idle", "done"}
NoTangle  == \A h \in Handlers : \A k \in Handlers \ {h} :
                Active(h) /\ Active(k) => ~ Tangled(req[h], req[k])

LEMMA TangleStep ==
    ASSUME ControlInv, disturbed \/ NoTangle, [Next]_vars
    PROVE  disturbed' \/ NoTangle'
  <1> SUFFICES ASSUME ~ disturbed' PROVE NoTangle'
    OBVIOUS
  <1>1. ASSUME ~ disturbed,
               \A h \in Handlers : pc'[h] \in {"idle", "done"} \/ (Active(h) /\ req'[h] = req[h])
        PROVE  NoTangle'
    BY <1>1 DEF NoTangle, Active
  <1>2. CASE UNCHANGED vars  BY <1>2 DEF vars, NoTangle, Active
  <1>3. CASE Crash
    <2>1. ~ disturbed /\ \A h \in Handlers : pc'[h] = "idle"  BY <1>3 DEF Crash
    <2> QED  BY <1>1, <2>1
  <1>4. ASSUME NEW h \in Handlers, Step(h) PROVE NoTangle'
    <2>1. CASE Calls(h)
      <3>1. /\ pc[h] \notin {"idle", "done"} /\ req' = req /\ ~ disturbed
            /\ \A k \in Handlers \ {h} : pc'[k] = pc[k]
        BY <2>1, CallsFacts
      <3> QED  BY <1>1, <3>1 DEF Active
    <2>2. CASE Lock(h)
      <3>1. pc[h] = "lock" /\ UNCHANGED <<req, disturbed>>
            /\ pc' = [pc EXCEPT ![h] = FirstCall[req[h].op]]
        BY <2>2 DEF Lock, At, Goto, Call, Quiet
      <3>2. \A k \in Handlers \ {h} : pc'[k] = pc[k]  BY <3>1 DEF ControlInv
      <3> QED  BY <1>1, <3>1, <3>2 DEF Active
    <2>3. CASE Respond(h)
      <3>1. /\ ~ disturbed /\ pc'[h] = "idle"
            /\ \A k \in Handlers \ {h} : pc'[k] = pc[k] /\ req'[k] = req[k]
        BY <2>3 DEF Respond, ControlInv
      <3> QED  BY <1>1, <3>1 DEF Active
    <2>4. CASE Begins6(h)
      <3>1. CASE Refuses(h)
        <4>1. ~ disturbed /\ req' = req /\ pc' = [pc EXCEPT ![h] = "done"]
          BY <3>1 DEF Refuses, Return, Quiet
        <4>2. pc'[h] = "done" /\ \A k \in Handlers \ {h} : pc'[k] = pc[k]
          BY <4>1 DEF ControlInv
        <4> QED  BY <1>1, <4>1, <4>2 DEF Active
      <3>2. ASSUME NEW r, NEW label, Passes(h, r, label) PROVE NoTangle'
        <4>1. /\ req' = [req EXCEPT ![h] = r] /\ pc' = [pc EXCEPT ![h] = label]
              /\ ~ disturbed
              /\ \A k \in Handlers \ {h} : pc[k] # "done" => ~ Tangled(r, req[k])
          BY <3>2 DEF Passes, Start, Goto, At
        <4>2. /\ pc'[h] = label /\ req'[h] = r
              /\ \A k \in Handlers \ {h} : pc'[k] = pc[k] /\ req'[k] = req[k]
          BY <4>1 DEF ControlInv
        <4>3. \A s : Tangled(s, r) => Tangled(r, s)
          BY DEF Tangled
        <4>4. ASSUME NEW i \in Handlers, NEW k \in Handlers \ {i},
                     pc'[i] \notin {"idle", "done"}, pc'[k] \notin {"idle", "done"}
              PROVE  ~ Tangled(req'[i], req'[k])
          <5>1. CASE i = h  BY <4>1, <4>2, <4>4, <5>1
          <5>2. CASE k = h  BY <4>1, <4>2, <4>3, <4>4, <5>2
          <5>3. CASE i # h /\ k # h  BY <4>1, <4>2, <4>4, <5>3 DEF NoTangle, Active
          <5> QED  BY <5>1, <5>2, <5>3
        <4> QED  BY <4>4 DEF NoTangle, Active
      <3> QED  BY <2>4, <3>1, <3>2, BeginForms
    <2> QED  BY <1>4, <2>1, <2>2, <2>3, <2>4 DEF Step, Begins6, Calls
  <1> QED  BY <1>2, <1>3, <1>4 DEF Next

-----------------------------------------------------------------------------
(***************************************************************************)
(* While nothing is disturbed: no row is in the folder that a rename is    *)
(* about to make or a deletion about to remove; what a rename has moved on *)
(* disk is where the rewritten rows will say; and a note or a task list is *)
(* in its place, or a handler in the middle of changing it holds it.       *)
(***************************************************************************)
NoRows(x) ==
    /\ \A n \in Notes : notes[n] # None => ~ Within(notes[n], x)
    /\ \A l \in Lists : lists[l] # None => ~ Within(lists[l], x)

Clear(h) ==
    /\ Renames(pc[h]) => NoRows(req[h].target)
    /\ pc[h] = "removeAll" => NoRows(req[h].path)

Placed(h) ==
    /\ pc[h] = "insertList" => Exists(req[h].path)
    /\ Making(pc[h]) => files[req[h].item] = req[h].path

Owed(h) ==
    Moving(pc[h]) =>
    /\ \A n \in Notes : notes[n] # None /\ Within(notes[n], req[h].path) =>
          files[n] = Moved(notes[n], req[h].path, req[h].target)
    /\ \A l \in Lists : lists[l] # None /\ Within(lists[l], req[h].path) =>
          Exists(Moved(lists[l], req[h].path, req[h].target))

NoteFine(n) == IF notes[n] = None THEN files[n] = None ELSE files[n] = Resolve(notes[n])
NoteHeld(n, h) ==
    \/ Making(pc[h]) /\ req[h].item = n
    \/ Moving(pc[h]) /\ notes[n] # None /\ Within(notes[n], req[h].path)
    \/ /\ pc[h] = "removeAll" /\ notes[n] = None
       /\ files[n] # None /\ Within(files[n], req[h].path)

ListFine(l)    == lists[l] = None \/ Exists(Resolve(lists[l]))
ListHeld(l, h) == Moving(pc[h]) /\ lists[l] # None /\ Within(lists[l], req[h].path)

PlaceInv ==
    /\ \A h \in Handlers : Clear(h) /\ Placed(h) /\ Owed(h)
    /\ \A n \in Notes : NoteFine(n) \/ \E h \in Handlers : NoteHeld(n, h)
    /\ \A l \in Lists : ListFine(l) \/ \E h \in Handlers : ListHeld(l, h)

\* What the steps of the proof rest on.
Grounds == ControlInv /\ TreeInv /\ ListsInv /\ NotesFresh /\ NoTangle

\* A handler past its lock, or one that makes something, has its folder and
\* what is above and below it to itself.
Writing(label) == HasLock(label) \/ MakesNote(label) \/ label = "insertList"

Apart(r, s) == \A x \in {r.path, r.target}, y \in {s.path, s.target} :
                  ~ Within(x, y) /\ ~ Within(y, x)

LEMMA Separate ==
    ASSUME Grounds, NEW h \in Handlers, NEW k \in Handlers \ {h},
           Writing(pc[h]), Writing(pc[k]), HasLock(pc[h]) \/ HasLock(pc[k])
    PROVE  Apart(req[h], req[k])
  <1>1. ASSUME NEW i \in Handlers, Writing(pc[i])
        PROVE  /\ Active(i) /\ Writes(req[i])
               /\ HasLock(pc[i]) <=> LocksFolder(req[i])
               /\ HasLock(pc[i]) => owner[req[i].path] = i
    <2>1. Serves(req[i], pc[i]) /\ (HasLock(pc[i]) => owner[req[i].path] = i)
      BY DEF Grounds, ControlInv
    <2>2. Active(i)  BY <1>1 DEF Writing, HasLock, MakesNote, Making, Active
    <2>3. CASE HasLock(pc[i])
      BY <2>1, <2>2, <2>3 DEF HasLock, Serves, Writes, LocksFolder
    <2>4. CASE MakesNote(pc[i]) \/ pc[i] = "insertList"
      <3>1. req[i].op \in {"note", "list"}  BY <2>1, <2>4 DEF MakesNote, Serves
      <3>2. ~ HasLock(pc[i])  BY <2>4 DEF MakesNote, Making, HasLock
      <3> QED  BY <2>2, <3>1, <3>2 DEF Writes, LocksFolder
    <2> QED  BY <1>1, <2>3, <2>4 DEF Writing
  <1>2. ~ Tangled(req[h], req[k])  BY <1>1 DEF Grounds, NoTangle
  <1>3. ~ (LocksFolder(req[h]) /\ LocksFolder(req[k]) /\ req[h].path = req[k].path)
    BY <1>1
  <1> QED  BY <1>1, <1>2, <1>3 DEF Tangled, Footprint, Apart

\* What is in a folder of one is in no folder of the other.
LEMMA Elsewhere ==
    ASSUME NEW r \in RequestType, NEW q \in RequestType, Apart(r, q), NEW s \in Text,
           NEW x \in {r.path, r.target}, NEW y \in {q.path, q.target}, Within(s, x)
    PROVE  ~ Within(s, y)
  <1>1. x \in Text /\ y \in Text  BY DEF RequestType
  <1>2. Within(s, y) => Within(x, y) \/ Within(y, x)  BY <1>1, WithinComparable
  <1> QED  BY <1>2 DEF Apart

\* The folder of a request that changes folders is neither the root nor ".".
LEMMA NamedFolders ==
    ASSUME Grounds, NEW h \in Handlers, HasLock(pc[h]), NEW x \in {req[h].path, req[h].target}
    PROVE  /\ x \in Text \ {Root, <<Dot>>} /\ req[h] \in RequestType
           /\ \A s \in Text : Within(s, x) => Resolve(s) = s /\ s # Root
           /\ \A s \in Text : Within(Resolve(s), x) => Resolve(s) = s /\ s # Root
  <1>1. /\ req[h] \in RequestType /\ Checked(req[h]) /\ Serves(req[h], pc[h])
    BY DEF Grounds, ControlInv
  <1>2. req[h].op \in {"update", "delete"}  BY <1>1 DEF HasLock, Serves
  <1>3. x \in Text \ {Root, <<Dot>>}  BY <1>1, <1>2 DEF Checked, RequestType
  <1>4. \A s \in Text : Within(s, x) => Resolve(s) = s /\ s # Root
    BY <1>3, WithinNotDot
  <1>5. \A s \in Text : Within(Resolve(s), x) => Resolve(s) = s /\ s # Root
    BY <1>3, WithinNamed
  <1> QED  BY <1>1, <1>3, <1>4, <1>5

\* What another handler is owed and holds, the new item i left out.
StillHolds(k, i) ==
    /\ Clear(k)' /\ Placed(k)' /\ Owed(k)'
    /\ \A n \in Notes \ {i} : NoteHeld(n, k) => NoteHeld(n, k)'
    /\ \A l \in Lists \ {i} : ListHeld(l, k) => ListHeld(l, k)'

\* The disk changes below x only.
DiskKept(x) ==
    /\ \A d \in dirs : ~ Within(d, x) => d \in dirs'
    /\ \A n \in Notes : files[n] = None \/ ~ Within(files[n], x) => files'[n] = files[n]

LEMMA OthersDisk ==
    ASSUME Grounds, PlaceInv, NEW h \in Handlers, HasLock(pc[h]),
           NEW x \in {req[h].path, req[h].target}, DiskKept(x),
           UNCHANGED <<notes, lists, req>>,
           NEW k \in Handlers \ {h}, pc'[k] = pc[k]
    PROVE  StillHolds(k, None)
  <1> DEFINE r == req[h]
             q == req[k]
  <1>1. /\ r \in RequestType /\ q \in RequestType
        /\ q.path \in Text /\ q.target \in Text
    BY DEF Grounds, ControlInv, RequestType
  <1>2. Writing(pc[k]) => Apart(q, r)  BY Separate DEF Writing
  <1>3. Writing(pc[k]) => ~ Within(q.path, x)  BY <1>2 DEF Apart
  <1>4. Clear(k)'  BY DEF PlaceInv, Clear, NoRows
  <1>5. Placed(k)'
    <2>1. CASE pc[k] = "insertList"
      <3>1. Exists(q.path) /\ ~ Within(q.path, x)
        BY <1>3, <2>1 DEF PlaceInv, Placed, Writing
      <3>2. Exists(q.path)'  BY <3>1 DEF Exists, DiskKept
      <3> QED  BY <2>1, <3>2 DEF Placed, Making
    <2>2. CASE Making(pc[k])
      <3>1. q.item \in Notes  BY <2>2 DEF Grounds, NotesFresh, FreshNote, MakesNote
      <3>2. files[q.item] = q.path /\ ~ Within(q.path, x)
        BY <1>3, <2>2 DEF PlaceInv, Placed, Writing, MakesNote
      <3>3. files'[q.item] = files[q.item]  BY <3>1, <3>2 DEF DiskKept
      <3> QED  BY <2>2, <3>2, <3>3 DEF Placed, Making
    <2>3. CASE pc[k] # "insertList" /\ ~ Making(pc[k])  BY <2>3 DEF Placed, Making
    <2> QED  BY <2>1, <2>2, <2>3
  <1>6. Owed(k)'
    <2> SUFFICES ASSUME Moving(pc[k]) PROVE Owed(k)'
      BY DEF Owed, Moving
    <2>1. Apart(q, r) /\ Owed(k)
      BY <1>2 DEF Writing, HasLock, Moving, PlaceInv
    <2> HIDE DEF q, r
    <2>2. ASSUME NEW n \in Notes, notes[n] # None, Within(notes[n], q.path)
          PROVE  files'[n] = Moved(notes[n], q.path, q.target)
      <3>1. notes[n] \in Text  BY <2>2 DEF Grounds, NotesFresh
      <3>2. files[n] = Moved(notes[n], q.path, q.target)
        BY <2>1, <2>2 DEF Owed, q
      <3>3. files[n] \in Text /\ Within(files[n], q.target)
        BY <1>1, <2>2, <3>1, <3>2, MovedWithin
      <3>4. ~ Within(files[n], x)  BY <1>1, <2>1, <3>3, Elsewhere DEF r
      <3> QED  BY <3>2, <3>4 DEF DiskKept
    <2>3. ASSUME NEW l \in Lists, lists[l] # None, Within(lists[l], q.path)
          PROVE  Moved(lists[l], q.path, q.target) \in dirs' \cup {Root}
      <3>1. lists[l] \in Text  BY <2>3 DEF Grounds, ListsInv
      <3> DEFINE m == Moved(lists[l], q.path, q.target)
      <3>2. Exists(m)  BY <2>1, <2>3 DEF Owed, q
      <3>3. m \in Text /\ Within(m, q.target)
        BY <1>1, <2>3, <3>1, MovedWithin
      <3> HIDE DEF m
      <3>4. ~ Within(m, x)  BY <1>1, <2>1, <3>3, Elsewhere DEF r
      <3>5. m \in dirs' \cup {Root}  BY <3>2, <3>4 DEF Exists, DiskKept
      <3> QED  BY <3>5 DEF m
    <2> QED  BY <2>2, <2>3 DEF Owed, Exists, q
  <1>7. ASSUME NEW n \in Notes, NoteHeld(n, k) PROVE NoteHeld(n, k)'
    <2>1. CASE ~ (pc[k] = "removeAll")
      BY <1>7, <2>1 DEF NoteHeld, Making, Moving
    <2>2. CASE pc[k] = "removeAll"
      <3>1. notes[n] = None /\ files[n] # None /\ Within(files[n], q.path)
        BY <1>7, <2>2 DEF NoteHeld, Making, Moving
      <3>2. files[n] \in Text
        <4>1. Root \in Text  BY DEF Root, Text
        <4> QED  BY <3>1, <4>1 DEF Grounds, TreeInv, Tree
      <3>3. Apart(q, r)  BY <1>2, <2>2 DEF Writing, HasLock
      <3>4. ~ Within(files[n], x)
        <4> HIDE DEF q, r
        <4> QED  BY <1>1, <3>1, <3>2, <3>3, Elsewhere DEF r
      <3>5. files'[n] = files[n]  BY <3>4 DEF DiskKept
      <3> QED  BY <2>2, <3>1, <3>5 DEF NoteHeld
    <2> QED  BY <2>1, <2>2
  <1>8. \A l \in Lists : ListHeld(l, k) => ListHeld(l, k)'
    BY DEF ListHeld, Moving
  <1> QED  BY <1>4, <1>5, <1>6, <1>7, <1>8 DEF StillHolds

\* Rows change in the folder of h only: they come from its path or from the
\* new item i, and they go to its target or away.
RowsKept(table, new, items, r, i) ==
    \A n \in items :
       /\ new[n] \in {None, table[n]} \/ (new[n] \in Text /\ Within(Resolve(new[n]), r.target))
       /\ n # i /\ table[n] = None => new[n] = None
       /\ n # i /\ table[n] # None /\ ~ Within(table[n], r.path) => new[n] = table[n]

LEMMA OthersRows ==
    ASSUME Grounds, PlaceInv, NEW h \in Handlers, Writing(pc[h]), NEW i,
           RowsKept(notes, notes', Notes, req[h], i), RowsKept(lists, lists', Lists, req[h], i),
           UNCHANGED <<dirs, files, req>>,
           NEW k \in Handlers \ {h}, pc'[k] = pc[k], Making(pc[k]) => req[k].item # i
    PROVE  StillHolds(k, i)
  <1> DEFINE r == req[h]
             q == req[k]
  <1>1. /\ r \in RequestType /\ q \in RequestType
        /\ q.path \in Text /\ q.target \in Text
    BY DEF Grounds, ControlInv, RequestType
  <1>2. HasLock(pc[k]) => Apart(q, r) /\ Apart(r, q)  BY Separate DEF Writing
  <1>3. /\ \A n \in Notes : notes[n] \in Text \cup {None}
        /\ \A l \in Lists : lists[l] \in Text \cup {None}
    BY DEF Grounds, NotesFresh, ListsInv
  <1>4. ASSUME HasLock(pc[k]), NEW y \in {q.path, q.target}, NEW s \in Text,
               Within(Resolve(s), r.target)
        PROVE  ~ Within(s, y)
    <2>1. Within(s, y) => Resolve(s) = s  BY <1>4, NamedFolders
    <2> HIDE DEF q, r
    <2> QED  BY <1>1, <1>2, <1>4, <2>1, Elsewhere
  <1>5. ASSUME HasLock(pc[k]), NEW y \in {q.path, q.target}, NEW s \in Text, Within(s, y)
        PROVE  ~ Within(s, r.path) /\ ~ Within(s, r.target)
    <2> HIDE DEF q, r
    <2> QED  BY <1>1, <1>2, <1>5, Elsewhere
  <1>6. ASSUME HasLock(pc[k]), NEW y \in {q.path, q.target}, NEW n \in Notes,
               notes'[n] # None, Within(notes'[n], y)
        PROVE  notes'[n] = notes[n]
    BY <1>4, <1>6 DEF RowsKept
  <1>7. ASSUME HasLock(pc[k]), NEW y \in {q.path, q.target}, NEW l \in Lists,
               lists'[l] # None, Within(lists'[l], y)
        PROVE  lists'[l] = lists[l]
    BY <1>4, <1>7 DEF RowsKept
  <1>8. ASSUME HasLock(pc[k]), NEW y \in {q.path, q.target}, NoRows(y) PROVE NoRows(y)'
    BY <1>6, <1>7, <1>8 DEF NoRows
  <1>9. Clear(k)'
    <2>1. Clear(k)  BY DEF PlaceInv
    <2>2. CASE Renames(pc[k])
      <3>1. HasLock(pc[k]) /\ NoRows(q.target) /\ pc[k] # "removeAll"
        BY <2>1, <2>2 DEF Renames, HasLock, Clear
      <3>2. NoRows(q.target)'  BY <1>8, <3>1
      <3> QED  BY <3>1, <3>2 DEF Clear, Renames
    <2>3. CASE pc[k] = "removeAll"
      <3>1. HasLock(pc[k]) /\ NoRows(q.path)  BY <2>1, <2>3 DEF HasLock, Clear
      <3>2. NoRows(q.path)'  BY <1>8, <3>1
      <3> QED  BY <2>3, <3>2 DEF Clear, Renames
    <2>4. CASE ~ Renames(pc[k]) /\ pc[k] # "removeAll"  BY <2>4 DEF Clear, Renames
    <2> QED  BY <2>2, <2>3, <2>4
  <1>10. Placed(k)'  BY DEF PlaceInv, Placed, Making, Exists
  <1>11. Owed(k)'
    <2> SUFFICES ASSUME Moving(pc[k]) PROVE Owed(k)'
      BY DEF Owed, Moving
    <2>1. HasLock(pc[k]) /\ Owed(k)  BY DEF HasLock, Moving, PlaceInv
    <2>2. ASSUME NEW n \in Notes, notes'[n] # None, Within(notes'[n], q.path)
          PROVE  files[n] = Moved(notes'[n], q.path, q.target)
      <3>1. notes'[n] = notes[n]  BY <1>6, <2>1, <2>2
      <3> QED  BY <2>1, <2>2, <3>1 DEF Owed
    <2>3. ASSUME NEW l \in Lists, lists'[l] # None, Within(lists'[l], q.path)
          PROVE  Exists(Moved(lists'[l], q.path, q.target))
      <3>1. lists'[l] = lists[l]  BY <1>7, <2>1, <2>3
      <3> QED  BY <2>1, <2>3, <3>1 DEF Owed
    <2> QED  BY <2>2, <2>3 DEF Owed, Exists
  <1>12. ASSUME NEW n \in Notes \ {i}, NoteHeld(n, k) PROVE NoteHeld(n, k)'
    <2>1. CASE Making(pc[k]) /\ q.item = n  BY <2>1 DEF NoteHeld, Making
    <2>2. CASE Moving(pc[k]) /\ notes[n] # None /\ Within(notes[n], q.path)
      <3>1. HasLock(pc[k]) /\ notes[n] \in Text  BY <1>3, <2>2 DEF HasLock, Moving
      <3>2. ~ Within(notes[n], r.path)  BY <1>5, <2>2, <3>1
      <3>3. notes'[n] = notes[n]  BY <2>2, <3>2 DEF RowsKept
      <3> QED  BY <2>2, <3>3 DEF NoteHeld, Moving
    <2>3. CASE /\ pc[k] = "removeAll" /\ notes[n] = None
               /\ files[n] # None /\ Within(files[n], q.path)
      <3>1. notes'[n] = None  BY <2>3 DEF RowsKept
      <3> QED  BY <2>3, <3>1 DEF NoteHeld
    <2> QED  BY <1>12, <2>1, <2>2, <2>3 DEF NoteHeld
  <1>13. ASSUME NEW l \in Lists \ {i}, ListHeld(l, k) PROVE ListHeld(l, k)'
    <2>1. Moving(pc[k]) /\ lists[l] # None /\ Within(lists[l], q.path)  BY <1>13 DEF ListHeld
    <2>2. HasLock(pc[k]) /\ lists[l] \in Text  BY <1>3, <2>1 DEF HasLock, Moving
    <2>3. ~ Within(lists[l], r.path)  BY <1>5, <2>1, <2>2
    <2>4. lists'[l] = lists[l]  BY <2>1, <2>3 DEF RowsKept
    <2> QED  BY <2>1, <2>4 DEF ListHeld, Moving
  <1> QED  BY <1>9, <1>10, <1>11, <1>12, <1>13 DEF StillHolds

LEMMA PlaceFrom ==
    ASSUME PlaceInv, NEW h \in Handlers, NEW i,
           \A k \in Handlers \ {h} : StillHolds(k, i),
           Clear(h)', Placed(h)', Owed(h)',
           \A n \in Notes \ {i} :
              NoteFine(n) \/ NoteHeld(n, h) => NoteFine(n)' \/ NoteHeld(n, h)',
           \A l \in Lists \ {i} :
              ListFine(l) \/ ListHeld(l, h) => ListFine(l)' \/ ListHeld(l, h)',
           i \in Notes => NoteFine(i)' \/ NoteHeld(i, h)',
           i \in Lists => ListFine(i)'
    PROVE  PlaceInv'
  <1>1. \A k \in Handlers : Clear(k)' /\ Placed(k)' /\ Owed(k)'  BY DEF StillHolds
  <1>2. ASSUME NEW n \in Notes PROVE NoteFine(n)' \/ \E k \in Handlers : NoteHeld(n, k)'
    <2>1. CASE n = i  BY <2>1
    <2>2. CASE n # i
      <3>1. NoteFine(n) \/ \E k \in Handlers : NoteHeld(n, k)  BY DEF PlaceInv
      <3>2. \A k \in Handlers \ {h} : NoteHeld(n, k) => NoteHeld(n, k)'
        BY <2>2 DEF StillHolds
      <3> QED  BY <2>2, <3>1, <3>2
    <2> QED  BY <2>1, <2>2
  <1>3. ASSUME NEW l \in Lists PROVE ListFine(l)' \/ \E k \in Handlers : ListHeld(l, k)'
    <2>1. CASE l = i  BY <2>1
    <2>2. CASE l # i
      <3>1. ListFine(l) \/ \E k \in Handlers : ListHeld(l, k)  BY DEF PlaceInv
      <3>2. \A k \in Handlers \ {h} : ListHeld(l, k) => ListHeld(l, k)'
        BY <2>2 DEF StillHolds
      <3> QED  BY <2>2, <3>1, <3>2
    <2> QED  BY <2>1, <2>2
  <1> QED  BY <1>1, <1>2, <1>3 DEF PlaceInv

\* A label at which a handler is owed nothing and holds nothing.
Idles(label) ==
    ~ Renames(label) /\ ~ Making(label) /\ label \notin {"removeAll", "insertList"}

LEMMA OwesNothing ==
    ASSUME NEW h \in Handlers, Idles(pc'[h])
    PROVE  Clear(h)' /\ Placed(h)' /\ Owed(h)'
  BY DEF Idles, Renames, Moving, Making, Clear, Placed, Owed

LEMMA HoldsNothing ==
    ASSUME NEW h \in Handlers, ~ Moving(pc[h]), ~ Making(pc[h]), pc[h] # "removeAll"
    PROVE  /\ \A n \in Notes : ~ NoteHeld(n, h)
           /\ \A l \in Lists : ~ ListHeld(l, h)
  BY DEF NoteHeld, ListHeld

\* A step that changes no row and no file, and removes no directory.
LEMMA PlaceSame ==
    ASSUME PlaceInv, NEW h \in Handlers,
           \A k \in Handlers \ {h} : pc'[k] = pc[k] /\ req'[k] = req[k],
           UNCHANGED <<files, notes, lists>>, dirs \subseteq dirs',
           Clear(h)', Placed(h)', Owed(h)',
           \A n \in Notes : NoteHeld(n, h) => NoteHeld(n, h)',
           \A l \in Lists : ListHeld(l, h) => ListHeld(l, h)'
    PROVE  PlaceInv'
  <1>1. \A x : Exists(x) => Exists(x)'  BY DEF Exists
  <1>2. ASSUME NEW k \in Handlers \ {h} PROVE StillHolds(k, None)
    <2>1. Clear(k) /\ Placed(k) /\ Owed(k)  BY DEF PlaceInv
    <2>2. Clear(k)'  BY <2>1 DEF Clear, Renames, NoRows
    <2>3. Placed(k)'  BY <1>1, <2>1 DEF Placed, Making
    <2>4. Owed(k)'  BY <2>1 DEF Owed, Moving, Exists
    <2>5. \A n \in Notes : NoteHeld(n, k) => NoteHeld(n, k)'
      BY DEF NoteHeld, Making, Moving
    <2>6. \A l \in Lists : ListHeld(l, k) => ListHeld(l, k)'
      BY DEF ListHeld, Moving
    <2> QED  BY <2>2, <2>3, <2>4, <2>5, <2>6 DEF StillHolds
  <1>3. \A n \in Notes : NoteFine(n) => NoteFine(n)'  BY DEF NoteFine
  <1>4. \A l \in Lists : ListFine(l) => ListFine(l)'  BY DEF ListFine, Exists
  <1>5. None \notin Notes /\ None \notin Lists  BY ItemsAssumption
  <1> QED  BY <1>2, <1>3, <1>4, <1>5, PlaceFrom

LEMMA PlaceIdle ==
    ASSUME PlaceInv, NEW h \in Handlers,
           \A k \in Handlers \ {h} : pc'[k] = pc[k] /\ req'[k] = req[k],
           UNCHANGED <<files, notes, lists>>, dirs \subseteq dirs',
           ~ Moving(pc[h]), ~ Making(pc[h]), pc[h] # "removeAll", Idles(pc'[h])
    PROVE  PlaceInv'
  BY OwesNothing, HoldsNothing, PlaceSame

-----------------------------------------------------------------------------
\* The steps that change neither the rows nor the files.
LEMMA PlaceBegins ==
    ASSUME Grounds, PlaceInv, NEW h \in Handlers, Begins6(h)
    PROVE  PlaceInv'
  <1>1. pc[h] = "idle" /\ UNCHANGED <<dirs, files, notes, lists>>
    BY BeginForms DEF stores
  <1>2. ~ Moving(pc[h]) /\ ~ Making(pc[h]) /\ pc[h] # "removeAll"
    BY <1>1 DEF Moving, Making
  <1>3. CASE Refuses(h)
    <2>1. pc' = [pc EXCEPT ![h] = "done"] /\ req' = req  BY <1>3 DEF Refuses, Return
    <2>2. pc'[h] = "done" /\ \A k \in Handlers \ {h} : pc'[k] = pc[k] /\ req'[k] = req[k]
      BY <2>1 DEF Grounds, ControlInv
    <2>3. Idles(pc'[h])  BY <2>2 DEF Idles, Renames, Making
    <2> QED  BY <1>1, <1>2, <2>2, <2>3, PlaceIdle
  <1>4. ASSUME NEW r, NEW label, Passes(h, r, label) PROVE PlaceInv'
    <2>1. req' = [req EXCEPT ![h] = r] /\ pc' = [pc EXCEPT ![h] = label]
      BY <1>4 DEF Passes, Start, Goto
    <2>2. /\ pc'[h] = label /\ req'[h] = r
          /\ \A k \in Handlers \ {h} : pc'[k] = pc[k] /\ req'[k] = req[k]
      BY <2>1 DEF Grounds, ControlInv
    <2>3. CASE label # "insertList"
      <3>1. Idles(pc'[h])  BY <1>4, <2>2, <2>3 DEF Passes, Idles, Renames, Making
      <3> QED  BY <1>1, <1>2, <2>2, <3>1, PlaceIdle
    <2>4. CASE label = "insertList"
      <3>1. Exists(r.path)  BY <1>4, <2>4 DEF Passes
      <3>2. Placed(h)'  BY <1>1, <2>2, <2>4, <3>1 DEF Placed, Making, Exists
      <3>3. Clear(h)' /\ Owed(h)'  BY <2>2, <2>4 DEF Clear, Owed, Renames, Moving
      <3> QED  BY <1>1, <1>2, <2>2, <3>2, <3>3, HoldsNothing, PlaceSame
    <2> QED  BY <2>3, <2>4
  <1> QED  BY <1>3, <1>4, BeginForms

\* The calls that do so.
QuietCalls(h) ==
    \/ StatFolder(h) \/ Mkdir(h) \/ ReadDir(h) \/ CountSubdirs(h) \/ CountChildrenInDir(h)
    \/ ListTaskLists(h) \/ ListNotes(h)
    \/ CheckTarget(h) /\ pc'[h] = "done"
    \/ RenameFolder(h) /\ pc'[h] = "done"
    \/ DeleteByParentDir(h) /\ pc'[h] = "done"
    \/ CreateFile(h) /\ pc'[h] = "done"
    \/ InsertTaskList(h) /\ UNCHANGED lists

LEMMA PlaceQuiet ==
    ASSUME Grounds, PlaceInv, NEW h \in Handlers, QuietCalls(h) \/ Lock(h) \/ Respond(h)
    PROVE  PlaceInv'
  <1>1. CASE Respond(h)
    <2>1. pc[h] = "done" /\ pc'[h] = "idle"
          /\ \A k \in Handlers \ {h} : pc'[k] = pc[k] /\ req'[k] = req[k]
      BY <1>1 DEF Respond, At, Grounds, ControlInv
    <2>2. UNCHANGED <<dirs, files, notes, lists>>  BY <1>1 DEF Respond, stores
    <2> QED  BY <2>1, <2>2, PlaceIdle DEF Moving, Making, Idles, Renames
  <1>2. CASE Lock(h)
    <2>1. pc[h] = "lock" /\ pc' = [pc EXCEPT ![h] = FirstCall[req[h].op]] /\ req' = req
          /\ UNCHANGED <<dirs, files, notes, lists>>
      BY <1>2 DEF Lock, At, Goto, Call, stores
    <2>2. Serves(req[h], "lock")  BY <2>1 DEF Grounds, ControlInv
    <2>3. FirstCall[req[h].op] \in {"stat", "check", "deleteRows"}
      BY <2>2 DEF Serves, FirstCall
    <2>4. /\ pc'[h] \in {"stat", "check", "deleteRows"}
          /\ \A k \in Handlers \ {h} : pc'[k] = pc[k] /\ req'[k] = req[k]
      BY <2>1, <2>3 DEF Grounds, ControlInv
    <2> QED  BY <2>1, <2>4, PlaceIdle DEF Moving, Making, Idles, Renames
  <1>3. CASE QuietCalls(h)
    <2>1. Calls(h)  BY <1>3 DEF QuietCalls, Calls
    <2>2. \A k \in Handlers \ {h} : pc'[k] = pc[k] /\ req'[k] = req[k]
      BY <2>1, CallsFacts DEF Grounds
    <2>3. /\ pc[h] \in {"stat", "mkdir", "readDir", "entries", "countRows", "listNotes",
                        "check", "rename", "deleteRows", "create", "insertList"}
      BY <1>3 DEF QuietCalls, At, StatFolder, Mkdir, ReadDir, CountSubdirs,
         CountChildrenInDir, ListTaskLists, ListNotes, CheckTarget, RenameFolder,
         DeleteByParentDir, CreateFile, InsertTaskList
    <2>4. pc'[h] \in {"done", "mkdir", "entries", "countRows", "listNotes"}
      <3>1. pc \in [Handlers -> PCs]  BY DEF Grounds, ControlInv
      <3> QED
        BY <1>3, <3>1 DEF QuietCalls, Goto, Return, StatFolder, Mkdir, ReadDir, CountSubdirs,
           CountChildrenInDir, ListTaskLists, ListNotes, InsertTaskList
    <2>5. pc'[h] = "done" => \A label \in PCs \ {"done"} : ~ Goto(h, label)
      BY DEF Goto, Grounds, ControlInv
    <2>6. UNCHANGED <<files, notes, lists>> /\ dirs \subseteq dirs'
      <3>1. CASE StatFolder(h)  BY <3>1 DEF StatFolder, stores
      <3>2. CASE Mkdir(h)  BY <3>2 DEF Mkdir
      <3>3. CASE ReadDir(h) \/ CountSubdirs(h) \/ CountChildrenInDir(h)
                 \/ ListTaskLists(h) \/ ListNotes(h)
        BY <3>3 DEF ReadDir, CountSubdirs, CountChildrenInDir, ListTaskLists, ListNotes, stores
      <3>4. CASE CheckTarget(h)  BY <3>4 DEF CheckTarget, stores
      <3>5. CASE RenameFolder(h) /\ pc'[h] = "done"
        BY <2>5, <3>5 DEF RenameFolder, PCs
      <3>6. CASE DeleteByParentDir(h) /\ pc'[h] = "done"
        BY <2>5, <3>6 DEF DeleteByParentDir, PCs
      <3>7. CASE CreateFile(h) /\ pc'[h] = "done"
        BY <2>5, <3>7 DEF CreateFile, PCs
      <3>8. CASE InsertTaskList(h) /\ UNCHANGED lists  BY <3>8 DEF InsertTaskList
      <3> QED
        BY <1>3, <3>1, <3>2, <3>3, <3>4, <3>5, <3>6, <3>7, <3>8 DEF QuietCalls
    <2> QED  BY <2>2, <2>3, <2>4, <2>6, PlaceIdle DEF Moving, Making, Idles, Renames
  <1> QED  BY <1>1, <1>2, <1>3

-----------------------------------------------------------------------------
\* A row in the folder of a handler past its lock is in its place, unless the
\* handler is moving it.
LEMMA RowsInPlace ==
    ASSUME Grounds, PlaceInv, NEW h \in Handlers, HasLock(pc[h]), ~ Moving(pc[h]),
           NEW y \in {req[h].path, req[h].target}
    PROVE  /\ \A n \in Notes : notes[n] # None /\ Within(notes[n], y) =>
                 notes[n] \in Text /\ files[n] = notes[n] /\ files[n] \in dirs
           /\ \A l \in Lists : lists[l] # None /\ Within(lists[l], y) =>
                 lists[l] \in Text /\ lists[l] \in dirs
  <1>1. /\ \A k \in Handlers : req[k] \in RequestType
        /\ \A n \in Notes : notes[n] \in Text \cup {None}
        /\ \A l \in Lists : lists[l] \in Text \cup {None}
    BY DEF Grounds, ControlInv, NotesFresh, ListsInv
  <1>2. ASSUME NEW k \in Handlers \ {h}, Moving(pc[k]), NEW s \in Text, Within(s, y)
        PROVE  ~ Within(s, req[k].path)
    <2>1. HasLock(pc[k])  BY <1>2 DEF Moving, HasLock
    <2>2. Apart(req[h], req[k])  BY <2>1, Separate DEF Writing
    <2> QED  BY <1>1, <1>2, <2>2, Elsewhere
  <1>3. ASSUME NEW n \in Notes, notes[n] # None, Within(notes[n], y)
        PROVE  notes[n] \in Text /\ files[n] = notes[n] /\ files[n] \in dirs
    <2>1. notes[n] \in Text  BY <1>1, <1>3
    <2>2. Resolve(notes[n]) = notes[n] /\ notes[n] # Root  BY <1>3, <2>1, NamedFolders
    <2>3. NoteFine(n)
      <3> SUFFICES ASSUME NEW k \in Handlers, NoteHeld(n, k) PROVE FALSE
        BY DEF PlaceInv
      <3>1. CASE Making(pc[k]) /\ req[k].item = n
        BY <1>3, <3>1 DEF Grounds, NotesFresh, FreshNote, MakesNote
      <3>2. CASE Moving(pc[k]) /\ Within(notes[n], req[k].path)
        BY <1>2, <1>3, <2>1, <3>2
      <3> QED  BY <1>3, <3>1, <3>2 DEF NoteHeld
    <2>4. files[n] = notes[n]  BY <1>3, <2>2, <2>3 DEF NoteFine
    <2>5. files[n] \in dirs \cup {Root, None}  BY DEF Grounds, TreeInv
    <2> QED  BY <1>3, <2>1, <2>2, <2>4, <2>5
  <1>4. ASSUME NEW l \in Lists, lists[l] # None, Within(lists[l], y)
        PROVE  lists[l] \in Text /\ lists[l] \in dirs
    <2>1. lists[l] \in Text  BY <1>1, <1>4
    <2>2. Resolve(lists[l]) = lists[l] /\ lists[l] # Root  BY <1>4, <2>1, NamedFolders
    <2>3. ListFine(l)  BY <1>2, <1>4, <2>1 DEF PlaceInv, ListHeld
    <2> QED  BY <1>4, <2>1, <2>2, <2>3 DEF ListFine, Exists
  <1> QED  BY <1>3, <1>4

\* The new path of a rename does not exist, so no row is in it.
LEMMA PlaceCheck ==
    ASSUME Grounds, PlaceInv, NEW h \in Handlers, CheckTarget(h)
    PROVE  PlaceInv'
  <1>1. /\ pc[h] = "check" /\ UNCHANGED <<dirs, files, notes, lists, req>>
        /\ \A k \in Handlers \ {h} : pc'[k] = pc[k]
    BY CallsFacts DEF CheckTarget, At, stores, Call, Calls, Grounds
  <1>2. CASE Return(h, "exists") \/ Return(h, "internal")
    <2>1. pc'[h] = "done"  BY <1>2 DEF Return, Grounds, ControlInv
    <2> QED  BY <2>1, PlaceQuiet DEF QuietCalls
  <1>3. CASE ~ Exists(req[h].target) /\ Goto(h, "rename")
    <2> DEFINE t == req[h].target
    <2>1. pc'[h] = "rename"  BY <1>3 DEF Goto, Grounds, ControlInv
    <2>2. HasLock(pc[h]) /\ ~ Moving(pc[h]) /\ t \in Text \ {Root}
      BY <1>1, NamedFolders DEF HasLock, Moving
    <2>3. dirs \in SUBSET Text /\ \A d \in dirs : Dir(d) = Root \/ Dir(d) \in dirs
      BY DEF Grounds, TreeInv, Tree
    <2>4. \A s \in dirs : ~ Within(s, t)
      BY <1>3, <2>2, <2>3, AncestorInTree DEF Exists
    <2>5. NoRows(t)  BY <2>2, <2>4, RowsInPlace DEF NoRows
    <2>6. Clear(h)'
      <3>1. NoRows(t)'  BY <1>1, <2>5 DEF NoRows
      <3> QED  BY <1>1, <2>1, <3>1 DEF Clear, Renames
    <2>7. Placed(h)' /\ Owed(h)'  BY <2>1 DEF Placed, Owed, Making, Moving
    <2>8. ~ Making(pc[h]) /\ ~ Moving(pc[h]) /\ pc[h] # "removeAll"
      BY <1>1 DEF Making, Moving
    <2> QED  BY <1>1, <2>6, <2>7, <2>8, HoldsNothing, PlaceSame
  <1> QED  BY <1>2, <1>3 DEF CheckTarget

\* A rename or a rename back changes the disk in the folder it moves only.
LEMMA RenameKeeps ==
    ASSUME TreeInv, NEW old \in Text \ {Root}, NEW new \in Text \ {Root},
           RenameOnDisk(old, new)
    PROVE  /\ DiskKept(old)
           /\ \A d \in dirs : Moved(d, old, new) \in dirs'
           /\ \A n \in Notes : files'[n] = IF files[n] = None THEN None
                                           ELSE Moved(files[n], old, new)
  BY DEF RenameOnDisk, DiskKept, Moved, TreeInv

LEMMA PlaceRename ==
    ASSUME Grounds, PlaceInv, NEW h \in Handlers, RenameFolder(h)
    PROVE  PlaceInv'
  <1> DEFINE p == req[h].path
             t == req[h].target
  <1>1. /\ pc[h] = "rename" /\ UNCHANGED <<notes, lists, req>>
        /\ \A k \in Handlers \ {h} : pc'[k] = pc[k]
    BY CallsFacts DEF RenameFolder, At, Call, Calls, Grounds
  <1>2. CASE Return(h, "internal")
    <2>1. pc'[h] = "done"  BY <1>2 DEF Return, Grounds, ControlInv
    <2> QED  BY <2>1, PlaceQuiet DEF QuietCalls
  <1>3. CASE RenameOnDisk(p, t) /\ Goto(h, "renameRows")
    <2>1. pc'[h] = "renameRows"  BY <1>3 DEF Goto, Grounds, ControlInv
    <2>2. /\ HasLock(pc[h]) /\ ~ Moving(pc[h]) /\ ~ Making(pc[h]) /\ pc[h] # "removeAll"
          /\ Renames(pc[h])
      BY <1>1 DEF HasLock, Moving, Making, Renames
    <2>3. p \in Text \ {Root, <<Dot>>} /\ t \in Text \ {Root, <<Dot>>}
      BY <2>2, NamedFolders
    <2>4. /\ DiskKept(p)
          /\ \A d \in dirs : Moved(d, p, t) \in dirs'
          /\ \A n \in Notes : files'[n] = IF files[n] = None THEN None
                                          ELSE Moved(files[n], p, t)
      BY <1>3, <2>3, RenameKeeps DEF Grounds
    <2>5. \A k \in Handlers \ {h} : StillHolds(k, None)
      BY <1>1, <2>2, <2>4, OthersDisk
    <2>6. Clear(h)'
      <3>1. NoRows(t)  BY <2>2 DEF PlaceInv, Clear
      <3>2. NoRows(t)'  BY <1>1, <3>1 DEF NoRows
      <3> QED  BY <1>1, <2>1, <3>2 DEF Clear, Renames
    <2>7. Placed(h)'  BY <2>1 DEF Placed, Making
    <2>8. /\ \A n \in Notes : notes[n] # None /\ Within(notes[n], p) =>
                notes[n] \in Text /\ files[n] = notes[n] /\ files[n] \in dirs
          /\ \A l \in Lists : lists[l] # None /\ Within(lists[l], p) =>
                lists[l] \in Text /\ lists[l] \in dirs
      BY <2>2, RowsInPlace
    <2>9. Owed(h)'
      <3>1. \A n \in Notes : notes[n] # None /\ Within(notes[n], p) =>
               files'[n] = Moved(notes[n], p, t)
        BY <2>4, <2>8
      <3>2. \A l \in Lists : lists[l] # None /\ Within(lists[l], p) =>
               Exists(Moved(lists[l], p, t))'
        BY <1>1, <2>4, <2>8 DEF Exists
      <3> QED  BY <1>1, <3>1, <3>2 DEF Owed, Exists
    <2>10. ASSUME NEW n \in Notes, NoteFine(n) PROVE NoteFine(n)' \/ NoteHeld(n, h)'
      <3>1. CASE notes[n] = None  BY <1>1, <2>4, <2>10, <3>1 DEF NoteFine
      <3>2. CASE notes[n] # None /\ Within(notes[n], p)
        BY <1>1, <2>1, <3>2 DEF NoteHeld, Moving
      <3>3. CASE notes[n] # None /\ ~ Within(notes[n], p)
        <4>1. files[n] = Resolve(notes[n]) /\ notes[n] \in Text
          BY <2>10, <3>3 DEF NoteFine, Grounds, NotesFresh
        <4>2. ~ Within(files[n], p)  BY <2>2, <3>3, <4>1, NamedFolders
        <4>3. files'[n] = files[n]  BY <2>4, <4>2 DEF DiskKept
        <4> QED  BY <1>1, <3>3, <4>1, <4>3 DEF NoteFine
      <3> QED  BY <3>1, <3>2, <3>3
    <2>11. ASSUME NEW l \in Lists, ListFine(l) PROVE ListFine(l)' \/ ListHeld(l, h)'
      <3>1. CASE lists[l] = None  BY <1>1, <3>1 DEF ListFine
      <3>2. CASE lists[l] # None /\ Within(lists[l], p)
        BY <1>1, <2>1, <3>2 DEF ListHeld, Moving
      <3>3. CASE lists[l] # None /\ ~ Within(lists[l], p)
        <4>1. Exists(Resolve(lists[l])) /\ lists[l] \in Text
          BY <2>11, <3>3 DEF ListFine, Grounds, ListsInv
        <4>2. ~ Within(Resolve(lists[l]), p)  BY <2>2, <3>3, <4>1, NamedFolders
        <4>3. Resolve(lists[l]) \in dirs' \cup {Root}
          BY <2>4, <4>1, <4>2 DEF Exists, DiskKept
        <4> QED  BY <1>1, <4>3 DEF ListFine, Exists
      <3> QED  BY <3>1, <3>2, <3>3
    <2>12. None \notin Notes /\ None \notin Lists  BY ItemsAssumption
    <2> QED
      BY <2>2, <2>5, <2>6, <2>7, <2>9, <2>10, <2>11, <2>12, HoldsNothing, PlaceFrom
  <1> QED  BY <1>2, <1>3 DEF RenameFolder

LEMMA PlaceRows ==
    ASSUME Plain, Grounds, PlaceInv, NEW h \in Handlers, RenameParentDir(h)
    PROVE  PlaceInv'
  <1> DEFINE p == req[h].path
             t == req[h].target
  <1>1. /\ pc[h] = "renameRows" /\ UNCHANGED <<dirs, files, req>>
        /\ \A k \in Handlers \ {h} : pc'[k] = pc[k]
    BY CallsFacts DEF RenameParentDir, At, Call, Calls, Grounds
  <1>2. HasLock(pc[h]) /\ Moving(pc[h]) /\ ~ Making(pc[h])
    BY <1>1 DEF HasLock, Moving, Making
  <1>3. /\ \A n \in Notes : notes[n] \in Text \cup {None}
        /\ \A l \in Lists : lists[l] \in Text \cup {None}
    BY DEF Grounds, NotesFresh, ListsInv
  <1>4. CASE UNCHANGED <<notes, lists>> /\ Goto(h, "undo")
    <2>1. pc'[h] = "undo"  BY <1>4 DEF Goto, Grounds, ControlInv
    <2>2. Clear(h) /\ Owed(h)  BY DEF PlaceInv
    <2>3. Clear(h)'  BY <1>1, <1>4, <2>1, <2>2 DEF Clear, Renames, NoRows
    <2>4. Placed(h)'  BY <2>1 DEF Placed, Making
    <2>5. Owed(h)'  BY <1>1, <1>4, <2>1, <2>2 DEF Owed, Moving, Exists
    <2>6. /\ \A n \in Notes : NoteHeld(n, h) => NoteHeld(n, h)'
          /\ \A l \in Lists : ListHeld(l, h) => ListHeld(l, h)'
      BY <1>1, <1>4, <2>1 DEF NoteHeld, ListHeld, Moving, Making
    <2> QED  BY <1>1, <1>4, <2>3, <2>4, <2>5, <2>6, PlaceSame
  <1>5. CASE /\ notes' = RenamedTable(notes, req[h]) /\ lists' = RenamedTable(lists, req[h])
             /\ Return(h, "ok")
    <2>1. pc'[h] = "done"  BY <1>5 DEF Return, Grounds, ControlInv
    <2>2. /\ \A n \in Notes : notes'[n] = IF notes[n] = None THEN None ELSE Moved(notes[n], p, t)
          /\ \A l \in Lists : lists'[l] = IF lists[l] = None THEN None ELSE Moved(lists[l], p, t)
      BY <1>1, <1>5, RenamedRows DEF Grounds
    <2>3. /\ p \in Text /\ t \in Text
          /\ \A s \in Text : Within(s, t) => Resolve(s) = s
          /\ \A s \in Text : Within(s, p) => Resolve(s) = s
      BY <1>2, NamedFolders
    <2>4. ASSUME NEW s \in Text, Within(s, p)
          PROVE  /\ Moved(s, p, t) \in Text /\ Within(Moved(s, p, t), t)
                 /\ Resolve(Moved(s, p, t)) = Moved(s, p, t)
      BY <2>3, <2>4, MovedWithin
    <2>5. \A s \in Text : ~ Within(s, p) => Moved(s, p, t) = s  BY DEF Moved
    <2>6. /\ RowsKept(notes, notes', Notes, req[h], None)
          /\ RowsKept(lists, lists', Lists, req[h], None)
      <3>1. ASSUME NEW s \in Text
            PROVE  \/ Moved(s, p, t) = s
                   \/ Moved(s, p, t) \in Text /\ Within(Resolve(Moved(s, p, t)), t)
        BY <2>4, <2>5
      <3>2. ASSUME NEW n \in Notes
            PROVE  /\ \/ notes'[n] \in {None, notes[n]}
                      \/ notes'[n] \in Text /\ Within(Resolve(notes'[n]), t)
                   /\ notes[n] = None => notes'[n] = None
                   /\ notes[n] # None /\ ~ Within(notes[n], p) => notes'[n] = notes[n]
        BY <1>3, <2>2, <2>5, <3>1
      <3>3. ASSUME NEW l \in Lists
            PROVE  /\ \/ lists'[l] \in {None, lists[l]}
                      \/ lists'[l] \in Text /\ Within(Resolve(lists'[l]), t)
                   /\ lists[l] = None => lists'[l] = None
                   /\ lists[l] # None /\ ~ Within(lists[l], p) => lists'[l] = lists[l]
        BY <1>3, <2>2, <2>5, <3>1
      <3> QED  BY <3>2, <3>3 DEF RowsKept
    <2>7. ASSUME NEW k \in Handlers \ {h} PROVE StillHolds(k, None)
      <3>1. Making(pc[k]) => req[k].item # None
        BY ItemsAssumption DEF Grounds, NotesFresh, FreshNote, MakesNote
      <3> QED  BY <1>1, <1>2, <2>6, <3>1, OthersRows DEF Writing
    <2>8. Clear(h)' /\ Placed(h)' /\ Owed(h)'
      BY <2>1, OwesNothing DEF Idles, Renames, Making
    <2>9. Owed(h)  BY DEF PlaceInv
    <2>10. ASSUME NEW n \in Notes, NoteFine(n) \/ NoteHeld(n, h) PROVE NoteFine(n)'
      <3>1. CASE notes[n] # None /\ Within(notes[n], p)
        <4>1. files[n] = Moved(notes[n], p, t) /\ notes[n] \in Text
          BY <1>2, <1>3, <2>9, <3>1 DEF Owed
        <4>2. /\ notes'[n] = Moved(notes[n], p, t) /\ Resolve(notes'[n]) = notes'[n]
              /\ notes'[n] # None
          BY <2>2, <2>4, <3>1, <4>1, FoldersAssumption
        <4> QED  BY <1>1, <4>1, <4>2 DEF NoteFine
      <3>2. CASE notes[n] = None \/ ~ Within(notes[n], p)
        <4>1. NoteFine(n)  BY <1>1, <1>2, <2>10, <3>2 DEF NoteHeld
        <4>2. notes'[n] = notes[n]  BY <1>3, <2>2, <2>5, <3>2
        <4> QED  BY <1>1, <4>1, <4>2 DEF NoteFine
      <3> QED  BY <3>1, <3>2
    <2>11. ASSUME NEW l \in Lists, ListFine(l) \/ ListHeld(l, h) PROVE ListFine(l)'
      <3>1. CASE lists[l] # None /\ Within(lists[l], p)
        <4>1. Exists(Moved(lists[l], p, t)) /\ lists[l] \in Text
          BY <1>2, <1>3, <2>9, <3>1 DEF Owed
        <4>2. /\ lists'[l] = Moved(lists[l], p, t) /\ Resolve(lists'[l]) = lists'[l]
          BY <2>2, <2>4, <3>1, <4>1
        <4> QED  BY <1>1, <4>1, <4>2 DEF ListFine, Exists
      <3>2. CASE lists[l] = None \/ ~ Within(lists[l], p)
        <4>1. ListFine(l)  BY <2>11, <3>2 DEF ListHeld
        <4>2. lists'[l] = lists[l]  BY <1>3, <2>2, <2>5, <3>2
        <4> QED  BY <1>1, <4>1, <4>2 DEF ListFine, Exists
      <3> QED  BY <3>1, <3>2
    <2>12. None \notin Notes /\ None \notin Lists  BY ItemsAssumption
    <2> QED  BY <2>7, <2>8, <2>10, <2>11, <2>12, PlaceFrom
  <1> QED  BY <1>4, <1>5 DEF RenameParentDir

\* Before the rollback looks at the old path and after it, it owes the same.
LEMMA PlaceOldPath ==
    ASSUME Grounds, PlaceInv, NEW h \in Handlers, CheckOldPath(h), ~ disturbed'
    PROVE  PlaceInv'
  <1>1. /\ pc[h] = "undo" /\ UNCHANGED <<dirs, files, notes, lists, req>>
        /\ \A k \in Handlers \ {h} : pc'[k] = pc[k]
    BY CallsFacts DEF CheckOldPath, At, stores, Call, Calls, Grounds
  <1>2. pc'[h] = "moveBack"  BY DEF CheckOldPath, Damages, Goto, Grounds, ControlInv
  <1>3. Clear(h) /\ Owed(h)  BY DEF PlaceInv
  <1>4. Clear(h)'  BY <1>1, <1>2, <1>3 DEF Clear, Renames, NoRows
  <1>5. Placed(h)'  BY <1>2 DEF Placed, Making
  <1>6. Owed(h)'  BY <1>1, <1>2, <1>3 DEF Owed, Moving, Exists
  <1>7. /\ \A n \in Notes : NoteHeld(n, h) => NoteHeld(n, h)'
        /\ \A l \in Lists : ListHeld(l, h) => ListHeld(l, h)'
    BY <1>1, <1>2 DEF NoteHeld, ListHeld, Moving, Making
  <1> QED  BY <1>1, <1>4, <1>5, <1>6, <1>7, PlaceSame

\* The rollback puts back what the rows have named all along.
LEMMA PlaceUndo ==
    ASSUME Grounds, PlaceInv, NEW h \in Handlers, UndoRename(h), ~ disturbed'
    PROVE  PlaceInv'
  <1> DEFINE p == req[h].path
             t == req[h].target
  <1>1. /\ pc[h] = "moveBack" /\ UNCHANGED <<notes, lists, req>>
        /\ \A k \in Handlers \ {h} : pc'[k] = pc[k]
    BY CallsFacts DEF UndoRename, At, Call, Calls, Grounds
  <1>2. /\ HasLock(pc[h]) /\ Moving(pc[h]) /\ ~ Making(pc[h]) /\ Renames(pc[h])
        /\ pc[h] # "removeAll"
    BY <1>1 DEF HasLock, Moving, Making, Renames
  <1>3. /\ \A n \in Notes : notes[n] \in Text \cup {None}
        /\ \A l \in Lists : lists[l] \in Text \cup {None}
    BY DEF Grounds, NotesFresh, ListsInv
  <1>4. RenameOnDisk(t, p) /\ Return(h, "internal")
    BY DEF UndoRename, Damages
  <1>5. pc'[h] = "done"  BY <1>4 DEF Return, Grounds, ControlInv
  <1>6. /\ p \in Text \ {Root, <<Dot>>} /\ t \in Text \ {Root, <<Dot>>}
        /\ \A s \in Text : Within(s, p) => Resolve(s) = s
        /\ \A s \in Text : Within(s, t) => Resolve(s) = s
        /\ \A s \in Text : Within(Resolve(s), t) => Resolve(s) = s
    BY <1>2, NamedFolders
  <1>7. /\ DiskKept(t)
        /\ \A d \in dirs : Moved(d, t, p) \in dirs'
        /\ \A n \in Notes : files'[n] = IF files[n] = None THEN None
                                        ELSE Moved(files[n], t, p)
    BY <1>4, <1>6, RenameKeeps DEF Grounds
  <1>8. \A k \in Handlers \ {h} : StillHolds(k, None)  BY <1>1, <1>2, <1>7, OthersDisk
  <1>9. Clear(h)' /\ Placed(h)' /\ Owed(h)'
    BY <1>5, OwesNothing DEF Idles, Renames, Making
  <1>10. Owed(h) /\ NoRows(t)  BY <1>2 DEF PlaceInv, Clear
  <1>11. ASSUME NEW n \in Notes, NoteFine(n) \/ NoteHeld(n, h) PROVE NoteFine(n)'
    <2>1. CASE notes[n] # None /\ Within(notes[n], p)
      <3>1. files[n] = Moved(notes[n], p, t) /\ notes[n] \in Text
        BY <1>2, <1>3, <1>10, <2>1 DEF Owed
      <3>2. files[n] # None  BY <1>6, <2>1, <3>1, MovedWithin, FoldersAssumption
      <3>3. files'[n] = Moved(Moved(notes[n], p, t), t, p)  BY <1>7, <3>1, <3>2
      <3>4. files'[n] = notes[n]  BY <1>6, <2>1, <3>1, <3>3, MovedBack
      <3> QED  BY <1>1, <1>6, <2>1, <3>1, <3>4 DEF NoteFine
    <2>2. CASE notes[n] = None \/ ~ Within(notes[n], p)
      <3>1. NoteFine(n)  BY <1>2, <1>11, <2>2 DEF NoteHeld
      <3>2. CASE notes[n] = None  BY <1>1, <1>7, <3>1, <3>2 DEF NoteFine
      <3>3. CASE notes[n] # None
        <4>1. files[n] = Resolve(notes[n]) /\ notes[n] \in Text
          BY <1>3, <3>1, <3>3 DEF NoteFine
        <4>2. ~ Within(notes[n], t)  BY <1>10, <3>3 DEF NoRows
        <4>3. ~ Within(files[n], t)  BY <1>6, <4>1, <4>2
        <4>4. files'[n] = files[n]  BY <1>7, <4>3 DEF DiskKept
        <4> QED  BY <1>1, <3>3, <4>1, <4>4 DEF NoteFine
      <3> QED  BY <3>2, <3>3
    <2> QED  BY <2>1, <2>2
  <1>12. ASSUME NEW l \in Lists, ListFine(l) \/ ListHeld(l, h) PROVE ListFine(l)'
    <2>1. CASE lists[l] # None /\ Within(lists[l], p)
      <3> DEFINE m == Moved(lists[l], p, t)
      <3>1. Exists(m) /\ lists[l] \in Text
        BY <1>2, <1>3, <1>10, <2>1 DEF Owed
      <3>2. m \in Text /\ Within(m, t)  BY <1>6, <2>1, <3>1, MovedWithin
      <3>3. m # Root
        <4> HIDE DEF m
        <4> QED  BY <1>2, <3>2, NamedFolders
      <3>4. Moved(m, t, p) \in dirs'  BY <1>7, <3>1, <3>3 DEF Exists
      <3>5. Moved(m, t, p) = lists[l]  BY <1>6, <2>1, <3>1, MovedBack
      <3>6. lists[l] \in dirs' /\ Resolve(lists[l]) = lists[l]
        BY <1>6, <2>1, <3>1, <3>4, <3>5
      <3> QED  BY <1>1, <3>6 DEF ListFine, Exists
    <2>2. CASE lists[l] = None  BY <1>1, <2>2 DEF ListFine
    <2>3. CASE lists[l] # None /\ ~ Within(lists[l], p)
      <3>1. Exists(Resolve(lists[l])) /\ lists[l] \in Text
        BY <1>3, <1>12, <2>3 DEF ListFine, ListHeld
      <3>2. ~ Within(lists[l], t)  BY <1>10, <2>3 DEF NoRows
      <3>3. ~ Within(Resolve(lists[l]), t)  BY <1>6, <3>1, <3>2
      <3>4. Resolve(lists[l]) \in dirs' \cup {Root}
        BY <1>7, <3>1, <3>3 DEF Exists, DiskKept
      <3> QED  BY <1>1, <3>4 DEF ListFine, Exists
    <2> QED  BY <2>1, <2>2, <2>3
  <1>13. None \notin Notes /\ None \notin Lists  BY ItemsAssumption
  <1> QED  BY <1>8, <1>9, <1>11, <1>12, <1>13, PlaceFrom

LEMMA PlaceDelete ==
    ASSUME Plain, Grounds, PlaceInv, NEW h \in Handlers, DeleteByParentDir(h)
    PROVE  PlaceInv'
  <1> DEFINE p == req[h].path
  <1>1. /\ pc[h] = "deleteRows" /\ UNCHANGED <<dirs, files, req>>
        /\ \A k \in Handlers \ {h} : pc'[k] = pc[k]
    BY CallsFacts DEF DeleteByParentDir, At, Call, Calls, Grounds
  <1>2. HasLock(pc[h]) /\ ~ Moving(pc[h]) /\ ~ Making(pc[h]) /\ pc[h] # "removeAll"
    BY <1>1 DEF HasLock, Moving, Making
  <1>3. /\ \A n \in Notes : notes[n] \in Text \cup {None}
        /\ \A l \in Lists : lists[l] \in Text \cup {None}
    BY DEF Grounds, NotesFresh, ListsInv
  <1>4. CASE Return(h, "internal")
    <2>1. pc'[h] = "done"  BY <1>4 DEF Return, Grounds, ControlInv
    <2> QED  BY <2>1, PlaceQuiet DEF QuietCalls
  <1>5. CASE /\ notes' = DeletedTable(notes, req[h]) /\ lists' = DeletedTable(lists, req[h])
             /\ Goto(h, "removeAll")
    <2>1. pc'[h] = "removeAll"  BY <1>5 DEF Goto, Grounds, ControlInv
    <2>2. /\ \A n \in Notes : notes'[n] = IF notes[n] = None \/ Within(notes[n], p) THEN None
                                          ELSE notes[n]
          /\ \A l \in Lists : lists'[l] = IF lists[l] = None \/ Within(lists[l], p) THEN None
                                          ELSE lists[l]
      <3>1. /\ notes' = [n \in Notes |-> IF notes[n] = None \/ Within(notes[n], p) THEN None
                                        ELSE notes[n]]
            /\ lists' = [l \in Lists |-> IF lists[l] = None \/ Within(lists[l], p) THEN None
                                        ELSE lists[l]]
        BY <1>5, DeletedRows DEF Grounds
      <3> QED  BY <3>1
    <2>3. /\ RowsKept(notes, notes', Notes, req[h], None)
          /\ RowsKept(lists, lists', Lists, req[h], None)
      BY <2>2 DEF RowsKept
    <2>4. ASSUME NEW k \in Handlers \ {h} PROVE StillHolds(k, None)
      <3>1. Making(pc[k]) => req[k].item # None
        BY ItemsAssumption DEF Grounds, NotesFresh, FreshNote, MakesNote
      <3> QED  BY <1>1, <1>2, <2>3, <3>1, OthersRows DEF Writing
    <2>5. Clear(h)'
      <3>1. NoRows(p)'  BY <1>1, <2>2 DEF NoRows
      <3> QED  BY <1>1, <2>1, <3>1 DEF Clear, Renames
    <2>6. Placed(h)' /\ Owed(h)'  BY <2>1 DEF Placed, Owed, Making, Moving
    <2>7. \A n \in Notes : notes[n] # None /\ Within(notes[n], p) =>
             notes[n] \in Text /\ files[n] = notes[n]
      BY <1>2, RowsInPlace
    <2>8. ASSUME NEW n \in Notes, NoteFine(n) PROVE NoteFine(n)' \/ NoteHeld(n, h)'
      <3>1. CASE notes[n] # None /\ Within(notes[n], p)
        BY <1>1, <2>1, <2>2, <2>7, <3>1 DEF NoteHeld
      <3>2. CASE notes[n] = None \/ ~ Within(notes[n], p)
        <4>1. notes'[n] = notes[n]  BY <2>2, <3>2
        <4> QED  BY <1>1, <2>8, <4>1 DEF NoteFine
      <3> QED  BY <3>1, <3>2
    <2>9. \A l \in Lists : ListFine(l) => ListFine(l)'
      BY <1>1, <2>2 DEF ListFine, Exists
    <2>10. None \notin Notes /\ None \notin Lists  BY ItemsAssumption
    <2> QED
      BY <1>2, <2>4, <2>5, <2>6, <2>8, <2>9, <2>10, HoldsNothing, PlaceFrom
  <1> QED  BY <1>4, <1>5 DEF DeleteByParentDir

LEMMA PlaceRemove ==
    ASSUME Grounds, PlaceInv, NEW h \in Handlers, RemoveAll(h), ~ disturbed'
    PROVE  PlaceInv'
  <1> DEFINE p == req[h].path
             inside == {d \in dirs : Within(d, p)}
             held   == {n \in Notes : files[n] # None /\ Within(files[n], p)}
  <1>1. /\ pc[h] = "removeAll" /\ UNCHANGED <<notes, lists, req>>
        /\ \A k \in Handlers \ {h} : pc'[k] = pc[k]
    BY CallsFacts DEF RemoveAll, At, Call, Calls, Grounds
  <1>2. HasLock(pc[h]) /\ ~ Moving(pc[h]) /\ ~ Making(pc[h])
    BY <1>1 DEF HasLock, Moving, Making
  <1>3. RemoveOnDisk(inside, held) /\ Return(h, "ok")
    BY DEF RemoveAll, Damages
  <1>4. pc'[h] = "done"  BY <1>3 DEF Return, Grounds, ControlInv
  <1>5. /\ dirs' = dirs \ inside
        /\ \A n \in Notes : files'[n] = IF n \in held THEN None ELSE files[n]
    BY <1>3 DEF RemoveOnDisk
  <1>6. DiskKept(p)  BY <1>5 DEF DiskKept
  <1>7. \A k \in Handlers \ {h} : StillHolds(k, None)  BY <1>1, <1>2, <1>6, OthersDisk
  <1>8. Clear(h)' /\ Placed(h)' /\ Owed(h)'
    BY <1>4, OwesNothing DEF Idles, Renames, Making
  <1>9. NoRows(p)  BY <1>1 DEF PlaceInv, Clear
  <1>10. ASSUME NEW n \in Notes, NoteFine(n) \/ NoteHeld(n, h) PROVE NoteFine(n)'
    <2>1. CASE notes[n] = None /\ files[n] # None /\ Within(files[n], p)
      <3>1. files'[n] = None  BY <1>5, <2>1
      <3> QED  BY <1>1, <2>1, <3>1 DEF NoteFine
    <2>2. CASE ~ (notes[n] = None /\ files[n] # None /\ Within(files[n], p))
      <3>1. NoteFine(n)  BY <1>2, <1>10, <2>2 DEF NoteHeld
      <3>2. CASE notes[n] = None  BY <1>1, <1>5, <3>1, <3>2 DEF NoteFine
      <3>3. CASE notes[n] # None
        <4>1. files[n] = Resolve(notes[n]) /\ notes[n] \in Text
          BY <3>1, <3>3 DEF NoteFine, Grounds, NotesFresh
        <4>2. ~ Within(notes[n], p)  BY <1>9, <3>3 DEF NoRows
        <4>3. ~ Within(files[n], p)  BY <1>2, <4>1, <4>2, NamedFolders
        <4>4. files'[n] = files[n]  BY <1>5, <4>3
        <4> QED  BY <1>1, <3>3, <4>1, <4>4 DEF NoteFine
      <3> QED  BY <3>2, <3>3
    <2> QED  BY <2>1, <2>2
  <1>11. ASSUME NEW l \in Lists, ListFine(l) \/ ListHeld(l, h) PROVE ListFine(l)'
    <2>1. CASE lists[l] = None  BY <1>1, <2>1 DEF ListFine
    <2>2. CASE lists[l] # None
      <3>1. Exists(Resolve(lists[l])) /\ lists[l] \in Text
        BY <1>2, <1>11, <2>2 DEF ListFine, ListHeld, Grounds, ListsInv
      <3>2. ~ Within(lists[l], p)  BY <1>9, <2>2 DEF NoRows
      <3>3. ~ Within(Resolve(lists[l]), p)  BY <1>2, <3>1, <3>2, NamedFolders
      <3>4. Resolve(lists[l]) \in dirs' \cup {Root}
        BY <1>6, <3>1, <3>3 DEF Exists, DiskKept
      <3> QED  BY <1>1, <3>4 DEF ListFine, Exists
    <2> QED  BY <2>1, <2>2
  <1>12. None \notin Notes /\ None \notin Lists  BY ItemsAssumption
  <1> QED  BY <1>7, <1>8, <1>10, <1>11, <1>12, PlaceFrom

-----------------------------------------------------------------------------
\* Making a note: only its file changes, and nobody else knows it.
LEMMA PlaceFile ==
    ASSUME Grounds, PlaceInv, NEW h \in Handlers, MakesNote(pc[h]),
           UNCHANGED <<dirs, notes, lists, req>>,
           \A k \in Handlers \ {h} : pc'[k] = pc[k],
           NEW i, i = req[h].item,
           \A n \in Notes : n # i => files'[n] = files[n],
           Clear(h)', Placed(h)', Owed(h)',
           NoteFine(i)' \/ NoteHeld(i, h)'
    PROVE  PlaceInv'
  <1>1. /\ i \in Notes /\ notes[i] = None
        /\ \A k \in Handlers \ {h} : MakesNote(pc[k]) => req[k].item # i
    BY DEF Grounds, NotesFresh, FreshNote
  <1>2. i \notin Lists  BY <1>1, ItemsAssumption
  <1>3. ~ Moving(pc[h]) /\ pc[h] # "removeAll"  BY DEF MakesNote, Making, Moving
  <1>4. ASSUME NEW k \in Handlers \ {h} PROVE StillHolds(k, i)
    <2>1. Clear(k) /\ Placed(k) /\ Owed(k)  BY DEF PlaceInv
    <2>2. Clear(k)'  BY <2>1 DEF Clear, Renames, NoRows
    <2>3. Placed(k)'
      <3>1. Making(pc[k]) => req[k].item \in Notes /\ req[k].item # i
        BY <1>1 DEF MakesNote, Grounds, NotesFresh, FreshNote
      <3> QED  BY <2>1, <3>1 DEF Placed, Making, Exists
    <2>4. Owed(k)'
      <3>1. \A n \in Notes : notes[n] # None => files'[n] = files[n]  BY <1>1
      <3> QED  BY <2>1, <3>1 DEF Owed, Moving, Exists
    <2>5. \A n \in Notes \ {i} : NoteHeld(n, k) => NoteHeld(n, k)'
      <3>1. \A n \in Notes \ {i} : files'[n] = files[n]  OBVIOUS
      <3> QED  BY <3>1 DEF NoteHeld, Making, Moving
    <2>6. \A l \in Lists : ListHeld(l, k) => ListHeld(l, k)'  BY DEF ListHeld, Moving
    <2> QED  BY <2>2, <2>3, <2>4, <2>5, <2>6 DEF StillHolds
  <1>5. ASSUME NEW n \in Notes \ {i}, NoteFine(n) \/ NoteHeld(n, h) PROVE NoteFine(n)'
    <2>1. NoteFine(n)  BY <1>3, <1>5 DEF NoteHeld, MakesNote, Making
    <2>2. files'[n] = files[n]  BY <1>5
    <2> QED  BY <2>1, <2>2 DEF NoteFine
  <1>6. \A l \in Lists : ListFine(l) \/ ListHeld(l, h) => ListFine(l)'
    BY <1>3 DEF ListFine, ListHeld, Exists
  <1> QED  BY <1>2, <1>4, <1>5, <1>6, PlaceFrom

LEMMA PlaceCreate ==
    ASSUME Grounds, PlaceInv, NEW h \in Handlers, CreateFile(h)
    PROVE  PlaceInv'
  <1>1. /\ pc[h] = "create" /\ UNCHANGED <<dirs, notes, lists, req>>
        /\ \A k \in Handlers \ {h} : pc'[k] = pc[k]
    BY CallsFacts DEF CreateFile, At, Call, Calls, Grounds
  <1>2. CASE Return(h, "internal")
    <2>1. pc'[h] = "done"  BY <1>2 DEF Return, Grounds, ControlInv
    <2> QED  BY <2>1, PlaceQuiet DEF QuietCalls
  <1>3. CASE files' = [files EXCEPT ![req[h].item] = req[h].path] /\ Goto(h, "statFile")
    <2> PICK i : i = req[h].item  OBVIOUS
    <2>1. pc'[h] = "statFile"  BY <1>3 DEF Goto, Grounds, ControlInv
    <2>2. i \in Notes /\ MakesNote(pc[h])
      BY <1>1 DEF Grounds, NotesFresh, FreshNote, MakesNote
    <2>3. files'[i] = req[h].path /\ \A n \in Notes : n # i => files'[n] = files[n]
      BY <1>3, <2>2 DEF Grounds, TreeInv
    <2>4. Clear(h)' /\ Owed(h)'  BY <2>1 DEF Clear, Owed, Renames, Moving
    <2>5. Placed(h)'  BY <1>1, <2>1, <2>3 DEF Placed
    <2>6. NoteHeld(i, h)'  BY <1>1, <2>1 DEF NoteHeld, Making
    <2> QED  BY <1>1, <2>2, <2>3, <2>4, <2>5, <2>6, PlaceFile
  <1> QED  BY <1>2, <1>3 DEF CreateFile

LEMMA PlaceStat ==
    ASSUME Grounds, PlaceInv, NEW h \in Handlers, StatFile(h), ~ disturbed'
    PROVE  PlaceInv'
  <1>1. /\ pc[h] = "statFile" /\ UNCHANGED <<dirs, files, notes, lists, req>>
        /\ \A k \in Handlers \ {h} : pc'[k] = pc[k]
    BY CallsFacts DEF StatFile, At, stores, Call, Calls, Grounds
  <1>2. Goto(h, "insert")  BY DEF StatFile, Damages
  <1>3. pc'[h] = "insert"  BY <1>2 DEF Goto, Grounds, ControlInv
  <1>4. Clear(h)' /\ Owed(h)'  BY <1>3 DEF Clear, Owed, Renames, Moving
  <1>5. Placed(h)'  BY <1>1, <1>3 DEF PlaceInv, Placed, Making
  <1>6. /\ \A n \in Notes : NoteHeld(n, h) => NoteHeld(n, h)'
        /\ \A l \in Lists : ListHeld(l, h) => ListHeld(l, h)'
    BY <1>1, <1>3 DEF NoteHeld, ListHeld, Making, Moving
  <1> QED  BY <1>1, <1>4, <1>5, <1>6, PlaceSame

\* A new row names the folder in which its file or its directory is.
LEMMA NewRow ==
    ASSUME Grounds, NEW h \in Handlers, MakesNote(pc[h]) \/ pc[h] = "insertList"
    PROVE  /\ req[h] \in RequestType
           /\ req[h].path = Resolve(req[h].text) /\ req[h].target = req[h].path
           /\ Within(Resolve(req[h].text), req[h].target)
  <1>1. req[h] \in RequestType /\ Checked(req[h]) /\ Serves(req[h], pc[h])
    BY DEF Grounds, ControlInv
  <1>2. req[h].op \in {"note", "list"}  BY <1>1 DEF MakesNote, Serves
  <1>3. req[h].path = Resolve(req[h].text) /\ req[h].target = req[h].path
    BY <1>1, <1>2 DEF Checked
  <1>4. Within(req[h].target, req[h].target)  BY DEF Within
  <1> QED  BY <1>1, <1>3, <1>4

LEMMA PlaceInsert ==
    ASSUME Grounds, PlaceInv, NEW h \in Handlers, InsertNote(h)
    PROVE  PlaceInv'
  <1>1. /\ pc[h] = "insert" /\ UNCHANGED <<dirs, files, lists, req>>
        /\ \A k \in Handlers \ {h} : pc'[k] = pc[k]
    BY CallsFacts DEF InsertNote, At, Call, Calls, Grounds
  <1> PICK i : i = req[h].item  OBVIOUS
  <1>2. /\ i \in Notes /\ MakesNote(pc[h]) /\ Writing(pc[h])
        /\ \A k \in Handlers \ {h} : MakesNote(pc[k]) => req[k].item # i
    BY <1>1 DEF Grounds, NotesFresh, FreshNote, MakesNote, Making, Writing
  <1>3. files[i] = req[h].path  BY <1>1 DEF PlaceInv, Placed, Making
  <1>4. CASE notes' = [notes EXCEPT ![req[h].item] = req[h].text] /\ Return(h, "ok")
    <2>1. pc'[h] = "done"  BY <1>4 DEF Return, Grounds, ControlInv
    <2>2. notes'[i] = req[h].text /\ \A n \in Notes : n # i => notes'[n] = notes[n]
      BY <1>2, <1>4 DEF Grounds, NotesFresh
    <2>3. /\ req[h].text \in Text /\ req[h].text # None
          /\ req[h].path = Resolve(req[h].text)
          /\ Within(Resolve(req[h].text), req[h].target)
      BY <1>2, NewRow, FoldersAssumption DEF RequestType
    <2>4. RowsKept(notes, notes', Notes, req[h], i)  BY <2>2, <2>3 DEF RowsKept
    <2>5. RowsKept(lists, lists', Lists, req[h], i)  BY <1>1 DEF RowsKept
    <2>6. \A k \in Handlers \ {h} : StillHolds(k, i)
      BY <1>1, <1>2, <2>4, <2>5, OthersRows DEF MakesNote
    <2>7. Clear(h)' /\ Placed(h)' /\ Owed(h)'
      BY <2>1, OwesNothing DEF Idles, Renames, Making
    <2>8. NoteFine(i)'  BY <1>1, <1>3, <2>2, <2>3 DEF NoteFine
    <2>9. \A n \in Notes \ {i} : NoteFine(n) \/ NoteHeld(n, h) => NoteFine(n)'
      <3>1. \A n \in Notes \ {i} : ~ NoteHeld(n, h)
        BY <1>1 DEF NoteHeld, Moving
      <3> QED  BY <1>1, <2>2, <3>1 DEF NoteFine
    <2>10. \A l \in Lists : ListFine(l) \/ ListHeld(l, h) => ListFine(l)'
      BY <1>1 DEF ListFine, ListHeld, Moving, Exists
    <2>11. i \notin Lists  BY <1>2, ItemsAssumption
    <2> QED  BY <2>6, <2>7, <2>8, <2>9, <2>10, <2>11, PlaceFrom
  <1>5. CASE Goto(h, "remove") /\ UNCHANGED notes
    <2>1. pc'[h] = "remove"  BY <1>5 DEF Goto, Grounds, ControlInv
    <2>2. Clear(h)' /\ Owed(h)'  BY <2>1 DEF Clear, Owed, Renames, Moving
    <2>3. Placed(h)'  BY <1>1, <1>3, <2>1 DEF Placed, Making
    <2>4. /\ \A n \in Notes : NoteHeld(n, h) => NoteHeld(n, h)'
          /\ \A l \in Lists : ListHeld(l, h) => ListHeld(l, h)'
      BY <1>1, <2>1 DEF NoteHeld, ListHeld, Making, Moving
    <2> QED  BY <1>1, <1>5, <2>2, <2>3, <2>4, PlaceSame
  <1> QED  BY <1>4, <1>5 DEF InsertNote

LEMMA PlaceRollback ==
    ASSUME Grounds, PlaceInv, NEW h \in Handlers, RemoveFile(h), ~ disturbed'
    PROVE  PlaceInv'
  <1>1. /\ pc[h] = "remove" /\ UNCHANGED <<dirs, notes, lists, req>>
        /\ \A k \in Handlers \ {h} : pc'[k] = pc[k]
    BY CallsFacts DEF RemoveFile, At, Call, Calls, Grounds
  <1> PICK i : i = req[h].item  OBVIOUS
  <1>2. i \in Notes /\ notes[i] = None /\ MakesNote(pc[h])
    BY <1>1 DEF Grounds, NotesFresh, FreshNote, MakesNote, Making
  <1>3. files' = [files EXCEPT ![req[h].item] = None] /\ Return(h, "internal")
    BY DEF RemoveFile, Damages
  <1>4. pc'[h] = "done"  BY <1>3 DEF Return, Grounds, ControlInv
  <1>5. files'[i] = None /\ \A n \in Notes : n # i => files'[n] = files[n]
    BY <1>2, <1>3 DEF Grounds, TreeInv
  <1>6. Clear(h)' /\ Placed(h)' /\ Owed(h)'
    BY <1>4, OwesNothing DEF Idles, Renames, Making
  <1>7. NoteFine(i)'  BY <1>1, <1>2, <1>5 DEF NoteFine
  <1> QED  BY <1>1, <1>2, <1>5, <1>6, <1>7, PlaceFile

LEMMA PlaceInsertList ==
    ASSUME Grounds, PlaceInv, NEW h \in Handlers, InsertTaskList(h)
    PROVE  PlaceInv'
  <1>1. /\ pc[h] = "insertList" /\ UNCHANGED <<dirs, files, notes, req>>
        /\ \A k \in Handlers \ {h} : pc'[k] = pc[k]
    BY CallsFacts DEF InsertTaskList, At, Call, Calls, Grounds
  <1> PICK i : i = req[h].item  OBVIOUS
  <1>2. i \in Lists /\ i \notin Notes
    BY <1>1, ItemsAssumption DEF Grounds, ListsInv, Fresh, At
  <1>3. CASE UNCHANGED lists  BY <1>3, PlaceQuiet DEF QuietCalls
  <1>4. CASE lists' = [lists EXCEPT ![req[h].item] = req[h].text] /\ Return(h, "ok")
    <2>1. pc'[h] = "done"  BY <1>4 DEF Return, Grounds, ControlInv
    <2>2. lists'[i] = req[h].text /\ \A l \in Lists : l # i => lists'[l] = lists[l]
      BY <1>2, <1>4 DEF Grounds, ListsInv
    <2>3. /\ req[h].text \in Text
          /\ req[h].path = Resolve(req[h].text)
          /\ Within(Resolve(req[h].text), req[h].target)
      BY <1>1, NewRow DEF RequestType
    <2>4. RowsKept(lists, lists', Lists, req[h], i)  BY <2>2, <2>3 DEF RowsKept
    <2>5. RowsKept(notes, notes', Notes, req[h], i)  BY <1>1 DEF RowsKept
    <2>6. ASSUME NEW k \in Handlers \ {h} PROVE StillHolds(k, i)
      <3>1. Making(pc[k]) => req[k].item # i
        BY <1>2 DEF Grounds, NotesFresh, FreshNote, MakesNote
      <3> QED  BY <1>1, <2>4, <2>5, <3>1, OthersRows DEF Writing
    <2>7. Clear(h)' /\ Placed(h)' /\ Owed(h)'
      BY <2>1, OwesNothing DEF Idles, Renames, Making
    <2>8. ListFine(i)'
      <3>1. Exists(Resolve(req[h].text))  BY <1>1, <2>3 DEF PlaceInv, Placed
      <3> QED  BY <1>1, <2>2, <3>1 DEF ListFine, Exists
    <2>9. \A n \in Notes : NoteFine(n) \/ NoteHeld(n, h) => NoteFine(n)'
      BY <1>1 DEF NoteFine, NoteHeld, Moving, Making
    <2>10. \A l \in Lists \ {i} : ListFine(l) \/ ListHeld(l, h) => ListFine(l)'
      BY <1>1, <2>2 DEF ListFine, ListHeld, Moving, Exists
    <2> QED  BY <1>2, <2>6, <2>7, <2>8, <2>9, <2>10, PlaceFrom
  <1> QED  BY <1>3, <1>4 DEF InsertTaskList

-----------------------------------------------------------------------------
\* A crash that leaves nothing half done finds everything in its place.
LEMMA PlaceCrash ==
    ASSUME PlaceInv, Crash, ~ disturbed'
    PROVE  PlaceInv'
  <1>1. /\ \A h \in Handlers : ~ HalfDone(h) /\ pc'[h] = "idle"
        /\ UNCHANGED <<dirs, files, notes, lists>>
    BY DEF Crash, stores
  <1>2. \A h \in Handlers : Clear(h)' /\ Placed(h)' /\ Owed(h)'
    BY <1>1, OwesNothing DEF Idles, Renames, Making
  <1>3. ASSUME NEW h \in Handlers
        PROVE  /\ \A n \in Notes : ~ NoteHeld(n, h)
               /\ \A l \in Lists : ~ ListHeld(l, h)
    <2>1. ~ Moving(pc[h]) /\ ~ Making(pc[h]) /\ pc[h] # "removeAll"
      BY <1>1 DEF HalfDone, Moving, Making
    <2> QED  BY <2>1, HoldsNothing
  <1>4. /\ \A n \in Notes : NoteFine(n)
        /\ \A l \in Lists : ListFine(l)
    BY <1>3 DEF PlaceInv
  <1>5. /\ \A n \in Notes : NoteFine(n)'
        /\ \A l \in Lists : ListFine(l)'
    BY <1>1, <1>4 DEF NoteFine, ListFine, Exists
  <1> QED  BY <1>2, <1>5 DEF PlaceInv

LEMMA PlaceCalls ==
    ASSUME Plain, Grounds, PlaceInv, NEW h \in Handlers, Calls(h), ~ disturbed'
    PROVE  PlaceInv'
  <1>1. CASE \/ StatFolder(h) \/ Mkdir(h) \/ ReadDir(h) \/ CountSubdirs(h)
             \/ CountChildrenInDir(h) \/ ListTaskLists(h) \/ ListNotes(h)
    BY <1>1, PlaceQuiet DEF QuietCalls
  <1>2. CASE CheckTarget(h)         BY <1>2, PlaceCheck
  <1>3. CASE RenameFolder(h)        BY <1>3, PlaceRename
  <1>4. CASE RenameParentDir(h)     BY <1>4, PlaceRows
  <1>5. CASE UndoRename(h)          BY <1>5, PlaceUndo
  <1>13. CASE CheckOldPath(h)       BY <1>13, PlaceOldPath
  <1>6. CASE DeleteByParentDir(h)   BY <1>6, PlaceDelete
  <1>7. CASE RemoveAll(h)           BY <1>7, PlaceRemove
  <1>8. CASE CreateFile(h)          BY <1>8, PlaceCreate
  <1>9. CASE StatFile(h)            BY <1>9, PlaceStat
  <1>10. CASE InsertNote(h)         BY <1>10, PlaceInsert
  <1>11. CASE RemoveFile(h)         BY <1>11, PlaceRollback
  <1>12. CASE InsertTaskList(h)     BY <1>12, PlaceInsertList
  <1> QED
    BY <1>1, <1>2, <1>3, <1>4, <1>5, <1>6, <1>7, <1>8, <1>9, <1>10, <1>11, <1>12,
       <1>13 DEF Calls

LEMMA PlaceStep ==
    ASSUME Plain, ControlInv, TreeInv, ListsInv, NotesFresh,
           disturbed \/ NoTangle, disturbed \/ PlaceInv, [Next]_vars
    PROVE  disturbed' \/ PlaceInv'
  <1> SUFFICES ASSUME ~ disturbed' PROVE PlaceInv'
    OBVIOUS
  <1>1. CASE UNCHANGED vars
    <2>1. PlaceInv  BY <1>1 DEF vars
    <2>2. UNCHANGED <<dirs, files, notes, lists, pc, req>>  BY <1>1 DEF vars
    <2>3. \A h \in Handlers : Clear(h)' /\ Placed(h)' /\ Owed(h)'
      BY <2>1, <2>2 DEF PlaceInv, Clear, Placed, Owed, NoRows, Exists, Renames, Making, Moving
    <2>4. \A n \in Notes : NoteFine(n)' \/ \E h \in Handlers : NoteHeld(n, h)'
      BY <2>1, <2>2 DEF PlaceInv, NoteFine, NoteHeld, Making, Moving
    <2>5. \A l \in Lists : ListFine(l)' \/ \E h \in Handlers : ListHeld(l, h)'
      BY <2>1, <2>2 DEF PlaceInv, ListFine, ListHeld, Moving, Exists
    <2> QED  BY <2>3, <2>4, <2>5 DEF PlaceInv
  <1>2. CASE Crash
    <2>1. ~ disturbed  BY <1>2 DEF Crash
    <2> QED  BY <1>2, <2>1, PlaceCrash
  <1>3. ASSUME NEW h \in Handlers, Step(h) PROVE PlaceInv'
    <2>1. ASSUME ~ disturbed PROVE Grounds /\ PlaceInv  BY <2>1 DEF Grounds
    <2>2. CASE Calls(h)
      <3>1. ~ disturbed  BY <2>2, CallsFacts
      <3> QED  BY <2>1, <2>2, <3>1, PlaceCalls
    <2>3. CASE Lock(h) \/ Respond(h)
      <3>1. ~ disturbed  BY <2>3 DEF Lock, Respond, Quiet
      <3> QED  BY <2>1, <2>3, <3>1, PlaceQuiet
    <2>4. CASE Begins6(h)
      <3>1. ~ disturbed
        <4>1. CASE Refuses(h)  BY <4>1 DEF Refuses, Quiet
        <4>2. ASSUME NEW r, NEW label, Passes(h, r, label) PROVE ~ disturbed
          BY <4>2 DEF Passes, Start
        <4> QED  BY <2>4, <4>1, <4>2, BeginForms
      <3> QED  BY <2>1, <2>4, <3>1, PlaceBegins
    <2> QED  BY <1>3, <2>2, <2>3, <2>4 DEF Step, Begins6, Calls
  <1> QED  BY <1>1, <1>2, <1>3 DEF Next

PlacesInv ==
    /\ ControlInv /\ TreeInv /\ ListsInv /\ NotesFresh
    /\ disturbed \/ NoTangle
    /\ disturbed \/ PlaceInv

LEMMA PlacesInit ==
    ASSUME Init
    PROVE  PlacesInv
  <1>1. ControlInv /\ TreeInv /\ ListsInv  BY FormInit, ListsInit
  <1>2. /\ \A h \in Handlers : pc[h] = "idle"
        /\ \A n \in Notes : files[n] = None /\ notes[n] = None
        /\ \A l \in Lists : lists[l] = None
        /\ notes \in [Notes -> Text \cup {None}]
    BY DEF Init
  <1>3. NotesFresh  BY <1>2 DEF NotesFresh, MakesNote, Making
  <1>4. NoTangle  BY <1>2 DEF NoTangle, Active
  <1>5. PlaceInv
    <2>1. \A h \in Handlers : Clear(h) /\ Placed(h) /\ Owed(h)
      BY <1>2 DEF Clear, Placed, Owed, Renames, Making, Moving
    <2>2. /\ \A n \in Notes : NoteFine(n)
          /\ \A l \in Lists : ListFine(l)
      BY <1>2 DEF NoteFine, ListFine
    <2> QED  BY <2>1, <2>2 DEF PlaceInv
  <1> QED  BY <1>1, <1>3, <1>4, <1>5 DEF PlacesInv

LEMMA PlacesStep ==
    ASSUME Plain, PlacesInv, [Next]_vars
    PROVE  PlacesInv'
  <1>1. ControlInv' /\ TreeInv'  BY ControlStep, TreeStep DEF PlacesInv
  <1>2. ListsInv'  BY ListsStep DEF PlacesInv
  <1>3. NotesFresh'  BY FreshStep DEF PlacesInv
  <1>4. disturbed' \/ NoTangle'  BY TangleStep DEF PlacesInv
  <1>5. disturbed' \/ PlaceInv'  BY PlaceStep DEF PlacesInv
  <1> QED  BY <1>1, <1>2, <1>3, <1>4, <1>5 DEF PlacesInv

\* What a handler holds is being changed.
LEMMA HeldIsChanged ==
    ASSUME ControlInv, NEW h \in Handlers, HalfDone(h), NEW place, Within(place, req[h].path)
    PROVE  BeingChanged(place)
  BY DEF BeingChanged, Footprint

\* However requests on unrelated folders, or on one and the same folder, are
\* interleaved, and whichever calls fail with a rollback that works: outside
\* the requests that are changing both places, a note has a row exactly when it
\* has a file, and the row names the directory that holds the file
\* (UpdateFolder, DeleteFolder, CreateNote).
THEOREM NotesInPlaceHolds ==
    ASSUME Plain
    PROVE  Spec => []NotesInPlace
  <1>1. PlacesInv => NotesInPlace
    <2> SUFFICES ASSUME PlacesInv, ~ disturbed, NEW n \in Notes
                 PROVE  \/ files[n] = None /\ notes[n] = None
                        \/ files[n] # None /\ notes[n] # None /\ files[n] = Resolve(notes[n])
                        \/ \E place \in {files[n], notes[n]} \ {None} : BeingChanged(place)
      BY DEF NotesInPlace
    <2>1. ControlInv /\ NotesFresh /\ PlaceInv  BY DEF PlacesInv
    <2>2. CASE NoteFine(n)
      <3>1. CASE notes[n] = None  BY <2>2, <3>1 DEF NoteFine
      <3>2. CASE notes[n] # None
        <4>1. notes[n] \in Text  BY <2>1, <3>2 DEF NotesFresh
        <4>2. Resolve(notes[n]) \in Text  BY <4>1 DEF Resolve, Root, Text
        <4> QED  BY <2>2, <3>2, <4>2, FoldersAssumption DEF NoteFine
      <3> QED  BY <3>1, <3>2
    <2>3. ASSUME NEW h \in Handlers, NoteHeld(n, h)
          PROVE  \E place \in {files[n], notes[n]} \ {None} : BeingChanged(place)
      <3>1. CASE Making(pc[h]) /\ req[h].item = n
        <4>1. files[n] = req[h].path  BY <2>1, <3>1 DEF PlaceInv, Placed
        <4>2. files[n] # None  BY <2>1, <4>1, FoldersAssumption DEF ControlInv, RequestType
        <4>3. Within(files[n], req[h].path) /\ HalfDone(h)
          BY <3>1, <4>1 DEF Within, Making, HalfDone
        <4> QED  BY <2>1, <4>2, <4>3, HeldIsChanged
      <3>2. CASE Moving(pc[h]) /\ notes[n] # None /\ Within(notes[n], req[h].path)
        <4>1. HalfDone(h)  BY <3>2 DEF Moving, HalfDone
        <4> QED  BY <2>1, <3>2, <4>1, HeldIsChanged
      <3>3. CASE pc[h] = "removeAll" /\ files[n] # None /\ Within(files[n], req[h].path)
        <4>1. HalfDone(h)  BY <3>3 DEF HalfDone
        <4> QED  BY <2>1, <3>3, <4>1, HeldIsChanged
      <3> QED  BY <2>3, <3>1, <3>2, <3>3 DEF NoteHeld
    <2> QED  BY <2>1, <2>2, <2>3 DEF PlaceInv
  <1>2. Init => PlacesInv  BY PlacesInit
  <1>3. PlacesInv /\ [Next]_vars => PlacesInv'  BY PlacesStep
  <1> QED  BY <1>1, <1>2, <1>3, PTL DEF Spec

\* Under the same conditions the folder that a task list's row names exists,
\* unless a request is in the middle of moving it: no sequence of folder
\* requests leaves a list where nobody can open it (CreateTaskList,
\* RenameParentDir, DeleteByParentDir).
THEOREM ListsInPlaceHolds ==
    ASSUME Plain
    PROVE  Spec => []ListsInPlace
  <1>1. PlacesInv => ListsInPlace
    <2> SUFFICES ASSUME PlacesInv, ~ disturbed, NEW l \in Lists
                 PROVE  \/ lists[l] = None
                        \/ Exists(Resolve(lists[l]))
                        \/ BeingChanged(lists[l])
      BY DEF ListsInPlace
    <2>1. ControlInv /\ PlaceInv  BY DEF PlacesInv
    <2>2. ASSUME NEW h \in Handlers, ListHeld(l, h) PROVE BeingChanged(lists[l])
      <3>1. HalfDone(h) /\ Within(lists[l], req[h].path)
        BY <2>2 DEF ListHeld, Moving, HalfDone
      <3> QED  BY <2>1, <3>1, HeldIsChanged
    <2> QED  BY <2>1, <2>2 DEF PlaceInv, ListFine
  <1>2. Init => PlacesInv  BY PlacesInit
  <1>3. PlacesInv /\ [Next]_vars => PlacesInv'  BY PlacesStep
  <1> QED  BY <1>1, <1>2, <1>3, PTL DEF Spec

-----------------------------------------------------------------------------
(***************************************************************************)
(* What ListFiles answers.  No directory's path begins with a slash, so a  *)
(* folder entry's path is the child's; and without requests for "." no row *)
(* says ".", so rows and files have the same folders, not only equivalent  *)
(* ones.                                                                   *)
(***************************************************************************)
Heads   == \A d \in dirs : d[1] # Slash
Dotless == \A n \in Notes : notes[n] # <<Dot>>

LEMMA HeadsStep ==
    ASSUME ControlInv, TreeInv, Heads, [Next]_vars
    PROVE  Heads'
  <1>0. ASSUME dirs' \subseteq dirs PROVE Heads'  BY <1>0 DEF Heads
  <1>1. ASSUME NEW h \in Handlers
        PROVE  /\ req[h] \in RequestType /\ Checked(req[h]) /\ Serves(req[h], pc[h])
    BY DEF ControlInv
  <1>2. ASSUME NEW h \in Handlers, Mkdir(h) PROVE Heads'
    <2>1. CASE dirs' = dirs \cup {req[h].path}
      <3>1. req[h].op = "create"  BY <1>1, <1>2 DEF Mkdir, At, Serves
      <3>2. req[h].path[1] # Slash  BY <1>1, <3>1 DEF Checked
      <3> QED  BY <2>1, <3>2 DEF Heads
    <2>2. CASE UNCHANGED dirs  BY <1>0, <2>2
    <2> QED  BY <1>2, <2>1, <2>2 DEF Mkdir
  <1>3. ASSUME NEW h \in Handlers, RenameFolder(h) \/ UndoRename(h) PROVE Heads'
    <2> DEFINE p == req[h].path
               t == req[h].target
    <2>1. req[h].op = "update"  BY <1>1, <1>3 DEF RenameFolder, UndoRename, At, Serves
    <2>2. /\ p \in Text \ {Root} /\ t \in Text \ {Root} /\ p[1] # Slash /\ t[1] # Slash
      BY <1>1, <2>1 DEF Checked, RequestType
    <2>3. \A d \in dirs : d \in Text /\ d[1] # Slash  BY DEF TreeInv, Tree, Heads
    <2>4. \/ dirs' = {Moved(d, p, t) : d \in dirs}
          \/ dirs' = {Moved(d, t, p) : d \in dirs}
          \/ UNCHANGED dirs
      BY <1>3 DEF RenameFolder, UndoRename, RenameOnDisk
    <2>5. \A d \in dirs : Moved(d, p, t)[1] # Slash /\ Moved(d, t, p)[1] # Slash
      BY <2>2, <2>3, MovedHead
    <2> HIDE DEF p, t
    <2> QED  BY <2>4, <2>5 DEF Heads
  <1>4. ASSUME NEW h \in Handlers, RemoveAll(h) PROVE Heads'
    BY <1>0, <1>4 DEF RemoveAll, RemoveOnDisk
  <1>5. CASE UNCHANGED vars  BY <1>0, <1>5 DEF vars
  <1>6. CASE Crash  BY <1>0, <1>6 DEF Crash, stores
  <1>7. ASSUME NEW h \in Handlers, Step(h),
               ~ Mkdir(h), ~ RenameFolder(h), ~ UndoRename(h), ~ RemoveAll(h)
        PROVE  Heads'
    <2>1. CASE Begins6(h)  BY <1>0, <2>1, BeginForms DEF stores
    <2>2. CASE ~ Begins6(h)
      BY <1>0, <1>7, <2>2 DEF Step, Begins6, stores, Lock, Respond, StatFolder, CheckTarget, CheckOldPath,
         RenameParentDir, DeleteByParentDir, ReadDir, CountSubdirs, CountChildrenInDir,
         ListTaskLists, ListNotes, CreateFile, StatFile, InsertNote, RemoveFile, InsertTaskList
    <2> QED  BY <2>1, <2>2
  <1> QED  BY <1>2, <1>3, <1>4, <1>5, <1>6, <1>7 DEF Next

LEMMA DotlessStep ==
    ASSUME Plain, <<Dot>> \notin Folders, ControlInv, ListsInv, NotesFresh, Dotless, [Next]_vars
    PROVE  Dotless'
  <1>0. ASSUME UNCHANGED notes PROVE Dotless'  BY <1>0 DEF Dotless
  <1>1. ASSUME NEW h \in Handlers
        PROVE  /\ req[h] \in RequestType /\ Checked(req[h]) /\ Serves(req[h], pc[h])
    BY DEF ControlInv
  <1>2. None # <<Dot>>
    <2>1. <<Dot>> \in Text  BY CharsAssumption DEF Text
    <2> QED  BY <2>1, FoldersAssumption
  <1>3. ASSUME NEW h \in Handlers, RenameParentDir(h) PROVE Dotless'
    <2> DEFINE p == req[h].path
               t == req[h].target
    <2>1. CASE UNCHANGED notes  BY <1>0, <2>1
    <2>2. CASE notes' = RenamedTable(notes, req[h])
      <3>1. pc[h] = "renameRows"  BY <1>3 DEF RenameParentDir, At
      <3>2. notes' = [n \in Notes |-> IF notes[n] = None THEN None ELSE Moved(notes[n], p, t)]
        BY <2>2, <3>1, RenamedRows
      <3>3. p \in Text /\ t \in Text \ {Root, <<Dot>>}
        <4>1. req[h].op = "update"  BY <1>1, <3>1 DEF Serves
        <4> QED  BY <1>1, <4>1 DEF Checked, RequestType
      <3> HIDE DEF p, t
      <3>4. ASSUME NEW n \in Notes, notes[n] # None PROVE Moved(notes[n], p, t) # <<Dot>>
        <4>1. notes[n] \in Text /\ notes[n] # <<Dot>>  BY <3>4 DEF NotesFresh, Dotless
        <4>2. CASE Within(notes[n], p)
          <5> DEFINE m == Moved(notes[n], p, t)
          <5>1. m \in Text /\ Within(m, t)  BY <3>3, <4>1, <4>2, MovedWithin
          <5> HIDE DEF m
          <5>2. Resolve(m) = m /\ m # Root  BY <3>3, <5>1, WithinNotDot
          <5> QED  BY <5>2 DEF Resolve, m
        <4>3. CASE ~ Within(notes[n], p)  BY <4>1, <4>3 DEF Moved
        <4> QED  BY <4>2, <4>3
      <3> QED  BY <1>2, <3>2, <3>4 DEF Dotless
    <2> QED  BY <1>3, <2>1, <2>2 DEF RenameParentDir
  <1>4. ASSUME NEW h \in Handlers, DeleteByParentDir(h) PROVE Dotless'
    <2>1. CASE UNCHANGED notes  BY <1>0, <2>1
    <2>2. CASE notes' = DeletedTable(notes, req[h])
      BY <1>2, <2>2 DEF DeletedTable, NotesFresh, Dotless
    <2> QED  BY <1>4, <2>1, <2>2 DEF DeleteByParentDir
  <1>5. ASSUME NEW h \in Handlers, InsertNote(h) PROVE Dotless'
    <2>1. req[h].op = "note"  BY <1>1, <1>5 DEF InsertNote, At, Serves, Making
    <2>2. req[h].text # <<Dot>>  BY <1>1, <2>1 DEF Checked
    <2> QED  BY <1>0, <1>5, <2>2 DEF InsertNote, NotesFresh, Dotless
  <1>6. CASE UNCHANGED vars  BY <1>0, <1>6 DEF vars
  <1>7. CASE Crash  BY <1>0, <1>7 DEF Crash, stores
  <1>8. ASSUME NEW h \in Handlers, Step(h),
               ~ RenameParentDir(h), ~ DeleteByParentDir(h), ~ InsertNote(h)
        PROVE  Dotless'
    <2>1. CASE Begins6(h)  BY <1>0, <2>1, BeginForms DEF stores
    <2>2. CASE ~ Begins6(h)
      BY <1>0, <1>8, <2>2 DEF Step, Begins6, stores, Lock, Respond, StatFolder, Mkdir, CheckTarget, CheckOldPath,
         RenameFolder, UndoRename, RemoveAll, ReadDir, CountSubdirs, CountChildrenInDir,
         ListTaskLists, ListNotes, CreateFile, StatFile, RemoveFile, InsertTaskList
    <2> QED  BY <2>1, <2>2
  <1> QED  BY <1>3, <1>4, <1>5, <1>6, <1>7, <1>8 DEF Next

-----------------------------------------------------------------------------
(***************************************************************************)
(* A ListFiles call in calm: what it has built so far is what the disk and *)
(* the tables hold now, for the subfolders that it is done with.           *)
(***************************************************************************)
Front(S) == CHOOSE n \in S : TRUE

RowCount(c) == Cardinality(Subdirs(c))
               + (Cardinality(RowsIn(notes, c)) + Cardinality(RowsIn(lists, c)))
Complete(S) == [c \in S |-> RowCount(c)]

Waiting(h) == {InDir(req[h].path, n) : n \in todo[h]}
Listed(h)  == Subdirs(req[h].path) \ Waiting(h)
Current(h) == InDir(req[h].path, Front(todo[h]))

Progress(h) ==
    /\ pc[h] = "readDir" => seen[h] = NothingSeen
    /\ pc[h] \in {"entries", "countRows"} => Waiting(h) \subseteq Subdirs(req[h].path)
    /\ pc[h] = "entries" => seen[h].folders = Complete(Listed(h))
    /\ pc[h] = "countRows" =>
          /\ todo[h] # {}
          /\ seen[h].folders = Entered(Complete(Listed(h)), Current(h),
                                       Cardinality(Subdirs(Current(h))))
    /\ pc[h] = "listNotes" \/ (pc[h] = "done" /\ reply[h] = "ok") =>
          /\ seen[h].folders = Complete(Subdirs(req[h].path))
          /\ seen[h].lists = RowsIn(lists, req[h].path)
    /\ pc[h] = "done" /\ reply[h] = "ok" => seen[h].notes = RowsIn(notes, req[h].path)

Watched(h) ==
    /\ pc[h] \in {"readDir", "entries", "countRows", "listNotes", "done"}
    /\ todo[h] \subseteq Text
    /\ req[h].text = req[h].path => Progress(h)

SeenForm ==
    /\ DOMAIN seen = Handlers /\ DOMAIN todo = Handlers
    /\ \A h \in Handlers : /\ DOMAIN seen[h] = {"folders", "lists", "notes"}
                           /\ pc[h] = "idle" => seen[h] = NothingSeen /\ todo[h] = {}

CalmInv == SeenForm /\ \A h \in calm : Watched(h)

\* While the stores stay the same, an entry stays true.
LEMMA CountsSame ==
    ASSUME UNCHANGED stores
    PROVE  /\ \A c : Subdirs(c)' = Subdirs(c)
           /\ \A c : RowsIn(notes, c)' = RowsIn(notes, c)
           /\ \A c : RowsIn(lists, c)' = RowsIn(lists, c)
           /\ \A S : Complete(S)' = Complete(S)
  <1>1. \A c : Subdirs(c)' = Subdirs(c)  BY DEF stores, Subdirs
  <1>2. /\ \A c : RowsIn(notes, c)' = RowsIn(notes, c)
        /\ \A c : RowsIn(lists, c)' = RowsIn(lists, c)
    BY DEF stores, RowsIn
  <1>3. \A c : RowCount(c)' = RowCount(c)  BY <1>1, <1>2 DEF RowCount
  <1>4. \A S : Complete(S)' = Complete(S)  BY <1>3 DEF Complete
  <1> QED  BY <1>1, <1>2, <1>4

LEMMA WatchedSame ==
    ASSUME NEW h \in Handlers, Watched(h), UNCHANGED stores,
           pc'[h] = pc[h], req'[h] = req[h], todo'[h] = todo[h], seen'[h] = seen[h],
           reply'[h] = reply[h]
    PROVE  Watched(h)'
  <1>1. /\ \A c : Subdirs(c)' = Subdirs(c)
        /\ RowsIn(notes, req[h].path)' = RowsIn(notes, req[h].path)
        /\ RowsIn(lists, req[h].path)' = RowsIn(lists, req[h].path)
        /\ \A S : Complete(S)' = Complete(S)
    BY CountsSame
  <1>2. Waiting(h)' = Waiting(h) /\ Current(h)' = Current(h)  BY DEF Waiting, Current
  <1>3. Listed(h)' = Listed(h)  BY <1>1, <1>2 DEF Listed
  <1>4. Progress(h) => Progress(h)'  BY <1>1, <1>2, <1>3 DEF Progress
  <1> QED  BY <1>4 DEF Watched

\* The children of a folder are its path with their names behind it.
LEMMA Children ==
    ASSUME ControlInv, TreeInv, Heads, NEW x \in Text
    PROVE  /\ {Base(d) : d \in Subdirs(x)} \subseteq Text
           /\ {InDir(x, n) : n \in {Base(d) : d \in Subdirs(x)}} = Subdirs(x)
  <1>1. ASSUME NEW d \in Subdirs(x) PROVE Base(d) \in Text /\ InDir(x, Base(d)) = d
    <2>1. d \in dirs /\ Dir(d) = x  BY DEF Subdirs
    <2>2. d \in Text /\ d # Root /\ d[1] # Slash  BY <2>1 DEF TreeInv, Tree, Heads
    <2> QED  BY <2>1, <2>2, InDirBase
  <1> QED  BY <1>1

LEMMA FrontIn ==
    ASSUME NEW S, S # {}
    PROVE  Front(S) \in S
  BY DEF Front

\* The entry that both calls of buildFolderEntry have gone into.
LEMMA EnteredComplete ==
    ASSUME NEW S, NEW e, NEW a, NEW b, RowCount(e) = a + b
    PROVE  [Entered(Complete(S), e, a) EXCEPT ![e] = @ + b] = Complete(S \cup {e})
  BY DEF Entered, Complete

ListCalls(h) ==
    ReadDir(h) \/ CountSubdirs(h) \/ CountChildrenInDir(h) \/ ListTaskLists(h) \/ ListNotes(h)

\* What the calls of ListFiles change.
LEMMA ListCallForms ==
    ASSUME ControlInv, SeenForm, NEW h \in Handlers, ListCalls(h)
    PROVE  /\ UNCHANGED <<stores, req>> /\ calm' \subseteq calm
           /\ \A k \in Handlers \ {h} : /\ seen'[k] = seen[k] /\ todo'[k] = todo[k]
                                        /\ reply'[k] = reply[k] /\ pc'[k] = pc[k]
           /\ DOMAIN seen' = Handlers /\ DOMAIN todo' = Handlers
           /\ DOMAIN seen'[h] = {"folders", "lists", "notes"}
           /\ pc'[h] # "idle"
  <1>1. UNCHANGED <<stores, req>> /\ calm' \subseteq calm
    BY DEF ListCalls, ReadDir, CountSubdirs, CountChildrenInDir, ListTaskLists, ListNotes,
       Quiet, Miscounts
  <1>2. Calls(h)  BY DEF ListCalls, Calls
  <1>3. pc'[h] # "idle" /\ \A k \in Handlers \ {h} : pc'[k] = pc[k]
    BY <1>2, CallsFacts DEF ControlInv
  <1>4. \A k \in Handlers \ {h} : reply'[k] = reply[k]
    BY DEF ListCalls, ReadDir, CountSubdirs, CountChildrenInDir, ListTaskLists, ListNotes,
       Goto, Return, ControlInv
  <1>5. /\ DOMAIN todo' = Handlers
        /\ \A k \in Handlers \ {h} : todo'[k] = todo[k]
    BY DEF ListCalls, ReadDir, CountSubdirs, CountChildrenInDir, ListTaskLists, ListNotes,
       SeenForm
  <1>6. DOMAIN seen = Handlers /\ DOMAIN seen[h] = {"folders", "lists", "notes"}
    BY DEF SeenForm
  <1>7. /\ DOMAIN seen' = Handlers /\ DOMAIN seen'[h] = {"folders", "lists", "notes"}
        /\ \A k \in Handlers \ {h} : seen'[k] = seen[k]
    <2>1. CASE ReadDir(h)  BY <1>6, <2>1 DEF ReadDir
    <2>2. CASE CountSubdirs(h)
      <3>1. \E g : seen' = [seen EXCEPT ![h].folders = g]  BY <2>2 DEF CountSubdirs
      <3> QED  BY <1>6, <3>1
    <2>3. CASE CountChildrenInDir(h)
      <3>1. (\E g : seen' = [seen EXCEPT ![h].folders = g]) \/ seen' = seen
        BY <2>3 DEF CountChildrenInDir
      <3> QED  BY <1>6, <3>1
    <2>4. CASE ListTaskLists(h)  BY <1>6, <2>4 DEF ListTaskLists
    <2>5. CASE ListNotes(h)  BY <1>6, <2>5 DEF ListNotes
    <2> QED  BY <2>1, <2>2, <2>3, <2>4, <2>5 DEF ListCalls
  <1> QED  BY <1>1, <1>3, <1>4, <1>5, <1>7

\* An answer that is no "ok" says nothing.
LEMMA WatchedRefusal ==
    ASSUME ControlInv, NEW h \in Handlers, \E outcome \in Replies \ {"ok"} : Return(h, outcome),
           todo'[h] \subseteq Text
    PROVE  Watched(h)'
  <1>1. pc'[h] = "done" /\ reply'[h] # "ok"  BY DEF Return, ControlInv
  <1> QED  BY <1>1 DEF Watched, Progress

\* ListFiles has read the directory: every child waits for its entry.
LEMMA WatchedReadDir ==
    ASSUME ControlInv, TreeInv, Heads, SeenForm, NEW h \in Handlers, Watched(h), ReadDir(h)
    PROVE  Watched(h)'
  <1>0. ListCalls(h)  BY DEF ListCalls
  <1>1. /\ UNCHANGED stores /\ req'[h] = req[h] /\ req[h].path \in Text
        /\ DOMAIN todo = Handlers /\ todo[h] \subseteq Text
    BY <1>0, ListCallForms DEF SeenForm, Watched, ControlInv, RequestType
  <1>2. \A c : Subdirs(c)' = Subdirs(c)  BY <1>1, CountsSame
  <1>3. CASE /\ todo' = [todo EXCEPT ![h] = {Base(d) : d \in Subdirs(req[h].path)}]
             /\ Goto(h, "entries")
    <2> PICK x \in Text : x = req[h].path  BY <1>1
    <2>1. pc[h] = "readDir" /\ seen' = seen /\ pc'[h] = "entries"
      BY <1>3 DEF ReadDir, At, Goto, ControlInv
    <2>2. todo'[h] = {Base(d) : d \in Subdirs(x)}  BY <1>1, <1>3
    <2>3. todo'[h] \subseteq Text /\ {InDir(x, n) : n \in todo'[h]} = Subdirs(x)
      BY <2>2, Children
    <2>4. Waiting(h)' = Subdirs(x)  BY <1>1, <2>3 DEF Waiting
    <2>5. req'[h].path = x /\ Subdirs(x)' = Subdirs(x)  BY <1>1, <1>2
    <2>6. Listed(h)' = {}  BY <2>4, <2>5 DEF Listed
    <2>7. Complete(Listed(h))' = <<>>  BY <2>6 DEF Complete
    <2>8. req[h].text = x => seen'[h].folders = <<>>
      BY <2>1 DEF Watched, Progress, NothingSeen
    <2>9. Waiting(h)' \subseteq Subdirs(req[h].path)'  BY <1>2, <2>4, <2>5
    <2>10. req[h].text = x => Progress(h)'  BY <2>1, <2>7, <2>8, <2>9 DEF Progress
    <2> QED  BY <1>1, <2>1, <2>3, <2>10 DEF Watched
  <1>4. CASE Return(h, "internal") /\ UNCHANGED todo
    BY <1>1, <1>4, WatchedRefusal DEF Replies
  <1> QED  BY <1>3, <1>4 DEF ReadDir

\* The child that a call of buildFolderEntry is about.
LEMMA CurrentChild ==
    ASSUME ControlInv, NEW h \in Handlers, Watched(h), req[h].text = req[h].path,
           pc[h] \in {"entries", "countRows"}, todo[h] # {}
    PROVE  /\ Front(todo[h]) \in todo[h] /\ Front(todo[h]) \in Text
           /\ Current(h) = InDir(req[h].path, Front(todo[h]))
           /\ Current(h) = EntryPath(req[h].text, Front(todo[h]))
           /\ Current(h) \in Subdirs(req[h].path) /\ Exists(Current(h))
  <1>1. Front(todo[h]) \in todo[h] /\ Front(todo[h]) \in Text  BY FrontIn DEF Watched
  <1>2. Current(h) \in Waiting(h)  BY <1>1 DEF Current, Waiting
  <1>3. Current(h) \in Subdirs(req[h].path)  BY <1>2 DEF Watched, Progress
  <1>4. Exists(Current(h))  BY <1>3 DEF Exists, Subdirs
  <1> QED  BY <1>1, <1>3, <1>4 DEF Current, EntryPath

LEMMA WatchedCountSubdirs ==
    ASSUME ControlInv, SeenForm, NEW h \in Handlers, Watched(h), CountSubdirs(h), h \in calm'
    PROVE  Watched(h)'
  <1>0. ListCalls(h)  BY DEF ListCalls
  <1>1. /\ UNCHANGED stores /\ req'[h] = req[h]
        /\ DOMAIN seen = Handlers /\ DOMAIN seen[h] = {"folders", "lists", "notes"}
        /\ todo' = todo /\ todo[h] # {} /\ todo[h] \subseteq Text
        /\ pc[h] = "entries" /\ pc'[h] = "countRows"
    BY <1>0, ListCallForms DEF SeenForm, Watched, ControlInv, CountSubdirs, At, Goto
  <1>2. /\ \A c : Subdirs(c)' = Subdirs(c)
        /\ \A S : Complete(S)' = Complete(S)
    BY <1>1, CountsSame
  <1>3. ASSUME req[h].text = req[h].path
        PROVE  Progress(h)'
    <2>1. /\ Current(h) = InDir(req[h].path, Front(todo[h]))
          /\ Current(h) = EntryPath(req[h].text, Front(todo[h]))
          /\ Exists(Current(h))
      BY <1>1, <1>3, CurrentChild
    <2>2. ~ Miscounts(h)  BY DEF Miscounts
    <2>3. seen' = [seen EXCEPT ![h].folders =
                     Entered(@, Current(h), Cardinality(Subdirs(Current(h))))]
      BY <2>1, <2>2 DEF CountSubdirs, Front
    <2>4. seen'[h].folders =
             Entered(seen[h].folders, Current(h), Cardinality(Subdirs(Current(h))))
      BY <1>1, <2>3
    <2>5. /\ Waiting(h) \subseteq Subdirs(req[h].path)
          /\ seen[h].folders = Complete(Listed(h))
      BY <1>1, <1>3 DEF Watched, Progress
    <2>6. Waiting(h)' = Waiting(h) /\ Current(h)' = Current(h)
      BY <1>1 DEF Waiting, Current
    <2>7. Listed(h)' = Listed(h)  BY <1>1, <1>2, <2>6 DEF Listed
    <2>8. Subdirs(req[h].path)' = Subdirs(req[h].path)  BY <1>1, <1>2
    <2>9. /\ Complete(Listed(h))' = Complete(Listed(h))
          /\ Subdirs(Current(h))' = Subdirs(Current(h))
      BY <1>2, <2>6, <2>7
    <2>10. seen'[h].folders =
             Entered(Complete(Listed(h))', Current(h)', Cardinality(Subdirs(Current(h)))')
      BY <2>4, <2>5, <2>6, <2>9
    <2> QED  BY <1>1, <2>5, <2>6, <2>8, <2>10 DEF Progress, Entered
  <1> QED  BY <1>1, <1>3 DEF Watched

LEMMA WatchedCountRows ==
    ASSUME ControlInv, SeenForm, NEW h \in Handlers, Watched(h), CountChildrenInDir(h),
           h \in calm'
    PROVE  Watched(h)'
  <1>0. ListCalls(h)  BY DEF ListCalls
  <1>1. /\ UNCHANGED stores /\ req'[h] = req[h] /\ req[h].path \in Text
        /\ DOMAIN seen = Handlers /\ DOMAIN seen[h] = {"folders", "lists", "notes"}
        /\ todo[h] \subseteq Text
        /\ pc[h] = "countRows" /\ pc'[h] = "entries"
    BY <1>0, ListCallForms
       DEF SeenForm, Watched, ControlInv, CountChildrenInDir, At, Goto, RequestType
  <1>2. todo'[h] = todo[h] \ {Front(todo[h])}
    BY <1>0, ListCallForms DEF CountChildrenInDir, Front, SeenForm
  <1>3. /\ \A c : Subdirs(c)' = Subdirs(c)
        /\ \A S : Complete(S)' = Complete(S)
    BY <1>1, CountsSame
  <1>4. ASSUME req[h].text = req[h].path
        PROVE  Progress(h)'
    <2>1. /\ todo[h] # {}
          /\ Waiting(h) \subseteq Subdirs(req[h].path)
          /\ seen[h].folders = Entered(Complete(Listed(h)), Current(h),
                                       Cardinality(Subdirs(Current(h))))
      BY <1>1, <1>4 DEF Watched, Progress
    <2>2. /\ Front(todo[h]) \in todo[h] /\ Front(todo[h]) \in Text
          /\ Current(h) = InDir(req[h].path, Front(todo[h]))
          /\ Current(h) = EntryPath(req[h].text, Front(todo[h]))
          /\ Current(h) \in Subdirs(req[h].path)
      BY <1>1, <1>4, <2>1, CurrentChild
    <2>3. ~ Miscounts(h)  BY DEF Miscounts
    <2> DEFINE rows(e) == Cardinality(RowsIn(notes, e)) + Cardinality(RowsIn(lists, e))
    <2>4. seen' = [seen EXCEPT ![h].folders[Current(h)] = @ + rows(Current(h))]
      BY <2>2, <2>3 DEF CountChildrenInDir, Front
    <2>5. seen'[h].folders = [seen[h].folders EXCEPT ![Current(h)] = @ + rows(Current(h))]
      BY <1>1, <2>4
    <2>6. RowCount(Current(h)) = Cardinality(Subdirs(Current(h))) + rows(Current(h))
      BY DEF RowCount
    <2> HIDE DEF rows
    <2>7. seen'[h].folders = Complete(Listed(h) \cup {Current(h)})
      BY <2>1, <2>5, <2>6, EnteredComplete
    <2>8. Waiting(h)' = Waiting(h) \ {Current(h)}
      <3> PICK x \in Text, n \in Text : x = req[h].path /\ n = Front(todo[h])  BY <1>1, <2>2
      <3>1. \A m \in todo[h] : InDir(x, m) = InDir(x, n) => m = n
        BY <1>1, InDirSame
      <3>2. Waiting(h)' = {InDir(x, m) : m \in todo[h] \ {n}}  BY <1>1, <1>2 DEF Waiting
      <3>3. Waiting(h) = {InDir(x, m) : m \in todo[h]} /\ Current(h) = InDir(x, n)
        BY <2>2 DEF Waiting
      <3> QED  BY <3>1, <3>2, <3>3
    <2>9. Subdirs(req[h].path)' = Subdirs(req[h].path)  BY <1>1, <1>3
    <2>10. Listed(h)' = Listed(h) \cup {Current(h)}
      BY <2>2, <2>8, <2>9 DEF Listed
    <2>11. seen'[h].folders = Complete(Listed(h))'  BY <1>3, <2>7, <2>10
    <2> QED  BY <1>1, <2>1, <2>8, <2>9, <2>11 DEF Progress
  <1> QED  BY <1>1, <1>2, <1>4 DEF Watched

LEMMA WatchedLists ==
    ASSUME ControlInv, SeenForm, NEW h \in Handlers, Watched(h), ListTaskLists(h)
    PROVE  Watched(h)'
  <1>0. ListCalls(h)  BY DEF ListCalls
  <1>1. /\ UNCHANGED stores /\ req'[h] = req[h]
        /\ DOMAIN seen = Handlers /\ DOMAIN seen[h] = {"folders", "lists", "notes"}
        /\ todo' = todo /\ todo[h] = {} /\ pc[h] = "entries"
    BY <1>0, ListCallForms DEF SeenForm, ListTaskLists, At
  <1>2. /\ \A c : Subdirs(c)' = Subdirs(c)
        /\ \A c : RowsIn(lists, c)' = RowsIn(lists, c)
        /\ \A S : Complete(S)' = Complete(S)
    BY <1>1, CountsSame
  <1>3. CASE /\ seen' = [seen EXCEPT ![h].lists = RowsIn(lists, req[h].text)]
             /\ Goto(h, "listNotes")
    <2>1. pc'[h] = "listNotes"  BY <1>3 DEF Goto, ControlInv
    <2>2. /\ seen'[h].lists = RowsIn(lists, req[h].text)
          /\ seen'[h].folders = seen[h].folders
      BY <1>1, <1>3
    <2>3. ASSUME req[h].text = req[h].path PROVE Progress(h)'
      <3>1. seen[h].folders = Complete(Listed(h))  BY <1>1, <2>3 DEF Watched, Progress
      <3>2. Listed(h) = Subdirs(req[h].path)  BY <1>1 DEF Listed, Waiting
      <3>3. Complete(Subdirs(req[h].path))' = Complete(Subdirs(req[h].path))
        BY <1>1, <1>2
      <3>4. RowsIn(lists, req[h].path)' = RowsIn(lists, req[h].path)  BY <1>1, <1>2
      <3> QED  BY <2>1, <2>2, <2>3, <3>1, <3>2, <3>3, <3>4 DEF Progress
    <2> QED  BY <1>1, <2>1, <2>3 DEF Watched
  <1>4. CASE Return(h, "internal")
    BY <1>1, <1>4, WatchedRefusal DEF Replies
  <1> QED  BY <1>3, <1>4 DEF ListTaskLists

LEMMA WatchedNotes ==
    ASSUME ControlInv, SeenForm, NEW h \in Handlers, Watched(h), ListNotes(h)
    PROVE  Watched(h)'
  <1>0. ListCalls(h)  BY DEF ListCalls
  <1>1. /\ UNCHANGED stores /\ req'[h] = req[h]
        /\ DOMAIN seen = Handlers /\ DOMAIN seen[h] = {"folders", "lists", "notes"}
        /\ todo' = todo /\ todo[h] \subseteq Text /\ pc[h] = "listNotes"
    BY <1>0, ListCallForms DEF SeenForm, ListNotes, At, Watched
  <1>2. /\ \A c : Subdirs(c)' = Subdirs(c)
        /\ \A c : RowsIn(notes, c)' = RowsIn(notes, c)
        /\ \A c : RowsIn(lists, c)' = RowsIn(lists, c)
        /\ \A S : Complete(S)' = Complete(S)
    BY <1>1, CountsSame
  <1>3. CASE /\ seen' = [seen EXCEPT ![h].notes = RowsIn(notes, req[h].text)]
             /\ Return(h, "ok")
    <2>1. pc'[h] = "done"  BY <1>3 DEF Return, ControlInv
    <2>2. /\ seen'[h].notes = RowsIn(notes, req[h].text)
          /\ seen'[h].folders = seen[h].folders /\ seen'[h].lists = seen[h].lists
      BY <1>1, <1>3
    <2>3. ASSUME req[h].text = req[h].path PROVE Progress(h)'
      <3>1. /\ seen[h].folders = Complete(Subdirs(req[h].path))
            /\ seen[h].lists = RowsIn(lists, req[h].path)
        BY <1>1, <2>3 DEF Watched, Progress
      <3>2. Complete(Subdirs(req[h].path))' = Complete(Subdirs(req[h].path))
        BY <1>1, <1>2
      <3>3. /\ RowsIn(lists, req[h].path)' = RowsIn(lists, req[h].path)
            /\ RowsIn(notes, req[h].path)' = RowsIn(notes, req[h].path)
        BY <1>1, <1>2
      <3> QED  BY <2>1, <2>2, <2>3, <3>1, <3>2, <3>3 DEF Progress
    <2> QED  BY <1>1, <2>1, <2>3 DEF Watched
  <1>4. CASE Return(h, "internal")
    BY <1>1, <1>4, WatchedRefusal DEF Replies
  <1> QED  BY <1>3, <1>4 DEF ListNotes

\* A call of ListFiles that does not fail in silence.
LEMMA WatchedCalls ==
    ASSUME ControlInv, TreeInv, Heads, SeenForm, NEW h \in Handlers, Watched(h),
           ListCalls(h), h \in calm'
    PROVE  Watched(h)'
  BY WatchedReadDir, WatchedCountSubdirs, WatchedCountRows, WatchedLists, WatchedNotes
     DEF ListCalls

LEMMA CalmInit ==
    ASSUME Init
    PROVE  CalmInv /\ Heads
  <1>1. SeenForm  BY DEF Init, SeenForm, NothingSeen
  <1>2. calm = {} /\ dirs = {}  BY DEF Init
  <1> QED  BY <1>1, <1>2 DEF CalmInv, Heads

\* What a step leaves alone of a handler leaves the handler watched.
LEMMA CalmOthers ==
    ASSUME ControlInv, CalmInv, SeenForm', UNCHANGED stores, NEW h \in Handlers,
           calm' \subseteq calm \cup {h},
           \A k \in Handlers \ {h} : /\ pc'[k] = pc[k] /\ req'[k] = req[k]
                                     /\ todo'[k] = todo[k] /\ seen'[k] = seen[k]
                                     /\ reply'[k] = reply[k],
           h \in calm' => Watched(h)'
    PROVE  CalmInv'
  <1>1. ASSUME NEW k \in calm', k # h PROVE Watched(k)'
    <2>1. k \in Handlers /\ Watched(k)  BY <1>1 DEF ControlInv, CalmInv
    <2> QED  BY <1>1, <2>1, WatchedSame
  <1> QED  BY <1>1 DEF CalmInv

\* A request begins: a ListFiles call has read nothing so far.
LEMMA CalmBegins ==
    ASSUME ControlInv, CalmInv, NEW h \in Handlers, Begins6(h)
    PROVE  CalmInv'
  <1>1. /\ pc[h] = "idle" /\ UNCHANGED <<stores, todo, seen>>
        /\ SeenForm /\ seen[h] = NothingSeen /\ todo[h] = {}
    BY BeginForms DEF CalmInv, SeenForm
  <1>2. h \notin calm  BY <1>1 DEF CalmInv, Watched
  <1>3. CASE Refuses(h)
    <2>1. PICK outcome \in Replies : Return(h, outcome)  BY <1>3 DEF Refuses
    <2>2. /\ calm' = calm /\ req' = req
          /\ pc' = [pc EXCEPT ![h] = "done"] /\ reply' = [reply EXCEPT ![h] = outcome]
      BY <1>3, <2>1 DEF Refuses, Quiet, Return
    <2>3. /\ pc'[h] # "idle"
          /\ \A k \in Handlers \ {h} : pc'[k] = pc[k] /\ reply'[k] = reply[k]
      BY <2>2 DEF ControlInv
    <2>4. SeenForm'  BY <1>1, <2>3 DEF SeenForm
    <2> QED  BY <1>1, <1>2, <2>2, <2>3, <2>4, CalmOthers
  <1>4. ASSUME NEW r, NEW label, Passes(h, r, label) PROVE CalmInv'
    <2>1. /\ req' = [req EXCEPT ![h] = r] /\ pc' = [pc EXCEPT ![h] = label]
          /\ reply' = reply /\ label \in {"lock", "readDir", "create", "insertList"}
          /\ Serves(r, label)
          /\ calm' = IF r.op = "files" THEN calm \cup {h} ELSE calm
      BY <1>4 DEF Passes, Start, Goto
    <2>2. /\ pc'[h] = label /\ label # "idle"
          /\ \A k \in Handlers \ {h} : pc'[k] = pc[k] /\ req'[k] = req[k]
      BY <2>1 DEF ControlInv
    <2>3. SeenForm'  BY <1>1, <2>2 DEF SeenForm
    <2>4. ASSUME h \in calm' PROVE Watched(h)'
      <3>1. label = "readDir"  BY <1>2, <2>1, <2>4 DEF Serves, Making
      <3> QED  BY <1>1, <2>2, <3>1 DEF Watched, Progress
    <2> QED  BY <1>1, <2>1, <2>2, <2>3, <2>4, CalmOthers
  <1> QED  BY <1>3, <1>4, BeginForms

\* A call that lists nothing and is not noted as changing a store.
LEMMA CallsQuiet ==
    ASSUME ControlInv, NEW h \in Handlers, Calls(h), ~ ListCalls(h)
    PROVE  /\ UNCHANGED <<todo, seen>>
           /\ calm' = {} \/ (calm' = calm /\ UNCHANGED stores)
           /\ pc[h] \notin {"readDir", "entries", "countRows", "listNotes", "done"}
           /\ \A k \in Handlers \ {h} : reply'[k] = reply[k]
  <1>1. UNCHANGED <<todo, seen>>
    BY DEF Calls, ListCalls, Call, StatFolder, Mkdir, CheckTarget, CheckOldPath, RenameFolder,
       RenameParentDir, UndoRename, DeleteByParentDir, RemoveAll, CreateFile, StatFile,
       InsertNote, RemoveFile, InsertTaskList
  <1>2. calm' = {} \/ (calm' = calm /\ UNCHANGED stores)
    BY DEF Calls, ListCalls, StatFolder, Mkdir, CheckTarget, CheckOldPath, RenameFolder,
       RenameParentDir, UndoRename, DeleteByParentDir, RemoveAll, CreateFile, StatFile,
       InsertNote, RemoveFile, InsertTaskList, stores, Quiet, Stirs, Damages
  <1>3. pc[h] \notin {"readDir", "entries", "countRows", "listNotes", "done"}
    BY DEF Calls, ListCalls, At, StatFolder, Mkdir, CheckTarget, CheckOldPath, RenameFolder,
       RenameParentDir, UndoRename, DeleteByParentDir, RemoveAll, CreateFile, StatFile,
       InsertNote, RemoveFile, InsertTaskList
  <1>4. \A k \in Handlers \ {h} : reply'[k] = reply[k]
    BY DEF Calls, ListCalls, Goto, Return, StatFolder, Mkdir, CheckTarget, CheckOldPath, RenameFolder,
       RenameParentDir, UndoRename, DeleteByParentDir, RemoveAll, CreateFile, StatFile,
       InsertNote, RemoveFile, InsertTaskList, ControlInv
  <1> QED  BY <1>1, <1>2, <1>3, <1>4

LEMMA CalmStep ==
    ASSUME ControlInv, TreeInv, Heads, CalmInv, [Next]_vars
    PROVE  CalmInv'
  <1>1. CASE UNCHANGED vars
    <2>1. UNCHANGED <<stores, pc, req, todo, seen, reply, calm>>  BY <1>1 DEF vars, stores
    <2>2. SeenForm'  BY <2>1 DEF CalmInv, SeenForm
    <2>3. \A h \in calm' : Watched(h)'
      BY <2>1, WatchedSame DEF CalmInv, ControlInv
    <2> QED  BY <2>2, <2>3 DEF CalmInv
  <1>2. CASE Crash
    <2>1. calm' = {}  BY <1>2 DEF Crash
    <2>2. SeenForm'  BY <1>2 DEF Crash, SeenForm, NothingSeen
    <2> QED  BY <2>1, <2>2 DEF CalmInv
  <1>3. ASSUME NEW h \in Handlers, Step(h) PROVE CalmInv'
    <2>0. SeenForm  BY DEF CalmInv
    <2>1. CASE Begins6(h)  BY <2>1, CalmBegins
    <2>2. CASE Lock(h)
      <3>1. /\ pc[h] = "lock" /\ UNCHANGED <<stores, req, todo, seen, reply, calm>>
            /\ pc' = [pc EXCEPT ![h] = FirstCall[req[h].op]]
        BY <2>2 DEF Lock, At, Goto, Call, Quiet
      <3>2. pc'[h] # "idle"
        <4>1. req[h].op \in {"create", "update", "delete"}
          BY <3>1 DEF ControlInv, Serves
        <4> QED  BY <3>1, <4>1 DEF ControlInv, FirstCall
      <3>3. \A k \in Handlers \ {h} : pc'[k] = pc[k]  BY <3>1 DEF ControlInv
      <3>4. SeenForm'  BY <2>0, <3>1, <3>2, <3>3 DEF SeenForm
      <3>5. h \notin calm'  BY <3>1 DEF CalmInv, Watched
      <3> QED  BY <3>1, <3>3, <3>4, <3>5, CalmOthers
    <2>3. CASE Respond(h)
      <3>1. /\ UNCHANGED stores /\ h \notin calm' /\ calm' \subseteq calm
            /\ \A k \in Handlers \ {h} : /\ pc'[k] = pc[k] /\ req'[k] = req[k]
                                         /\ todo'[k] = todo[k] /\ seen'[k] = seen[k]
                                         /\ reply'[k] = reply[k]
        BY <2>0, <2>3 DEF Respond, ControlInv, SeenForm
      <3>2. /\ seen'[h] = NothingSeen /\ todo'[h] = {}
            /\ DOMAIN seen' = Handlers /\ DOMAIN todo' = Handlers
        BY <2>0, <2>3 DEF Respond, SeenForm
      <3>3. SeenForm'  BY <2>0, <3>1, <3>2 DEF SeenForm, NothingSeen
      <3> QED  BY <3>1, <3>3, CalmOthers
    <2>4. CASE ListCalls(h)
      <3>1. /\ UNCHANGED <<stores, req>> /\ calm' \subseteq calm
            /\ \A k \in Handlers \ {h} : /\ seen'[k] = seen[k] /\ todo'[k] = todo[k]
                                         /\ reply'[k] = reply[k] /\ pc'[k] = pc[k]
            /\ DOMAIN seen' = Handlers /\ DOMAIN todo' = Handlers
            /\ DOMAIN seen'[h] = {"folders", "lists", "notes"}
            /\ pc'[h] # "idle"
        BY <2>0, <2>4, ListCallForms
      <3>2. SeenForm'  BY <2>0, <3>1 DEF SeenForm
      <3>3. ASSUME h \in calm' PROVE Watched(h)'
        <4>1. Watched(h)  BY <3>1, <3>3 DEF CalmInv
        <4> QED  BY <2>0, <2>4, <3>3, <4>1, WatchedCalls
      <3> QED  BY <3>1, <3>2, <3>3, CalmOthers
    <2>5. CASE Calls(h) /\ ~ ListCalls(h)
      <3>1. /\ UNCHANGED <<todo, seen>>
            /\ calm' = {} \/ (calm' = calm /\ UNCHANGED stores)
            /\ pc[h] \notin {"readDir", "entries", "countRows", "listNotes", "done"}
            /\ \A k \in Handlers \ {h} : reply'[k] = reply[k]
        BY <2>5, CallsQuiet
      <3>2. /\ UNCHANGED req
            /\ \A k \in Handlers \ {h} : pc'[k] = pc[k]
            /\ \E label \in PCs \ {"idle"} : pc' = [pc EXCEPT ![h] = label]
        BY <2>5, CallsFacts
      <3>3. pc'[h] # "idle"  BY <3>2 DEF ControlInv
      <3>4. SeenForm'  BY <2>0, <3>1, <3>2, <3>3 DEF SeenForm
      <3>5. CASE calm' = {}  BY <3>4, <3>5 DEF CalmInv
      <3>6. CASE calm' = calm /\ UNCHANGED stores
        <4>1. h \notin calm  BY <3>1 DEF CalmInv, Watched
        <4> QED  BY <3>1, <3>2, <3>4, <3>6, <4>1, CalmOthers
      <3> QED  BY <3>1, <3>5, <3>6
    <2> QED  BY <1>3, <2>1, <2>2, <2>3, <2>4, <2>5 DEF Step, Begins6, Calls
  <1> QED  BY <1>1, <1>2, <1>3 DEF Next

\* While no request is in the middle of changing two stores, a folder has the
\* rows of the notes whose files are in its directory.
LEMMA RowsAreFiles ==
    ASSUME PlacesInv, ~ disturbed, Dotless, \A k \in Handlers : ~ HalfDone(k),
           NEW c \in Text
    PROVE  RowsIn(notes, c) = RowsIn(files, c)
  <1>1. /\ ControlInv /\ TreeInv /\ NotesFresh /\ PlaceInv
        /\ DOMAIN notes = Notes /\ DOMAIN files = Notes
        /\ c # None
    BY FoldersAssumption DEF PlacesInv, NotesFresh, TreeInv
  <1>2. \A n \in Notes : NoteFine(n)
    <2>1. \A n \in Notes, h \in Handlers : ~ NoteHeld(n, h)
      BY DEF HalfDone, NoteHeld, Making, Moving
    <2> QED  BY <1>1, <2>1 DEF PlaceInv
  <1>3. \A n \in Notes : notes[n] = c <=> files[n] = c
    BY <1>1, <1>2 DEF NoteFine, Resolve, Dotless
  <1> QED  BY <1>1, <1>3 DEF RowsIn

\* A ListFiles call during which nothing changed or failed answers what the
\* disk holds: every subfolder with the number of its subfolders, note files
\* and task lists, and every note whose file is in the directory, although the
\* answer is put together from the disk and from two tables, by calls between
\* which other requests run (ListFiles, buildFolderEntry).  A row that names the
\* root as "." is left out of the listing of "", so that name is excluded.
THEOREM ListingTrueHolds ==
    ASSUME Plain, <<Dot>> \notin Folders
    PROVE  Spec => []ListingTrue
  <1> DEFINE LInv == PlacesInv /\ Heads /\ Dotless /\ CalmInv
  <1>1. Init => LInv
    <2>1. ASSUME Init PROVE Dotless
      <3>1. <<Dot>> \in Text  BY CharsAssumption DEF Text
      <3>2. \A n \in Notes : notes[n] = None  BY <2>1 DEF Init
      <3> QED  BY <3>1, <3>2, FoldersAssumption DEF Dotless
    <2> QED  BY <2>1, PlacesInit, CalmInit
  <1>2. LInv /\ [Next]_vars => LInv'
    BY PlacesStep, HeadsStep, DotlessStep, CalmStep DEF PlacesInv
  <1>3. LInv => ListingTrue
    <2> SUFFICES ASSUME LInv, NEW h \in calm, ~ disturbed, pc[h] = "done", reply[h] = "ok",
                        req[h].text = req[h].path, \A k \in Handlers : ~ HalfDone(k)
                 PROVE  LET d == req[h].path IN
                        /\ seen[h].folders = [c \in Subdirs(d) |-> TrueCount(c)]
                        /\ seen[h].notes = RowsIn(files, d)
                        /\ seen[h].lists = RowsIn(lists, d)
      BY DEF ListingTrue, At
    <2> PICK d : d = req[h].path  OBVIOUS
    <2>1. /\ seen[h].folders = Complete(Subdirs(d))
          /\ seen[h].lists = RowsIn(lists, d)
          /\ seen[h].notes = RowsIn(notes, d)
      BY DEF CalmInv, Watched, Progress
    <2>2. \A c \in Text : RowsIn(notes, c) = RowsIn(files, c)  BY RowsAreFiles
    <2>3. d \in Text /\ Subdirs(d) \subseteq Text
      BY DEF PlacesInv, ControlInv, RequestType, TreeInv, Tree, Subdirs
    <2>4. \A c \in Subdirs(d) : RowCount(c) = TrueCount(c)
      BY <2>2, <2>3 DEF RowCount, TrueCount
    <2>5. Complete(Subdirs(d)) = [c \in Subdirs(d) |-> TrueCount(c)]  BY <2>4 DEF Complete
    <2> QED  BY <2>1, <2>2, <2>3, <2>5
  <1> QED  BY <1>1, <1>2, <1>3, PTL DEF Spec
=============================================================================
