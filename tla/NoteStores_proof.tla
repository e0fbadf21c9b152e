-------------------------- MODULE NoteStores_proof --------------------------
(***************************************************************************)
(* The row and the file of a note agree: the preview is the file's, what   *)
(* CreateNote and UpdateNote have acknowledged is in both, no file         *)
(* outlives its row, and a note is missed only when it is deleted.  Each   *)
(* theorem assumes of the faults what it needs, and those on stale titles  *)
(* that notes keep their title.                                            *)
(***************************************************************************)
EXTENDS NoteRollback_proof

-----------------------------------------------------------------------------
(***************************************************************************)
(* Who does what in a step.                                                *)
(***************************************************************************)
\* A step of a handler leaves what the others carry alone.
LEMMA OthersKept ==
  ASSUME TypeOK, NEW h \in Handlers, Request(h) \/ Step(h),
         NEW g \in Handlers, g # h
  PROVE  /\ pc'[g] = pc[g] /\ req'[g] = req[g] /\ from'[g] = from[g]
         /\ todo'[g] = todo[g] /\ listed'[g] = listed[g] /\ reply'[g] = reply[g]
<1> USE DEF TypeOK, Begin, Goto, Return, Call
<1>1. CASE Request(h)
  BY <1>1 DEF Request, BeginCreate, BeginUpdate, BeginDelete, BeginGet, BeginList, Refuse
<1>2. CASE FileStep(h)
  BY <1>2 DEF FileStep, OpenSentinel, FillSentinel, InsertNote, RenameFile, WriteFile, UpdateRow,
              RemoveFile
<1>3. CASE LockNext(h)
  BY <1>3 DEF LockNext
<1>4. CASE UnlockNext(h) \/ Respond(h) \/ StatCreated(h) \/ QueryRow(h) \/ StatOld(h) \/ StatNew(h)
  BY <1>4 DEF UnlockNext, Respond, StatCreated, QueryRow, StatOld, StatNew
<1>5. CASE DeleteRow(h) \/ ReadFile(h) \/ ListQuery(h) \/ ListRead(h)
  BY <1>5 DEF DeleteRow, ReadFile, ListQuery, ListRead
<1> QED
  BY <1>1, <1>2, <1>3, <1>4, <1>5 DEF Step, FileStep

\* Only the calls on files and the DELETE change a store.
LEMMA StoresUnchanged ==
  ASSUME NEW h \in Handlers, Request(h) \/ Step(h), ~FileStep(h), ~DeleteRow(h)
  PROVE  UNCHANGED <<rows, files>>
<1>1. CASE Request(h)
  BY <1>1 DEF Request, BeginCreate, BeginUpdate, BeginDelete, BeginGet, BeginList, Begin, Refuse,
              Stores
<1>2. CASE Step(h)
  BY <1>2 DEF Step, FileStep, LockNext, UnlockNext, Respond, StatCreated, QueryRow, StatOld,
              StatNew, ReadFile, ListQuery, ListRead, Stores
<1> QED
  BY <1>1, <1>2

\* They change nothing of other notes.
LEMMA OtherNotesKept ==
  ASSUME IInv, NEW h \in Handlers, FileStep(h) \/ DeleteRow(h), NEW id \in Ids, id # req[h].id
  PROVE  /\ rows'[id] = rows[id]
         /\ \A t \in Titles : files'[NotePath(t, id)] = files[NotePath(t, id)]
<1>1. CASE DeleteRow(h)
  BY <1>1 DEF DeleteRow, IInv, TypeOK
<1>2. CASE FileStep(h)
  <2>1. rows'[id] = rows[id]
    BY <1>2 DEF FileStep, OpenSentinel, FillSentinel, InsertNote, RenameFile, WriteFile,
                UpdateRow, RemoveFile, Stores, IInv, TypeOK
  <2>2. ASSUME NEW t \in Titles PROVE files'[NotePath(t, id)] = files[NotePath(t, id)]
    <3>1. NotePath(t, id) \in NotePaths /\ NotePath(t, id)[2] = id
      BY DEF NotePath, NotePaths
    <3> QED
      BY <1>2, <3>1, FileStepPaths, FileStepEffect
  <2> QED
    BY <2>1, <2>2
<1> QED
  BY <1>1, <1>2

\* How a handler gets to the calls between which the stores differ, other than
\* by a call on files.
LEMMA NextCall ==
  ASSUME IInv, NEW h \in Handlers, Request(h) \/ Step(h), ~FileStep(h)
  PROVE  /\ pc'[h] \in {"fill", "statCreated", "insert"} => StatCreated(h)
         /\ pc'[h] = "write" => StatOld(h) /\ files[OldPath(h)] # None /\ ~Renames(h)
         /\ pc'[h] \in {"statNew", "update"} => StatNew(h)
         /\ pc'[h] # "delete"
<1> USE DEF IInv, TypeOK, At, Goto, Return
<1>1. CASE Request(h)
  BY <1>1 DEF Request, BeginCreate, BeginUpdate, BeginDelete, BeginGet, BeginList, Begin, Refuse,
              Idle
<1>2. CASE LockNext(h)
  <2>1. req[h].op \in {"create", "update", "delete"}
    BY <1>2 DEF LockNext, RequestInv, RequestOf
  <2>2. AfterLock(req[h].op) \in {"sentinel", "statOld", "remove"}
    BY <2>1 DEF AfterLock
  <2>3. pc'[h] = pc[h] \/ pc'[h] = AfterLock(req[h].op)
    BY <1>2 DEF LockNext
  <2> QED
    BY <1>2, <2>2, <2>3 DEF LockNext
<1>3. CASE UnlockNext(h) \/ Respond(h) \/ StatCreated(h) \/ QueryRow(h)
  BY <1>3 DEF UnlockNext, Respond, StatCreated, QueryRow
<1>4. CASE StatOld(h) \/ StatNew(h) \/ DeleteRow(h)
  BY <1>4 DEF StatOld, StatNew, DeleteRow
<1>5. CASE ReadFile(h) \/ ListQuery(h) \/ ListRead(h)
  BY <1>5 DEF ReadFile, ListQuery, ListRead
<1> QED
  BY <1>1, <1>2, <1>3, <1>4, <1>5 DEF Step, FileStep

\* A lock is held by whom it was held, unless this step took it.
LEMMA OwnerKept ==
  ASSUME IInv, NEW h \in Handlers, Request(h) \/ Step(h),
         NEW g \in Handlers, NEW x \in NotePaths, owner'[x] = g, g # h \/ ~LockNext(h)
  PROVE  owner[x] = g
<1>1. CASE LockNext(h)
  BY <1>1, LockNextEffect DEF IInv, TypeOK, Locks!TypeOK
<1>2. CASE UnlockNext(h)
  BY <1>2, UnlockNextEffect, HandlersAssumption DEF IInv, TypeOK, Locks!TypeOK
<1>3. CASE ~LockNext(h) /\ ~UnlockNext(h)
  <2>1. UNCHANGED owner
    <3>1. CASE Request(h)
      BY <3>1 DEF Request, BeginCreate, BeginUpdate, BeginDelete, BeginGet, BeginList, Begin,
                  Refuse
    <3>2. CASE FileStep(h)
      BY <3>2, FileStepEffect
    <3>3. CASE Step(h) /\ ~FileStep(h)
      BY <1>3, <3>3 DEF Step, FileStep, Respond, StatCreated, QueryRow, StatOld, StatNew,
                        DeleteRow, ReadFile, ListQuery, ListRead
    <3> QED
      BY <3>1, <3>2, <3>3
  <2> QED
    BY <2>1
<1> QED
  BY <1>1, <1>2, <1>3

-----------------------------------------------------------------------------
(***************************************************************************)
(* What UpdateNote has written is there until it has updated the row.      *)
(***************************************************************************)
ContentOf(h) == pc[h] \in {"statNew", "update"} => files[NewPath(h)] = req[h].content

ContentInv == \A h \in Handlers : ContentOf(h)

LEMMA ContentStep == IInv /\ ContentInv /\ [Next]_vars => ContentInv'
<1> SUFFICES ASSUME IInv, ContentInv, [Next]_vars PROVE ContentInv'
  OBVIOUS
<1>1. CASE UNCHANGED vars
  BY <1>1 DEF vars, ContentInv, ContentOf, NewPath
<1>2. CASE Crash
  BY <1>2 DEF Crash, ContentInv, ContentOf
<1>3. ASSUME NEW h \in Handlers, Request(h) \/ Step(h) PROVE ContentInv'
  <2>1. ASSUME NEW g \in Handlers, g # h, pc'[g] \in {"statNew", "update"} PROVE ContentOf(g)'
    <3>1. pc[g] = pc'[g] /\ req'[g] = req[g] /\ from'[g] = from[g]
      BY <1>3, <2>1, OthersKept DEF IInv
    <3>2. pc[g] \in LockedPCs /\ pc[g] \in UpdatePCs
      BY <2>1, <3>1 DEF LockedPCs, UpdatePCs
    <3>3. NewPath(g) \in Wanted(g)
      BY <3>2 DEF Wanted, IInv, RequestInv, RequestOf
    <3>4. files'[NewPath(g)] = files[NewPath(g)]
      <4>1. CASE FileStep(h)
        BY <2>1, <3>2, <3>3, <4>1, FileStepEffect
      <4>2. CASE ~FileStep(h)
        BY <1>3, <4>2, StoresUnchanged DEF DeleteRow
      <4> QED
        BY <4>1, <4>2
    <3> QED
      BY <2>1, <3>1, <3>4 DEF ContentInv, ContentOf, NewPath
  <2>2. ASSUME pc'[h] \in {"statNew", "update"} PROVE ContentOf(h)'
    <3>1. CASE FileStep(h)
      <4>1. WriteFile(h) /\ files' = [files EXCEPT ![NewPath(h)] = req[h].content]
        BY <2>2, <3>1 DEF FileStep, OpenSentinel, FillSentinel, InsertNote, RenameFile, WriteFile,
           UpdateRow, RemoveFile, Goto, Return, IInv, TypeOK
      <4>2. NewPath(h) \in NotePaths /\ UNCHANGED req
        BY <3>1, <4>1, FileStepPaths, FileStepEffect
        DEF WriteFile, At, IInv, RequestInv, RequestOf, UpdatePCs
      <4> QED
        BY <4>1, <4>2 DEF ContentOf, NewPath, IInv, TypeOK
    <3>2. CASE ~FileStep(h)
      <4>1. StatNew(h)
        BY <1>3, <2>2, <3>2, NextCall
      <4> QED
        BY <4>1 DEF StatNew, At, Stores, Call, ContentInv, ContentOf, NewPath
    <3> QED
      BY <3>1, <3>2
  <2> QED
    BY <2>1, <2>2 DEF ContentInv, ContentOf
<1> QED
  BY <1>1, <1>2, <1>3 DEF Next

-----------------------------------------------------------------------------
(***************************************************************************)
(* The preview.                                                            *)
(***************************************************************************)
\* UpdateNote has written the file and not the row.
Written(h, id) == req[h].id = id /\ pc[h] \in {"statNew", "update"}

\* The row's preview is that of the file it names, but for such a handler.
PreviewOf(id) ==
    rows[id] # None /\ files[RowPath(id)] # None =>
       \/ rows[id].preview = Preview(files[RowPath(id)])
       \/ \E h \in Handlers : Written(h, id)

\* The file that UpdateNote has moved and will overwrite is still the row's.
MovedOf(h) ==
    pc[h] = "write" /\ rows[req[h].id] # None =>
       rows[req[h].id].preview = Preview(files[NewPath(h)])

PreviewInv == (\A id \in Ids : PreviewOf(id)) /\ (\A h \in Handlers : MovedOf(h))

\* The file at the path that a handler is about to move or to overwrite has the
\* preview that the row has.
LEMMA PreviewKnown ==
  ASSUME IInv, RowInv, PreviewInv, NEW h \in Handlers, pc[h] \in {"statOld", "rename"},
         files[OldPath(h)] # None, rows[req[h].id] # None
  PROVE  /\ RowPath(req[h].id) = OldPath(h)
         /\ rows[req[h].id].preview = Preview(files[OldPath(h)])
<1>1. pc[h] \in UpdatePCs /\ req[h].id \in Ids /\ owner[OldPath(h)] = h
  BY UpdatePaths DEF UpdatePCs
<1>2. rows[req[h].id].title = from[h]
  BY TitleKnown
<1>3. RowPath(req[h].id) = OldPath(h)
  BY <1>2 DEF RowPath, OldPath
<1>4. ASSUME NEW g \in Handlers, Written(g, req[h].id) PROVE FALSE
  <2>1. pc[g] \in UpdatePCs /\ pc[g] \in Writing /\ req[g].id = req[h].id
    BY <1>4 DEF Written, UpdatePCs, Writing
  <2>2. from[g] = from[h]
    BY <1>2, <2>1 DEF RowInv, TitleOf
  <2>3. OldPath(g) = OldPath(h)
    BY <2>1, <2>2 DEF OldPath
  <2>4. owner[OldPath(g)] = g
    BY <2>1, UpdatePaths
  <2> QED
    BY <1>1, <1>4, <2>3, <2>4 DEF Written
<1> QED
  BY <1>1, <1>3, <1>4 DEF PreviewInv, PreviewOf

\* A handler at work on the files of a note leaves its request alone.
LEMMA RequestKept ==
  ASSUME IInv, NEW h \in Handlers, FileStep(h) \/ DeleteRow(h)
  PROVE  /\ UNCHANGED <<req, from>> /\ req[h].id \in Ids
         /\ \A g \in Handlers : g # h => pc'[g] = pc[g]
<1>1. CASE FileStep(h)
  BY <1>1, FileStepPaths, FileStepEffect
<1>2. CASE DeleteRow(h)
  BY <1>2 DEF DeleteRow, At, Return, Call, IInv, TypeOK, RequestInv, RequestOf, DeletePCs
<1> QED
  BY <1>1, <1>2

\* The file that another UpdateNote has moved stays the row's.
LEMMA MovedOthers ==
  ASSUME IInv, PreviewInv, NEW h \in Handlers, FileStep(h) \/ DeleteRow(h),
         NEW g \in Handlers, g # h
  PROVE  MovedOf(g)'
<1> SUFFICES ASSUME pc[g] = "write", rows'[req[g].id] # None
             PROVE  rows'[req[g].id].preview = Preview(files'[NewPath(g)])
  BY RequestKept DEF MovedOf, NewPath
<1>1. /\ pc[g] \in Writing /\ pc[g] \in UpdatePCs /\ pc[g] \in LockedPCs
      /\ req[g].id \in Ids /\ req[g].title \in Titles /\ NewPath(g) \in Wanted(g)
      /\ NewPath(g) = NotePath(req[g].title, req[g].id)
  BY UpdatePaths DEF Writing, UpdatePCs, LockedPCs, Wanted, NewPath
<1>2. CASE req[g].id # req[h].id
  BY <1>1, <1>2, OtherNotesKept DEF PreviewInv, MovedOf
<1>3. CASE req[g].id = req[h].id /\ DeleteRow(h)
  <2>1. UNCHANGED files /\ rows'[req[g].id] = rows[req[g].id]
    BY <1>1, <1>3 DEF DeleteRow, IInv, TypeOK
  <2> QED
    BY <2>1 DEF PreviewInv, MovedOf
<1>4. CASE req[g].id = req[h].id /\ FileStep(h)
  <2>1. files'[NewPath(g)] = files[NewPath(g)]
    BY <1>1, <1>4, FileStepEffect
  <2>2. ~UpdateRow(h)
    BY <1>1, <1>4, OneWriter DEF UpdateRow, At, Writing
  <2>3. ~InsertNote(h)
    BY <1>1, <1>4 DEF InsertNote, At, IInv, RequestInv, RequestOf, FreshInv, FreshOf, CreatePCs
  <2>4. UNCHANGED rows
    BY <1>4, <2>2, <2>3 DEF FileStep, OpenSentinel, FillSentinel, RenameFile, WriteFile, RemoveFile
  <2> QED
    BY <2>1, <2>4 DEF PreviewInv, MovedOf
<1> QED
  BY <1>2, <1>3, <1>4

\* What a step does to one note it does not do to the others.
LEMMA PreviewOthers ==
  ASSUME IInv, PreviewInv, NEW h \in Handlers, FileStep(h) \/ DeleteRow(h),
         PreviewOf(req[h].id)', MovedOf(h)'
  PROVE  PreviewInv'
<1>1. ASSUME NEW id \in Ids, id # req[h].id PROVE PreviewOf(id)'
  <2>1. rows'[id] = rows[id] /\ \A t \in Titles : files'[NotePath(t, id)] = files[NotePath(t, id)]
    BY <1>1, OtherNotesKept
  <2>2. rows[id] # None => files'[RowPath(id)'] = files[RowPath(id)]
    BY <2>1, RowTitle DEF RowPath
  <2>3. ASSUME NEW g \in Handlers, Written(g, id) PROVE Written(g, id)'
    BY <1>1, <2>3, RequestKept DEF Written
  <2> QED
    BY <2>1, <2>2, <2>3 DEF PreviewInv, PreviewOf
<1>2. PreviewOf(req[h].id)' /\ req'[h].id = req[h].id
  BY RequestKept
<1>3. ASSUME NEW id \in Ids PROVE PreviewOf(id)'
  BY <1>1, <1>2, <1>3 DEF PreviewOf, Written, RowPath
<1>4. ASSUME NEW g \in Handlers PROVE MovedOf(g)'
  BY <1>4, MovedOthers
<1> QED
  BY <1>3, <1>4 DEF PreviewInv

\* A rollback of the rename gives the row its file back.
LEMMA UndoPreview ==
  ASSUME IInv, RowInv, PreviewInv, "undo" \notin Faults, NEW h \in Handlers,
         pc[h] = "write", UndoRename(h), rows[req[h].id] # None
  PROVE  rows[req[h].id].preview = Preview(files'[RowPath(req[h].id)])
<1>1. /\ rows[req[h].id].title = from[h]
      /\ OldPath(h) \in NotePaths /\ NewPath(h) \in NotePaths
      /\ rows[req[h].id].preview = Preview(files[NewPath(h)])
  BY UpdatePaths DEF RowInv, TitleOf, PreviewInv, MovedOf, Writing, UpdatePCs
<1>2. RowPath(req[h].id) = OldPath(h)
  BY <1>1 DEF RowPath, OldPath
<1>3. CASE Renames(h)
  <2>1. files' = Moved(NewPath(h), OldPath(h))
    BY <1>3 DEF UndoRename, Fails
  <2>2. OldPath(h) # NewPath(h)
    BY <1>3 DEF OldPath, NewPath, NotePath, Renames
  <2>3. files'[OldPath(h)] = files[NewPath(h)]
    BY <1>1, <2>1, <2>2 DEF Moved, IInv, TypeOK
  <2> QED
    BY <1>1, <1>2, <2>3
<1>4. CASE ~Renames(h)
  <2>1. files' = files /\ OldPath(h) = NewPath(h)
    BY <1>4 DEF UndoRename, Renames, OldPath, NewPath
  <2> QED
    BY <1>1, <1>2, <2>1
<1> QED
  BY <1>3, <1>4

\* The calls on files keep row and preview together.
LEMMA PreviewFileStep ==
  ASSUME IInv, RowInv, ContentInv, PreviewInv, Faults \cap (Unrepaired \cup {"update"}) = {},
         NEW h \in Handlers, FileStep(h)
  PROVE  PreviewInv'
<1> DEFINE id == req[h].id
<1>1. id \in Ids /\ UNCHANGED <<req, from>> /\ \A g \in Handlers : g # h => pc'[g] = pc[g]
  BY RequestKept
<1>2. "undo" \notin Faults /\ ~Fails("update")
  BY DEF Unrepaired, Fails
<1> SUFFICES PreviewOf(id)' /\ MovedOf(h)'
  BY PreviewOthers
<1>3. ASSUME pc'[h] # "write", UNCHANGED rows, pc[h] \notin {"statNew", "update"},
             rows[id] # None => files'[RowPath(id)] \in {files[RowPath(id)], None}
      PROVE  PreviewOf(id)' /\ MovedOf(h)'
  <2>1. ASSUME NEW g \in Handlers, Written(g, id) PROVE Written(g, id)'
    BY <1>1, <1>3, <2>1 DEF Written
  <2>2. RowPath(id)' = RowPath(id)
    BY <1>1, <1>3 DEF RowPath
  <2> QED
    BY <1>1, <1>3, <2>1, <2>2 DEF PreviewInv, PreviewOf, MovedOf
<1>4. CASE pc[h] \in CreatePCs
  <2>1. rows[id] = None /\ req[h].op = "create"
    BY <1>4 DEF IInv, RequestInv, RequestOf, FreshInv, FreshOf
  <2>2. pc'[h] # "write"
    BY <1>4 DEF FileStep, OpenSentinel, FillSentinel, InsertNote, RenameFile, WriteFile,
                UpdateRow, RemoveFile, At, Goto, Return, CreatePCs, IInv, TypeOK
  <2>3. CASE UNCHANGED rows
    BY <1>1, <2>1, <2>2, <2>3 DEF PreviewOf, MovedOf
  <2>4. CASE ~UNCHANGED rows
    <3>1. /\ UNCHANGED files /\ pc[h] = "insert"
          /\ rows' = [rows EXCEPT ![id] = [title |-> req[h].title, preview |-> Preview(req[h].content)]]
      BY <1>4, <2>4 DEF FileStep, OpenSentinel, FillSentinel, InsertNote, RenameFile,
         WriteFile, UpdateRow, RemoveFile, Stores, At, CreatePCs
    <3>2. files[OldPath(h)] = req[h].content /\ from[h] = req[h].title
      BY <2>1, <3>1 DEF IInv, FileInv, FileOf, RequestInv, RequestOf
    <3>3. RowPath(id)' = OldPath(h) /\ rows'[id].preview = Preview(req[h].content)
      BY <1>1, <3>1, <3>2 DEF RowPath, OldPath, NotePath, IInv, TypeOK
    <3> QED
      BY <1>1, <2>2, <3>1, <3>2, <3>3 DEF PreviewOf, MovedOf
  <2> QED
    BY <2>3, <2>4
<1>5. CASE RemoveFile(h)
  <2>1. UNCHANGED rows /\ pc[h] = "remove" /\ pc'[h] # "write" /\ OldPath(h) \in NotePaths
    BY <1>5, FileStepPaths DEF RemoveFile, At, Goto, Return, IInv, TypeOK
  <2>2. ASSUME rows[id] # None PROVE files'[RowPath(id)] \in {files[RowPath(id)], None}
    <3>1. RowPath(id) \in NotePaths
      BY <1>1, <2>2, RowTitle
    <3> QED
      BY <1>5, <2>1, <3>1 DEF RemoveFile, IInv, TypeOK
  <2> QED
    BY <1>3, <2>1, <2>2
<1>6. CASE RenameFile(h)
  <2>1. UNCHANGED rows /\ pc[h] = "rename" /\ pc[h] \in UpdatePCs
    BY <1>6 DEF RenameFile, At, UpdatePCs
  <2>2. CASE UNCHANGED files /\ pc'[h] = "done"
    BY <1>3, <2>1, <2>2
  <2>3. CASE rows[id] = None
    BY <1>1, <2>1, <2>3 DEF PreviewOf, MovedOf
  <2>4. CASE rows[id] # None /\ files[OldPath(h)] # None /\ files' = Moved(OldPath(h), NewPath(h))
    <3>1. RowPath(id) = OldPath(h) /\ rows[id].preview = Preview(files[OldPath(h)])
      BY <2>1, <2>4, PreviewKnown
    <3>2. OldPath(h) # NewPath(h)
      BY <2>1 DEF IInv, RequestInv, RequestOf, Renames, OldPath, NewPath, NotePath
    <3>3. OldPath(h) \in NotePaths /\ NewPath(h) \in NotePaths
      BY <2>1, UpdatePaths
    <3>4. files'[OldPath(h)] = None /\ files'[NewPath(h)] = files[OldPath(h)]
      BY <2>4, <3>2, <3>3 DEF Moved, IInv, TypeOK
    <3>5. RowPath(id)' = RowPath(id) /\ NewPath(h)' = NewPath(h)
      BY <1>1, <2>1 DEF RowPath, NewPath
    <3> QED
      BY <1>1, <2>1, <3>1, <3>4, <3>5 DEF PreviewOf, MovedOf
  <2> QED
    BY <1>6, <2>2, <2>3, <2>4 DEF RenameFile, Return, IInv, TypeOK
<1>7. CASE WriteFile(h)
  <2>1. UNCHANGED rows /\ pc[h] = "write" /\ pc'[h] # "write"
    BY <1>7 DEF WriteFile, At, Goto, Return, IInv, TypeOK
  <2>2. MovedOf(h)'
    BY <2>1 DEF MovedOf
  <2>3. CASE pc'[h] = "statNew"
    <3>1. Written(h, id)'
      BY <1>1, <2>3 DEF Written
    <3> QED
      BY <2>2, <3>1 DEF PreviewOf
  <2>4. CASE rows[id] = None
    BY <1>1, <2>1, <2>2, <2>4 DEF PreviewOf
  <2>5. CASE rows[id] # None /\ UndoRename(h)
    <3>1. rows[id].preview = Preview(files'[RowPath(id)])
      BY <1>2, <2>1, <2>5, UndoPreview
    <3>2. RowPath(id)' = RowPath(id)
      BY <1>1, <2>1 DEF RowPath
    <3> QED
      BY <1>1, <2>1, <2>2, <3>1, <3>2 DEF PreviewOf
  <2> QED
    BY <1>7, <2>3, <2>4, <2>5 DEF WriteFile, Goto, IInv, TypeOK
<1>8. CASE UpdateRow(h)
  <2>1. pc[h] = "update" /\ pc'[h] = "done" /\ UNCHANGED files /\ files[NewPath(h)] = req[h].content
    BY <1>2, <1>8 DEF UpdateRow, At, Return, Stores, ContentInv, ContentOf, IInv, TypeOK
  <2>2. MovedOf(h)'
    BY <2>1 DEF MovedOf
  <2>3. CASE rows' = rows /\ rows[id] = None
    BY <1>1, <2>2, <2>3 DEF PreviewOf
  <2>4. CASE rows' = [rows EXCEPT ![id] = [title |-> req[h].title, preview |-> Preview(req[h].content)]]
    <3>1. RowPath(id)' = NewPath(h) /\ rows'[id].preview = Preview(req[h].content)
      BY <1>1, <2>4 DEF RowPath, NewPath, NotePath, IInv, TypeOK
    <3> QED
      BY <1>1, <2>1, <2>2, <3>1 DEF PreviewOf
  <2> QED
    BY <1>2, <1>8, <2>3, <2>4 DEF UpdateRow, Stores
<1> QED
  BY <1>4, <1>5, <1>6, <1>7, <1>8
  DEF FileStep, OpenSentinel, FillSentinel, InsertNote, At, CreatePCs

\* So does every step.
LEMMA PreviewStep ==
  ASSUME IInv, RowInv, ContentInv, PreviewInv, Faults \cap (Unrepaired \cup {"update"}) = {},
         [Next]_vars
  PROVE  PreviewInv'
<1>1. CASE UNCHANGED vars
  BY <1>1 DEF vars, PreviewInv, PreviewOf, MovedOf, Written, RowPath, NewPath
<1>2. CASE Crash
  BY <1>2 DEF Crash, Fails, Unrepaired
<1>3. ASSUME NEW h \in Handlers, Request(h) \/ Step(h), FileStep(h) PROVE PreviewInv'
  BY <1>3, PreviewFileStep
<1>4. ASSUME NEW h \in Handlers, DeleteRow(h) PROVE PreviewInv'
  <2>1. rows'[req[h].id] = None /\ req' = req /\ req[h].id \in Ids
    BY <1>4, RequestKept DEF DeleteRow, Fails, Unrepaired, IInv, TypeOK
  <2>2. PreviewOf(req[h].id)' /\ MovedOf(h)'
    BY <2>1 DEF PreviewOf, MovedOf
  <2> QED
    BY <1>4, <2>2, PreviewOthers
<1>5. ASSUME NEW h \in Handlers, Request(h) \/ Step(h), ~FileStep(h), ~DeleteRow(h)
      PROVE  PreviewInv'
  <2>1. UNCHANGED <<rows, files>>
    BY <1>5, StoresUnchanged
  <2>2. ASSUME NEW id \in Ids, NEW g \in Handlers, Written(g, id) PROVE Written(g, id)'
    <3>1. CASE g # h
      BY <1>5, <2>2, <3>1, OthersKept DEF Written, IInv
    <3>2. CASE g = h
      <4>1. StatNew(h)
        BY <1>5, <2>2, <3>2 DEF Written, Request, Step, FileStep, BeginCreate, BeginUpdate,
           BeginDelete, BeginGet, BeginList, Begin, Refuse, Idle, LockNext, UnlockNext, Respond,
           StatCreated, QueryRow, StatOld, UpdateRow, ReadFile, ListQuery, ListRead, At
      <4>2. pc'[h] = "update" /\ req' = req
        BY <4>1 DEF StatNew, Goto, Fails, Unrepaired, Call, IInv, TypeOK
      <4> QED
        BY <2>2, <3>2, <4>2 DEF Written
    <3> QED
      BY <3>1, <3>2
  <2>3. ASSUME NEW id \in Ids PROVE PreviewOf(id)'
    <3>1. PreviewOf(id)
      BY DEF PreviewInv
    <3> QED
      BY <2>1, <2>2, <3>1 DEF PreviewOf, RowPath
  <2>4. ASSUME NEW g \in Handlers, g # h PROVE MovedOf(g)'
    BY <1>5, <2>1, <2>4, OthersKept DEF PreviewInv, MovedOf, NewPath, IInv
  <2>5. ASSUME pc'[h] = "write", rows'[req'[h].id] # None PROVE MovedOf(h)'
    <3>1. StatOld(h) /\ files[OldPath(h)] # None /\ ~Renames(h)
      BY <1>5, <2>5, NextCall
    <3>2. pc[h] = "statOld" /\ req' = req /\ NewPath(h) = OldPath(h)
      BY <3>1 DEF StatOld, At, Call, Renames, OldPath, NewPath
    <3>3. rows[req[h].id].preview = Preview(files[OldPath(h)])
      BY <2>1, <2>5, <3>1, <3>2, PreviewKnown
    <3> QED
      BY <2>1, <3>2, <3>3 DEF MovedOf, NewPath
  <2>6. MovedOf(h)'
    BY <2>5 DEF MovedOf
  <2>7. ASSUME NEW g \in Handlers PROVE MovedOf(g)'
    BY <2>4, <2>6
  <2> QED
    BY <2>3, <2>7 DEF PreviewInv
<1> QED
  BY <1>1, <1>2, <1>3, <1>4, <1>5 DEF Next, Step

\* The preview in a row is that of the file the row names when nobody has its
\* path locked: whatever UpdateNotes are interleaved, row and file come from
\* the same request.  Faults are those the handlers roll back; a failed UPDATE
\* is not one, for the rollback leaves the new content in the file.
THEOREM PreviewMatchesHolds ==
  ASSUME Faults \cap (Unrepaired \cup {"update"}) = {}
  PROVE  Spec => []PreviewMatches
<1> DEFINE PInv == IInv /\ RowInv /\ ContentInv /\ PreviewInv
<1>1. Init => PInv
  BY InitInv DEF Init, RowInv, RowOf, TitleOf, Writing, ContentInv, ContentOf, PreviewInv,
                 PreviewOf, MovedOf
<1>2. PInv /\ [Next]_vars => PInv'
  <2>1. Faults \cap Unrepaired = {}
    OBVIOUS
  <2>2. IInv /\ [Next]_vars => IInv'
    BY TypeOKStep, RequestStep, LockStep, FreshStep, FileInvStep, OneFileStep, SentinelStep DEF IInv
  <2> QED
    BY <2>1, <2>2, RowStep, ContentStep, PreviewStep
<1>3. PInv => PreviewMatches
  <2> SUFFICES ASSUME PInv, NEW id \in Ids, rows[id] # None, owner[RowPath(id)] = None
               PROVE  files[RowPath(id)] # None /\ rows[id].preview = Preview(files[RowPath(id)])
    BY DEF PreviewMatches
  <2>1. ASSUME NEW h \in Handlers, pc[h] \in Writing, req[h].id = id PROVE FALSE
    <3>1. owner[OldPath(h)] = h /\ from[h] = rows[id].title
      BY <2>1, UpdatePaths DEF Writing, UpdatePCs, RowInv, TitleOf
    <3> QED
      BY <2>1, <3>1, HandlersAssumption DEF OldPath, RowPath
  <2>2. ASSUME NEW h \in Handlers, MidDelete(h, id) PROVE FALSE
    <3>1. owner[OldPath(h)] = h
      BY <2>2 DEF MidDelete, Wanted, IInv, LockInv, LockOf, LockedPCs, DeletePCs, RequestInv, RequestOf
    <3> QED
      BY <2>2, <3>1, HandlersAssumption DEF MidDelete, OldPath, RowPath
  <2>3. files[RowPath(id)] # None
    BY <2>1, <2>2 DEF RowInv, RowOf, MidRename
  <2>4. ~\E h \in Handlers : Written(h, id)
    BY <2>1 DEF Written, Writing
  <2> QED
    BY <2>3, <2>4 DEF PreviewInv, PreviewOf
<1> QED
  BY <1>1, <1>2, <1>3, PTL DEF Spec

-----------------------------------------------------------------------------
(***************************************************************************)
(* Acknowledged requests.  From here on notes keep their title: while a    *)
(* rename has one of its two locks, a handler with the other title may     *)
(* delete the row.                                                         *)
(***************************************************************************)
\* A handler has no outcome before it returns; the list calls are of ListNotes.
ReplyOf(h) ==
    /\ pc[h] # "done" => reply[h] = None
    /\ pc[h] \in {"listQuery", "listRead"} => req[h].op = "list"

ReplyInv == \A h \in Handlers : ReplyOf(h)

LEMMA ReplyStep == IInv /\ ReplyInv /\ [Next]_vars => ReplyInv'
<1> SUFFICES ASSUME IInv, ReplyInv, [Next]_vars PROVE ReplyInv'
  OBVIOUS
<1>1. CASE UNCHANGED vars
  BY <1>1 DEF vars, ReplyInv, ReplyOf
<1>2. CASE Crash
  BY <1>2 DEF Crash, ReplyInv, ReplyOf
<1>3. ASSUME NEW h \in Handlers, Request(h) \/ Step(h) PROVE ReplyInv'
  <2>1. ASSUME NEW g \in Handlers, g # h PROVE ReplyOf(g)'
    BY <1>3, <2>1, OthersKept DEF ReplyInv, ReplyOf, IInv
  <2>2. ReplyOf(h)'
    <3> USE DEF IInv, TypeOK, At, Goto, Return, Call, ReplyInv, ReplyOf
    <3>1. CASE Request(h)
      BY <3>1 DEF Request, BeginCreate, BeginUpdate, BeginDelete, BeginGet, BeginList, Begin,
                  Refuse, Idle, ById
    <3>2. CASE FileStep(h)
      BY <3>2 DEF FileStep, OpenSentinel, FillSentinel, InsertNote, RenameFile, WriteFile,
                  UpdateRow, RemoveFile
    <3>3. CASE LockNext(h)
      <4>1. req[h].op \in {"create", "update", "delete"}
        BY <3>3 DEF LockNext, RequestInv, RequestOf
      <4>2. AfterLock(req[h].op) \in {"sentinel", "statOld", "remove"}
        BY <4>1 DEF AfterLock
      <4> QED
        BY <3>3, <4>2 DEF LockNext
    <3>4. CASE UnlockNext(h) \/ Respond(h) \/ StatCreated(h) \/ QueryRow(h)
      BY <3>4 DEF UnlockNext, Respond, StatCreated, QueryRow
    <3>5. CASE StatOld(h) \/ StatNew(h) \/ DeleteRow(h)
      BY <3>5 DEF StatOld, StatNew, DeleteRow
    <3>6. CASE ReadFile(h) \/ ListQuery(h) \/ ListRead(h)
      BY <3>6 DEF ReadFile, ListQuery, ListRead
    <3> QED
      BY <1>3, <3>1, <3>2, <3>3, <3>4, <3>5, <3>6 DEF Step, FileStep
  <2> QED
    BY <2>1, <2>2 DEF ReplyInv
<1> QED
  BY <1>1, <1>2, <1>3 DEF Next

\* With one title a note has one path.
LEMMA OnePath ==
  ASSUME NumTitles = 1, NEW x \in NotePaths, NEW y \in NotePaths, x[2] = y[2]
  PROVE  x = y
<1>1. \A t \in Titles : t = 1
  BY DEF Titles
<1> QED
  BY <1>1 DEF NotePaths

\* A handler that changes a store has the path of its note locked.
LEMMA ChangerOwns ==
  ASSUME IInv, NumTitles = 1, NEW h \in Handlers, FileStep(h) \/ DeleteRow(h),
         NEW x \in NotePaths, x[2] = req[h].id
  PROVE  owner[x] = h
<1>1. OldPath(h) \in NotePaths /\ OldPath(h) \in Wanted(h) /\ pc[h] \in LockedPCs
  <2>1. CASE FileStep(h)
    BY <2>1, FileStepPaths
  <2>2. CASE DeleteRow(h)
    <3>1. pc[h] \in LockedPCs /\ req[h].op = "delete" /\ from[h] \in Titles
      BY <2>2 DEF DeleteRow, At, LockedPCs, DeletePCs, IInv, RequestInv, RequestOf
    <3> QED
      BY <3>1, WantedPaths DEF Wanted, IInv
  <2> QED
    BY <2>1, <2>2
<1>2. x = OldPath(h)
  BY <1>1, OnePath DEF OldPath, NotePath
<1> QED
  BY <1>1, <1>2 DEF IInv, LockInv, LockOf

\* No step takes back what has been acknowledged.
LEMMA AckedStep ==
  ASSUME NumTitles = 1, IInv, ContentInv, ReplyInv, AckedIsStored, [Next]_vars
  PROVE  AckedIsStored'
<1>1. CASE UNCHANGED vars
  BY <1>1 DEF vars, AckedIsStored, NewPath
<1>2. CASE Crash
  BY <1>2, HandlersAssumption, RepliesAssumption DEF Crash, AckedIsStored, Replies
<1>3. ASSUME NEW h \in Handlers, Request(h) \/ Step(h), IInv', NEW g \in Handlers,
             req'[g].op \in {"create", "update"}, reply'[g] = "ok", owner'[NewPath(g)'] = g
      PROVE  /\ rows'[req'[g].id] = [title |-> req'[g].title, preview |-> Preview(req'[g].content)]
             /\ files'[NewPath(g)'] = req'[g].content
  <2>1. ASSUME UNCHANGED <<rows, files>>, req'[g] = req[g], reply'[g] = reply[g], ~LockNext(h) \/ g # h
        PROVE  /\ rows'[req'[g].id] = [title |-> req'[g].title, preview |-> Preview(req'[g].content)]
               /\ files'[NewPath(g)'] = req'[g].content
    <3>1. NewPath(g)' = NewPath(g) /\ NewPath(g) \in NotePaths
      BY <1>3, <2>1 DEF NewPath, NotePath, NotePaths, IInv, TypeOK, RequestInv, RequestOf
    <3>2. owner[NewPath(g)] = g
      BY <1>3, <2>1, <3>1, OwnerKept
    <3> QED
      BY <1>3, <2>1, <3>1, <3>2 DEF AckedIsStored
  <2>2. CASE g # h
    <3>1. req'[g] = req[g] /\ reply'[g] = reply[g]
      BY <1>3, <2>2, OthersKept DEF IInv
    <3>2. NewPath(g)' = NewPath(g) /\ NewPath(g) \in NotePaths /\ req[g].id \in Ids
          /\ req[g].title \in Titles
      BY <1>3, <3>1 DEF NewPath, NotePath, NotePaths, IInv, TypeOK, RequestInv, RequestOf
    <3>3. owner[NewPath(g)] = g
      BY <1>3, <2>2, <3>2, OwnerKept
    <3>4. CASE FileStep(h) \/ DeleteRow(h)
      <4>1. req[g].id # req[h].id
        BY <2>2, <3>2, <3>3, <3>4, ChangerOwns DEF NewPath, NotePath
      <4>2. rows'[req[g].id] = rows[req[g].id] /\ files'[NewPath(g)] = files[NewPath(g)]
        BY <3>2, <3>4, <4>1, OtherNotesKept DEF NewPath
      <4> QED
        BY <1>3, <3>1, <3>2, <3>3, <4>2 DEF AckedIsStored
    <3>5. CASE ~FileStep(h) /\ ~DeleteRow(h)
      BY <1>3, <2>1, <2>2, <3>1, <3>5, StoresUnchanged
    <3> QED
      BY <3>4, <3>5
  <2>3. CASE g = h /\ UnlockNext(h)
    BY <2>1, <2>3 DEF UnlockNext, LockNext, At, Stores, Call
  <2>4. CASE g = h /\ (InsertNote(h) \/ UpdateRow(h))
    <3>1. /\ rows' = [rows EXCEPT ![req[h].id] =
                        [title |-> req[h].title, preview |-> Preview(req[h].content)]]
          /\ UNCHANGED files /\ UNCHANGED req
      BY <1>3, <2>4 DEF InsertNote, UpdateRow, Return, Call, IInv, TypeOK
    <3>2. req[h].id \in Ids
      BY <2>4, FileStepPaths DEF FileStep
    <3>3. files[NewPath(h)] = req[h].content
      BY <2>4 DEF InsertNote, UpdateRow, At, ContentInv, ContentOf, IInv, FileInv, FileOf,
                  RequestInv, RequestOf, CreatePCs, OldPath, NewPath
    <3> QED
      BY <2>4, <3>1, <3>2, <3>3 DEF NewPath, IInv, TypeOK
  <2>5. CASE g = h /\ ~UnlockNext(h) /\ ~InsertNote(h) /\ ~UpdateRow(h)
    <3> USE DEF IInv, TypeOK, At, Goto, Return, Call, ReplyInv, ReplyOf, Replies
    <3>1. CASE Request(h)
      BY <1>3, <2>5, <3>1, RepliesAssumption
      DEF Request, BeginCreate, BeginUpdate, BeginDelete, BeginGet, BeginList, Begin, Refuse, Idle
    <3>2. CASE FileStep(h)
      BY <1>3, <2>5, <3>2, RepliesAssumption
      DEF FileStep, OpenSentinel, FillSentinel, RenameFile, WriteFile, RemoveFile
    <3>3. CASE Respond(h) \/ StatCreated(h) \/ QueryRow(h) \/ StatOld(h) \/ StatNew(h)
      BY <1>3, <2>5, <3>3, RepliesAssumption DEF Respond, StatCreated, QueryRow, StatOld, StatNew
    <3>4. CASE LockNext(h)
      <4>1. pc[h] # "done" /\ UNCHANGED reply
        BY <3>4 DEF LockNext
      <4> QED
        BY <1>3, <2>5, <4>1, RepliesAssumption
    <3>5. CASE DeleteRow(h) \/ ReadFile(h) \/ ListQuery(h) \/ ListRead(h)
      BY <1>3, <2>5, <3>5, RepliesAssumption
      DEF DeleteRow, ReadFile, ListQuery, ListRead, RequestInv, RequestOf, DeletePCs
    <3> QED
      BY <1>3, <2>5, <3>1, <3>2, <3>3, <3>4, <3>5 DEF Step, FileStep
  <2> QED
    BY <2>2, <2>3, <2>4, <2>5
<1>4. IInv'
  BY TypeOKStep, RequestStep, LockStep, FreshStep, FileInvStep, OneFileStep, SentinelStep DEF IInv
<1> QED
  BY <1>1, <1>2, <1>3, <1>4 DEF Next, AckedIsStored

\* What CreateNote and UpdateNote have acknowledged is in the row and in the
\* file while the handler has the path locked, for all faults and crashes.
THEOREM AckedIsStoredHolds ==
  ASSUME NumTitles = 1
  PROVE  Spec => []AckedIsStored
<1> DEFINE AInv == IInv /\ ContentInv /\ ReplyInv /\ AckedIsStored
<1>1. Init => AInv
  BY InitInv, RepliesAssumption
  DEF Init, ContentInv, ContentOf, ReplyInv, ReplyOf, AckedIsStored, Replies
<1>2. AInv /\ [Next]_vars => AInv'
  <2>1. IInv /\ [Next]_vars => IInv'
    BY TypeOKStep, RequestStep, LockStep, FreshStep, FileInvStep, OneFileStep, SentinelStep DEF IInv
  <2> QED
    BY <2>1, ContentStep, ReplyStep, AckedStep
<1>3. AInv => AckedIsStored
  OBVIOUS
<1> QED
  BY <1>1, <1>2, <1>3, PTL DEF Spec

-----------------------------------------------------------------------------
(***************************************************************************)
(* Orphan files.                                                           *)
(***************************************************************************)
\* CreateNote has made the file of the note and not its row.
Creating(h, id) == req[h].id = id /\ pc[h] \in {"fill", "statCreated", "insert"}

\* A file without a row is one that CreateNote is working on.
OrphanOf(id) ==
    (\E t \in Titles : files[NotePath(t, id)] # None) /\ rows[id] = None =>
       \E h \in Handlers : Creating(h, id)

\* DeleteNote removes the row only when the file is gone.
RemovedOf(h) == pc[h] = "delete" => files[OldPath(h)] = None

RemovedInv == \A h \in Handlers : RemovedOf(h)

OrphanInv == (\A id \in Ids : OrphanOf(id)) /\ RemovedInv

\* The faults after which CreateNote leaves a file behind.
Leaving == {"swap", "statCreated", "undo", "crash"}

\* What DeleteNote has removed stays away until it has deleted the row.
LEMMA RemovedStep ==
  ASSUME IInv, RemovedInv, NEW h \in Handlers, Request(h) \/ Step(h), NEW g \in Handlers
  PROVE  RemovedOf(g)'
<1> SUFFICES ASSUME pc'[g] = "delete" PROVE files'[OldPath(g)'] = None
  BY DEF RemovedOf
<1>1. CASE g # h
  <2>1. pc[g] = "delete" /\ OldPath(g)' = OldPath(g)
    BY <1>1, OthersKept DEF OldPath, IInv
  <2>2. pc[g] \in LockedPCs /\ OldPath(g) \in Wanted(g) /\ files[OldPath(g)] = None
    BY <2>1 DEF LockedPCs, DeletePCs, Wanted, RemovedInv, RemovedOf
  <2>3. files'[OldPath(g)] = files[OldPath(g)]
    <3>1. CASE FileStep(h)
      BY <1>1, <2>2, <3>1, FileStepEffect
    <3>2. CASE ~FileStep(h)
      BY <3>2, StoresUnchanged DEF DeleteRow
    <3> QED
      BY <3>1, <3>2
  <2> QED
    BY <2>1, <2>2, <2>3
<1>2. CASE g = h /\ FileStep(h)
  <2>1. RemoveFile(h) /\ files' = [files EXCEPT ![OldPath(h)] = None]
    BY <1>2 DEF FileStep, OpenSentinel, FillSentinel, InsertNote, RenameFile, WriteFile,
                UpdateRow, RemoveFile, Goto, Return, IInv, TypeOK
  <2>2. OldPath(h) \in NotePaths /\ OldPath(h)' = OldPath(h)
    BY <1>2, FileStepPaths, FileStepEffect DEF OldPath
  <2> QED
    BY <1>2, <2>1, <2>2 DEF IInv, TypeOK
<1>3. CASE g = h /\ ~FileStep(h)
  BY <1>3, NextCall
<1> QED
  BY <1>1, <1>2, <1>3

\* A call on the file or the row of a note leaves no file without a row.
LEMMA OrphanFileStep ==
  ASSUME NumTitles = 1, IInv, OrphanInv, Faults \cap Leaving = {},
         NEW h \in Handlers, FileStep(h) \/ DeleteRow(h)
  PROVE  OrphanOf(req[h].id)'
<1> DEFINE id == req[h].id
<1>1. id \in Ids /\ UNCHANGED <<req, from>> /\ \A g \in Handlers : g # h => pc'[g] = pc[g]
  BY RequestKept
<1>2. OldPath(h) \in NotePaths /\ OldPath(h) = NotePath(1, id)
  <2>1. from[h] \in Titles
    BY DEF FileStep, OpenSentinel, FillSentinel, InsertNote, RenameFile, WriteFile, UpdateRow,
           RemoveFile, DeleteRow, At, IInv, RequestInv, RequestOf, LockedPCs, CreatePCs,
           UpdatePCs, DeletePCs
  <2>2. from[h] = 1
    BY <2>1 DEF Titles
  <2> QED
    BY <1>1, <2>1, <2>2 DEF OldPath, NotePath, NotePaths
<1>3. Titles = {1}
  BY DEF Titles
<1>4. ASSUME files'[OldPath(h)] = None \/ rows'[id] # None PROVE OrphanOf(id)'
  BY <1>1, <1>2, <1>3, <1>4 DEF OrphanOf
<1>5. ASSUME Creating(h, id)' PROVE OrphanOf(id)'
  BY <1>1, <1>5 DEF OrphanOf
<1>6. ASSUME UNCHANGED rows, files[OldPath(h)] = None => files'[OldPath(h)] = None,
             pc[h] \notin {"fill", "statCreated", "insert"}
      PROVE  OrphanOf(id)'
  <2>1. ASSUME NEW g \in Handlers, Creating(g, id) PROVE Creating(g, id)'
    BY <1>1, <1>6, <2>1 DEF Creating
  <2> QED
    BY <1>1, <1>2, <1>3, <1>6, <2>1 DEF OrphanInv, OrphanOf
<1>7. CASE OpenSentinel(h)
  <2>1. files[OldPath(h)] = None
    BY <1>2, <1>3, <1>7 DEF OpenSentinel, At, IInv, RequestInv, RequestOf, CreatePCs, FreshInv, FreshOf
  <2>2. CASE UNCHANGED files
    BY <1>4, <2>1, <2>2
  <2>3. CASE pc'[h] = "fill"
    BY <1>1, <1>5, <2>3 DEF Creating
  <2> QED
    BY <1>7, <2>1, <2>2, <2>3 DEF OpenSentinel, Goto, IInv, TypeOK
<1>8. CASE FillSentinel(h)
  <2>1. CASE pc'[h] = "statCreated"
    BY <1>1, <1>5, <2>1 DEF Creating
  <2>2. CASE files' = [files EXCEPT ![OldPath(h)] = None]
    BY <1>2, <1>4, <2>2 DEF IInv, TypeOK
  <2> QED
    BY <1>8, <2>1, <2>2 DEF FillSentinel, Goto, Fails, Leaving, IInv, TypeOK
<1>9. CASE InsertNote(h)
  <2>1. CASE rows' = [rows EXCEPT ![id] = [title |-> req[h].title, preview |-> Preview(req[h].content)]]
    <3>1. req[h].title \in Titles /\ req[h].content \in Contents
      BY <1>9 DEF InsertNote, At, IInv, RequestInv, RequestOf, CreatePCs
    <3>2. rows'[id] = [title |-> req[h].title, preview |-> Preview(req[h].content)]
      BY <1>1, <2>1 DEF IInv, TypeOK
    <3> QED
      BY <1>4, <3>1, <3>2, RowsAssumption
  <2>2. CASE files' = [files EXCEPT ![OldPath(h)] = None]
    BY <1>2, <1>4, <2>2 DEF IInv, TypeOK
  <2> QED
    BY <1>9, <2>1, <2>2 DEF InsertNote, Fails, Leaving
<1>10. CASE RenameFile(h)
  <2>1. pc[h] = "rename" /\ pc[h] \in UpdatePCs
    BY <1>10 DEF RenameFile, At, UpdatePCs
  <2>2. from[h] \in Titles /\ req[h].title \in Titles /\ from[h] # req[h].title
    BY <2>1, UpdatePaths DEF IInv, RequestInv, RequestOf, Renames
  <2> QED
    BY <1>3, <2>2
<1>11. CASE WriteFile(h) \/ UpdateRow(h)
  <2>1. pc[h] \in {"write", "update"} /\ pc[h] \in UpdatePCs
    BY <1>11 DEF WriteFile, UpdateRow, At, UpdatePCs
  <2>2. from[h] = req[h].title
    BY <1>3, <2>1, UpdatePaths
  <2>3. ~Renames(h) /\ NewPath(h) = OldPath(h) /\ files[OldPath(h)] # None
    BY <2>1, <2>2 DEF Renames, OldPath, NewPath, IInv, FileInv, FileOf
  <2>4. CASE UNCHANGED rows
    BY <1>6, <2>1, <2>3, <2>4
  <2>5. CASE rows' = [rows EXCEPT ![id] = [title |-> req[h].title, preview |-> Preview(req[h].content)]]
    <3>1. req[h].title \in Titles /\ req[h].content \in Contents
      BY <2>1, UpdatePaths
    <3>2. rows'[id] = [title |-> req[h].title, preview |-> Preview(req[h].content)]
      BY <1>1, <2>5 DEF IInv, TypeOK
    <3> QED
      BY <1>4, <3>1, <3>2, RowsAssumption
  <2> QED
    BY <1>11, <2>4, <2>5 DEF WriteFile, UpdateRow, Stores
<1>12. CASE RemoveFile(h)
  <2>1. pc[h] = "remove" /\ UNCHANGED rows
    BY <1>12 DEF RemoveFile, At
  <2>2. files[OldPath(h)] = None => files'[OldPath(h)] = None
    BY <1>2, <1>12 DEF RemoveFile, IInv, TypeOK
  <2> QED
    BY <1>6, <2>1, <2>2
<1>13. CASE DeleteRow(h)
  BY <1>4, <1>13 DEF DeleteRow, At, OrphanInv, RemovedInv, RemovedOf
<1> QED
  BY <1>7, <1>8, <1>9, <1>10, <1>11, <1>12, <1>13 DEF FileStep

LEMMA OrphanStep ==
  ASSUME NumTitles = 1, IInv, OrphanInv, Faults \cap Leaving = {}, [Next]_vars
  PROVE  OrphanInv'
<1>1. CASE UNCHANGED vars
  BY <1>1 DEF vars, OrphanInv, OrphanOf, RemovedInv, RemovedOf, Creating, OldPath
<1>2. CASE Crash
  BY <1>2 DEF Crash, Fails, Leaving
<1>3. ASSUME NEW h \in Handlers, Request(h) \/ Step(h), NEW id \in Ids PROVE OrphanOf(id)'
  <2>1. CASE FileStep(h) \/ DeleteRow(h)
    <3>1. CASE id # req[h].id
      <4>1. rows'[id] = rows[id] /\ \A t \in Titles : files'[NotePath(t, id)] = files[NotePath(t, id)]
        BY <2>1, <3>1, OtherNotesKept
      <4>2. ASSUME NEW g \in Handlers, Creating(g, id) PROVE Creating(g, id)'
        BY <2>1, <3>1, <4>2, RequestKept DEF Creating
      <4> QED
        BY <4>1, <4>2 DEF OrphanInv, OrphanOf
    <3>2. CASE id = req[h].id
      <4>1. OrphanOf(req[h].id)' /\ req' = req
        BY <2>1, OrphanFileStep, RequestKept
      <4> QED
        BY <3>2, <4>1 DEF OrphanOf, Creating
    <3> QED
      BY <3>1, <3>2
  <2>2. CASE ~FileStep(h) /\ ~DeleteRow(h)
    <3>1. UNCHANGED <<rows, files>>
      BY <1>3, <2>2, StoresUnchanged
    <3>2. ASSUME NEW g \in Handlers, Creating(g, id) PROVE Creating(g, id)'
      <4>1. CASE g # h
        BY <1>3, <3>2, <4>1, OthersKept DEF Creating, IInv
      <4>2. CASE g = h
        <5>1. StatCreated(h)
          BY <1>3, <2>2, <3>2, <4>2 DEF Creating, Request, Step, FileStep, BeginCreate,
             BeginUpdate, BeginDelete, BeginGet, BeginList, Begin, Refuse, Idle, LockNext,
             UnlockNext, Respond, QueryRow, StatOld, StatNew, ReadFile, ListQuery, ListRead, At
        <5>2. pc'[h] = "insert" /\ req' = req
          BY <5>1 DEF StatCreated, Goto, Fails, Leaving, Call, IInv, TypeOK
        <5> QED
          BY <3>2, <4>2, <5>2 DEF Creating
      <4> QED
        BY <4>1, <4>2
    <3> QED
      BY <3>1, <3>2 DEF OrphanInv, OrphanOf
  <2> QED
    BY <2>1, <2>2
<1>4. ASSUME NEW h \in Handlers, Request(h) \/ Step(h), NEW g \in Handlers PROVE RemovedOf(g)'
  BY <1>4, RemovedStep DEF OrphanInv
<1>5. CASE \E h \in Handlers : Request(h) \/ Step(h)
  BY <1>3, <1>4, <1>5 DEF OrphanInv, RemovedInv
<1> QED
  BY <1>1, <1>2, <1>5 DEF Next

\* A file without a row does not outlive the handlers that work on its note,
\* when no fault stops CreateNote's cleanup and notes keep their title.
THEOREM NoOrphanFileHolds ==
  ASSUME NumTitles = 1, Faults \cap Leaving = {}
  PROVE  Spec => []NoOrphanFile
<1>1. Init => OrphanInv
  <2> SUFFICES ASSUME Init PROVE OrphanInv
    OBVIOUS
  <2>1. ASSUME NEW id \in Ids PROVE OrphanOf(id)
    BY DEF Init, OrphanOf, NotePath, NotePaths
  <2>2. ASSUME NEW h \in Handlers PROVE RemovedOf(h)
    BY DEF Init, RemovedOf
  <2> QED
    BY <2>1, <2>2 DEF OrphanInv, RemovedInv
<1>2. IInv /\ OrphanInv /\ [Next]_vars => OrphanInv'
  BY OrphanStep
<1>3. IInv /\ OrphanInv => NoOrphanFile
  <2> SUFFICES ASSUME OrphanInv, NEW x \in NotePaths, files[x] # None, Quiet(x[2])
               PROVE  rows[x[2]] # None
    BY DEF NoOrphanFile
  <2>1. x[1] \in Titles /\ x[2] \in Ids /\ x = NotePath(x[1], x[2])
    BY DEF NotePaths, NotePath
  <2>2. \E t \in Titles : files[NotePath(t, x[2])] # None
    BY <2>1
  <2> QED
    BY <2>1, <2>2 DEF OrphanInv, OrphanOf, Creating, Quiet
<1> QED
  BY <1>1, <1>2, <1>3, Invariance, PTL DEF Spec

-----------------------------------------------------------------------------
(***************************************************************************)
(* Missed notes.                                                           *)
(***************************************************************************)
\* ListNotes collects no note whose row it has still to look at.
ListOf(h) ==
    /\ pc[h] \notin {"listRead", "done"} => listed[h] = {}
    /\ \A x \in todo[h] : x[2] \notin listed[h]

ListInv == \A h \in Handlers : ListOf(h)

LEMMA ListStep == NumTitles = 1 /\ IInv /\ ListInv /\ [Next]_vars => ListInv'
<1> SUFFICES ASSUME NumTitles = 1, IInv, ListInv, [Next]_vars PROVE ListInv'
  OBVIOUS
<1>1. CASE UNCHANGED vars
  BY <1>1 DEF vars, ListInv, ListOf
<1>2. CASE Crash
  BY <1>2 DEF Crash, ListInv, ListOf
<1>3. ASSUME NEW h \in Handlers, Request(h) \/ Step(h) PROVE ListInv'
  <2>1. ASSUME NEW g \in Handlers, g # h PROVE ListOf(g)'
    BY <1>3, <2>1, OthersKept DEF ListInv, ListOf, IInv
  <2>2. ListOf(h)'
    <3> USE DEF IInv, TypeOK, At, Goto, Return, Call, ListInv, ListOf
    <3>1. CASE ListQuery(h)
      BY <3>1 DEF ListQuery
    <3>2. CASE ListRead(h)
      <4>1. ASSUME NEW x \in todo[h], todo'[h] = todo[h] \ {x}, listed'[h] \subseteq listed[h] \cup {x[2]},
                   NEW y \in todo'[h]
            PROVE  y[2] \notin listed'[h]
        <5>1. x \in NotePaths /\ y \in NotePaths /\ x # y /\ y \in todo[h]
          BY <4>1
        <5>2. y[2] # x[2]
          BY <5>1, OnePath
        <5> QED
          BY <4>1, <5>1, <5>2
      <4>2. CASE UNCHANGED <<todo, listed>>
        BY <3>2, <4>2 DEF ListRead
      <4>3. CASE UNCHANGED pc /\ \E x \in todo[h] : todo'[h] = todo[h] \ {x} /\
                                    listed'[h] \subseteq listed[h] \cup {x[2]}
        <5>1. \A y \in todo'[h] : y[2] \notin listed'[h]
          BY <4>1, <4>3
        <5>2. pc'[h] = "listRead"
          BY <3>2, <4>3 DEF ListRead
        <5> QED
          BY <5>1, <5>2
      <4> QED
        BY <3>2, <4>2, <4>3 DEF ListRead
    <3>3. CASE Respond(h)
      BY <3>3 DEF Respond
    <3>4. CASE UNCHANGED <<todo, listed>> /\ (pc[h] \in {"listRead", "done"} => pc'[h] = "done")
      BY <3>4
    <3>5. CASE Request(h)
      BY <3>4, <3>5 DEF Request, BeginCreate, BeginUpdate, BeginDelete, BeginGet, BeginList, Begin,
                        Refuse, Idle
    <3>6. CASE FileStep(h)
      BY <3>4, <3>6 DEF FileStep, OpenSentinel, FillSentinel, InsertNote, RenameFile, WriteFile,
                        UpdateRow, RemoveFile
    <3>7. CASE LockNext(h) \/ UnlockNext(h) \/ StatCreated(h) \/ QueryRow(h)
      BY <3>4, <3>7 DEF LockNext, UnlockNext, StatCreated, QueryRow
    <3>8. CASE StatOld(h) \/ StatNew(h) \/ DeleteRow(h) \/ ReadFile(h)
      BY <3>4, <3>8 DEF StatOld, StatNew, DeleteRow, ReadFile
    <3> QED
      BY <1>3, <3>1, <3>2, <3>3, <3>5, <3>6, <3>7, <3>8 DEF Step, FileStep
  <2> QED
    BY <2>1, <2>2 DEF ListInv
<1> QED
  BY <1>1, <1>2, <1>3 DEF Next

\* A DeleteNote has removed the file of the note and is about to delete its row.
Deletes(id) ==
    \E g \in Handlers : req[g].op = "delete" /\ req[g].id = id /\ pc[g] = "delete"

\* A note with a row and no file is being deleted: with one title, a rename
\* never takes the file away.
LEMMA RowMissing ==
  ASSUME NumTitles = 1, IInv, RowInv, NEW x \in NotePaths, rows[x[2]] # None, files[x] = None
  PROVE  Deletes(x[2])
<1>1. x[2] \in Ids
  BY DEF NotePaths
<1>2. files[RowPath(x[2])] = None
  <2>1. RowPath(x[2]) \in NotePaths /\ RowPath(x[2])[2] = x[2]
    BY <1>1, RowTitle DEF RowPath, NotePath
  <2> QED
    BY <2>1, OnePath
<1>3. ASSUME NEW g \in Handlers, MidRename(g, x[2]) PROVE FALSE
  <2>1. NewPath(g) \in NotePaths /\ NewPath(g)[2] = x[2]
    BY <1>3, UpdatePaths DEF MidRename, Writing, UpdatePCs, NewPath, NotePath
  <2>2. NewPath(g) = x /\ files[NewPath(g)] # None
    BY <1>3, <2>1, OnePath DEF MidRename, Writing, IInv, FileInv, FileOf
  <2> QED
    BY <2>2
<1>4. PICK g \in Handlers : MidDelete(g, x[2])
  BY <1>1, <1>2, <1>3 DEF RowInv, RowOf
<1> QED
  BY <1>4 DEF MidDelete, Deletes, IInv, RequestInv, RequestOf, DeletePCs

\* A handler misses a note only without its row or without its file.
LEMMA MissStep ==
  ASSUME NumTitles = 1, Faults \cap Unrepaired = {}, IInv, RowInv, ListInv, Next,
         NEW h \in Handlers, NEW id \in Ids, Misses(h, id)
  PROVE  rows[id] = None \/ Deletes(id)
<1>1. ASSUME NEW x \in NotePaths, x[2] = id, files[x] = None PROVE rows[id] = None \/ Deletes(id)
  BY <1>1, RowMissing
<1>2. CASE Crash
  BY <1>2 DEF Crash, Fails, Unrepaired
<1>3. CASE ~Crash
  <2>1. PICK g \in Handlers : Request(g) \/ Step(g)
    BY <1>3 DEF Next
  <2>2. g = h
    BY <2>1, OthersKept DEF Misses, IInv
  <2>3. CASE req[h].id = id /\ reply[h] # "notfound" /\ reply'[h] = "notfound"
    <3>1. CASE QueryRow(h) \/ UpdateRow(h) \/ DeleteRow(h)
      BY <2>3, <3>1 DEF QueryRow, UpdateRow, DeleteRow, Goto, Return, IInv, TypeOK
    <3>2. CASE StatOld(h) \/ RenameFile(h) \/ ReadFile(h)
      <4>1. files[OldPath(h)] = None
        BY <2>3, <3>2 DEF StatOld, RenameFile, ReadFile, Goto, Return, IInv, TypeOK
      <4>2. OldPath(h) \in NotePaths /\ OldPath(h)[2] = id
        BY <2>3, <3>2 DEF StatOld, RenameFile, ReadFile, At, OldPath, NotePath, NotePaths, IInv,
                          RequestInv, RequestOf, LockedPCs, UpdatePCs
      <4> QED
        BY <1>1, <4>1, <4>2
    <3>3. CASE Request(h)
      BY <2>3, <3>3 DEF Request, BeginCreate, BeginUpdate, BeginDelete, BeginGet, BeginList, Begin,
                        Refuse, Goto, Return, IInv, TypeOK
    <3>4. CASE LockNext(h)
      <4>1. UNCHANGED reply
        BY <3>4 DEF LockNext, Goto
      <4> QED
        BY <2>3, <4>1
    <3>5. CASE OpenSentinel(h) \/ FillSentinel(h) \/ StatCreated(h) \/ InsertNote(h)
      BY <2>3, <3>5 DEF OpenSentinel, FillSentinel, StatCreated, InsertNote, Goto, Return, IInv, TypeOK
    <3>6. CASE UnlockNext(h) \/ Respond(h) \/ WriteFile(h) \/ StatNew(h) \/ RemoveFile(h)
      BY <2>3, <3>6, RepliesAssumption
      DEF UnlockNext, Respond, WriteFile, StatNew, RemoveFile, Goto, Return, IInv, TypeOK, Replies
    <3>7. CASE ListQuery(h) \/ ListRead(h)
      BY <2>3, <3>7 DEF ListQuery, ListRead, Goto, Return, IInv, TypeOK
    <3> QED
      BY <2>1, <2>2, <3>1, <3>2, <3>3, <3>4, <3>5, <3>6, <3>7 DEF Step
  <2>4. CASE pc[h] = "listRead" /\ todo'[h] # todo[h] /\ listed'[h] = listed[h] /\
             \E x \in todo[h] \ todo'[h] : x[2] = id
    <3>1. ListRead(h)
      BY <2>1, <2>2, <2>4 DEF Request, Step, BeginCreate, BeginUpdate, BeginDelete, BeginGet,
         BeginList, Begin, Refuse, Idle, LockNext, UnlockNext, Respond, OpenSentinel, FillSentinel,
         StatCreated, InsertNote, QueryRow, StatOld, RenameFile, WriteFile, StatNew, UpdateRow,
         RemoveFile, DeleteRow, ReadFile, ListQuery, At
    <3>2. PICK x \in todo[h] : /\ todo' = [todo EXCEPT ![h] = @ \ {x}]
                               /\ listed' = [listed EXCEPT ![h] =
                                               IF files[x] = None THEN @ ELSE @ \cup {x[2]}]
      BY <2>4, <3>1 DEF ListRead
    <3>3. x \in NotePaths /\ x[2] = id
      BY <2>4, <3>2 DEF IInv, TypeOK
    <3>4. files[x] = None
      BY <2>4, <3>2 DEF ListInv, ListOf, IInv, TypeOK
    <3> QED
      BY <1>1, <3>3, <3>4
  <2> QED
    BY <2>3, <2>4 DEF Misses
<1> QED
  BY <1>2, <1>3

\* UpdateNote, GetNote, DeleteNote and ListNotes miss a note only when its row
\* is gone or a DeleteNote has already removed its file, when notes keep their
\* title and the handlers roll back what fails.
THEOREM MissesOnlyDeletedHolds ==
  ASSUME NumTitles = 1, Faults \cap Unrepaired = {}
  PROVE  Spec => MissesOnlyDeleted
<1> DEFINE A == \A h \in Handlers, id \in Ids : Misses(h, id) =>
                  \/ rows[id] = None
                  \/ \E g \in Handlers : req[g].op = "delete" /\ req[g].id = id /\ pc[g] = "delete"
<1>1. Init => RowInv /\ ListInv
  BY DEF Init, RowInv, RowOf, TitleOf, Writing, ListInv, ListOf
<1>2. IInv /\ RowInv /\ ListInv /\ [Next]_vars => RowInv' /\ ListInv'
  BY RowStep, ListStep
<1>3. IInv /\ RowInv /\ ListInv /\ [Next]_vars => [A]_vars
  BY MissStep DEF Deletes
<1> QED
  BY <1>1, <1>2, <1>3, Invariance, PTL DEF Spec, MissesOnlyDeleted

-----------------------------------------------------------------------------
(***************************************************************************)
(* The service as a store: with one title, every step is a step of         *)
(* NoteStore or leaves it alone, whatever fails.                           *)
(*                                                                         *)
(* A note that has had a row: nobody is making it, and when the row is     *)
(* gone the file is gone.                                                  *)
(***************************************************************************)
Makes(g, id) == req[g].op = "create" /\ req[g].id = id /\ pc[g] \in {"lock"} \cup CreatePCs

Made(id) ==
    /\ id \in used
    /\ \A g \in Handlers : ~Makes(g, id)
    /\ rows[id] = None => \A t \in Titles : files[NotePath(t, id)] = None

\* The handler has found the row of the note.
Knows(h, id) ==
    \/ /\ req[h].op \in {"update", "delete", "get"} /\ req[h].id = id
       /\ pc[h] \in {"lock", "read"} \cup UpdatePCs \cup DeletePCs
    \/ \E x \in todo[h] : x[2] = id

MadeInv ==
    /\ \A h \in Handlers, id \in Ids : Knows(h, id) => Made(id)
    /\ \A h \in Handlers : pc[h] = "listQuery" => req[h].op = "list"

StoreInv == RemovedInv /\ MadeInv

\* A note that has a row has had one.
LEMMA RowMade ==
  ASSUME IInv, NEW id \in Ids, rows[id] # None
  PROVE  Made(id)
<1>1. id \in used
  BY DEF IInv, FreshInv, FreshIds
<1>2. ASSUME NEW g \in Handlers, Makes(g, id) PROVE FALSE
  BY <1>2 DEF Makes, IInv, FreshInv, FreshOf
<1> QED
  BY <1>1, <1>2 DEF Made

\* Nobody begins to make a note whose id is given out.
LEMMA MakesKept ==
  ASSUME IInv, NEW h \in Handlers, Request(h) \/ Step(h), NEW id \in used,
         NEW g \in Handlers, Makes(g, id)'
  PROVE  Makes(g, id)
<1>1. CASE g # h
  BY <1>1, OthersKept DEF Makes, IInv
<1>2. CASE g = h
  <2> USE DEF IInv, TypeOK, At, Goto, Return, Call, Makes
  <2>1. CASE Request(h)
    BY <1>2, <2>1 DEF Request, BeginCreate, BeginUpdate, BeginDelete, BeginGet, BeginList, Begin,
                      Refuse, ById, CreatePCs
  <2>2. CASE FileStep(h)
    <3>1. req' = req /\ pc[h] \in LockedPCs
      BY <2>2, FileStepPaths, FileStepEffect
    <3> QED
      BY <1>2, <3>1 DEF RequestInv, RequestOf, LockedPCs
  <2>3. CASE LockNext(h)
    BY <1>2, <2>3 DEF LockNext
  <2>4. CASE StatCreated(h)
    BY <1>2, <2>4 DEF StatCreated, CreatePCs
  <2>5. CASE QueryRow(h) \/ StatOld(h) \/ StatNew(h) \/ DeleteRow(h)
    BY <1>2, <2>5 DEF QueryRow, StatOld, StatNew, DeleteRow, RequestInv, RequestOf, CreatePCs,
                      UpdatePCs, DeletePCs
  <2>6. CASE UnlockNext(h) \/ Respond(h) \/ ReadFile(h) \/ ListQuery(h) \/ ListRead(h)
    BY <1>2, <2>6 DEF UnlockNext, Respond, ReadFile, ListQuery, ListRead, CreatePCs
  <2> QED
    BY <2>1, <2>2, <2>3, <2>4, <2>5, <2>6 DEF Step, FileStep
<1> QED
  BY <1>1, <1>2

\* The path of the note that a handler works on.
LEMMA TheirPath ==
  ASSUME NumTitles = 1, IInv, NEW h \in Handlers, FileStep(h) \/ DeleteRow(h)
  PROVE  /\ Titles = {1} /\ req[h].id \in Ids
         /\ OldPath(h) = NotePath(1, req[h].id) /\ OldPath(h) \in NotePaths
         /\ req[h].op # "delete" => NewPath(h) = NotePath(1, req[h].id)
         /\ ~RenameFile(h)
<1>1. Titles = {1}
  BY DEF Titles
<1>2. /\ req[h].id \in Ids /\ from[h] \in Titles
      /\ req[h].op # "delete" => req[h].title \in Titles
  <2>1. pc[h] \in LockedPCs /\ req[h].op \in {"create", "update", "delete"}
    BY DEF FileStep, OpenSentinel, FillSentinel, InsertNote, RenameFile, WriteFile, UpdateRow,
           RemoveFile, DeleteRow, At, IInv, RequestInv, RequestOf, LockedPCs, CreatePCs,
           UpdatePCs, DeletePCs
  <2> QED
    BY <2>1, RequestKept DEF IInv, RequestInv, RequestOf
<1>3. ~RenameFile(h)
  BY <1>1, <1>2 DEF RenameFile, At, IInv, RequestInv, RequestOf, Renames, UpdatePCs
<1> QED
  BY <1>1, <1>2, <1>3 DEF OldPath, NewPath, NotePath, NotePaths

\* A note that has had a row keeps to that.
LEMMA MadeKept ==
  ASSUME NumTitles = 1, IInv, StoreInv, NEW h \in Handlers, Request(h) \/ Step(h),
         NEW id \in Ids, Made(id)
  PROVE  Made(id)'
<1>1. id \in used'
  <2>1. used \subseteq used'
    BY DEF Request, Step, BeginCreate, BeginUpdate, BeginDelete, BeginGet, BeginList, Begin,
           Refuse, Call, LockNext, UnlockNext, Respond, OpenSentinel, FillSentinel, StatCreated,
           InsertNote, QueryRow, StatOld, RenameFile, WriteFile, StatNew, UpdateRow, RemoveFile,
           DeleteRow, ReadFile, ListQuery, ListRead
  <2> QED
    BY <2>1 DEF Made
<1>2. \A g \in Handlers : ~Makes(g, id)'
  BY MakesKept DEF Made
<1>3. rows'[id] = None => \A t \in Titles : files'[NotePath(t, id)] = None
  <2>1. CASE ~FileStep(h) /\ ~DeleteRow(h)
    BY <2>1, StoresUnchanged DEF Made
  <2>2. CASE (FileStep(h) \/ DeleteRow(h)) /\ id # req[h].id
    BY <2>2, OtherNotesKept DEF Made
  <2>3. CASE (FileStep(h) \/ DeleteRow(h)) /\ id = req[h].id
    <3>1. /\ Titles = {1} /\ ~RenameFile(h)
          /\ OldPath(h) = NotePath(1, id) /\ OldPath(h) \in NotePaths
          /\ req[h].op # "delete" => NewPath(h) = NotePath(1, id)
      BY <2>3, TheirPath
    <3>2. ~OpenSentinel(h) /\ ~FillSentinel(h) /\ ~InsertNote(h)
      BY <2>3 DEF OpenSentinel, FillSentinel, InsertNote, At, Made, Makes, CreatePCs, IInv,
                  RequestInv, RequestOf
    <3>3. CASE WriteFile(h) \/ UpdateRow(h)
      <4>1. pc[h] \in {"write", "update"} /\ req[h].op = "update" /\ req[h].title \in Titles
            /\ req[h].content \in Contents
        BY <3>3 DEF WriteFile, UpdateRow, At, IInv, RequestInv, RequestOf, UpdatePCs
      <4>2. rows[id] # None
        BY <3>1, <4>1 DEF Made, IInv, FileInv, FileOf
      <4>3. CASE UNCHANGED rows
        BY <4>2, <4>3
      <4>4. CASE rows' = [rows EXCEPT ![id] = [title |-> req[h].title, preview |-> Preview(req[h].content)]]
        BY <4>1, <4>4, RowsAssumption DEF IInv, TypeOK
      <4> QED
        BY <2>3, <3>3, <4>3, <4>4 DEF WriteFile, UpdateRow, Stores
    <3>4. CASE RemoveFile(h)
      BY <3>1, <3>4 DEF RemoveFile, Made, IInv, TypeOK
    <3>5. CASE DeleteRow(h)
      BY <3>1, <3>5 DEF DeleteRow, At, StoreInv, RemovedInv, RemovedOf
    <3> QED
      BY <2>3, <3>1, <3>2, <3>3, <3>4, <3>5 DEF FileStep
  <2> QED
    BY <2>1, <2>2, <2>3
<1> QED
  BY <1>1, <1>2, <1>3 DEF Made

\* A handler knows of a note what it knew, or has just seen its row.
LEMMA KnowsStep ==
  ASSUME IInv, NEW h \in Handlers, Request(h) \/ Step(h), NEW g \in Handlers, NEW id \in Ids,
         Knows(g, id)'
  PROVE  Knows(g, id) \/ rows[id] # None
<1>1. CASE g # h
  BY <1>1, OthersKept DEF Knows, IInv
<1>2. CASE g = h
  <2> USE DEF IInv, TypeOK, At, Goto, Return, Call, Knows
  <2>1. CASE Request(h)
    BY <1>2, <2>1 DEF Request, BeginCreate, BeginUpdate, BeginDelete, BeginGet, BeginList, Begin,
                      Refuse, ById, UpdatePCs, DeletePCs
  <2>2. CASE FileStep(h)
    <3>1. req' = req /\ pc[h] \in LockedPCs /\ todo' = todo
      BY <2>2, FileStepPaths, FileStepEffect
      DEF FileStep, OpenSentinel, FillSentinel, InsertNote, RenameFile, WriteFile, UpdateRow,
          RemoveFile
    <3> QED
      BY <1>2, <3>1 DEF RequestInv, RequestOf, LockedPCs
  <2>3. CASE LockNext(h)
    BY <1>2, <2>3 DEF LockNext
  <2>4. CASE QueryRow(h)
    <3>1. CASE rows[req[h].id] # None
      <4>1. req'[h] = req[h] /\ todo' = todo
        BY <2>4 DEF QueryRow
      <4> QED
        BY <1>2, <3>1, <4>1
    <3>2. CASE rows[req[h].id] = None
      <4>1. pc'[h] = "done" /\ todo' = todo
        BY <2>4, <3>2 DEF QueryRow
      <4> QED
        BY <1>2, <4>1 DEF UpdatePCs, DeletePCs
    <3> QED
      BY <3>1, <3>2
  <2>5. CASE StatOld(h) \/ StatNew(h) \/ DeleteRow(h) \/ StatCreated(h)
    BY <1>2, <2>5 DEF StatOld, StatNew, DeleteRow, StatCreated, RequestInv, RequestOf, CreatePCs,
                      UpdatePCs, DeletePCs
  <2>6. CASE ListQuery(h)
    <3>1. pc'[h] \notin {"lock", "read"} \cup UpdatePCs \cup DeletePCs
      BY <2>6 DEF ListQuery, UpdatePCs, DeletePCs
    <3>2. PICK x \in todo'[h] : x[2] = id
      BY <1>2, <3>1
    <3>3. CASE UNCHANGED todo
      BY <1>2, <3>2, <3>3
    <3>4. CASE todo' = [todo EXCEPT ![h] =
                          {NotePath(rows[i].title, i) : i \in {j \in Ids : rows[j] # None}}]
      BY <3>2, <3>4 DEF NotePath
    <3> QED
      BY <2>6, <3>3, <3>4 DEF ListQuery
  <2>7. CASE ListRead(h)
    <3>1. pc'[h] \notin {"lock", "read"} \cup UpdatePCs \cup DeletePCs
      BY <2>7 DEF ListRead, UpdatePCs, DeletePCs
    <3>2. todo'[h] \subseteq todo[h]
      BY <2>7 DEF ListRead
    <3> QED
      BY <1>2, <3>1, <3>2
  <2>8. CASE UnlockNext(h) \/ Respond(h) \/ ReadFile(h)
    BY <1>2, <2>8 DEF UnlockNext, Respond, ReadFile, UpdatePCs, DeletePCs
  <2> QED
    BY <2>1, <2>2, <2>3, <2>4, <2>5, <2>6, <2>7, <2>8 DEF Step, FileStep
<1> QED
  BY <1>1, <1>2

LEMMA StoreInvStep ==
  ASSUME NumTitles = 1, IInv, StoreInv, [Next]_vars
  PROVE  StoreInv'
<1>1. CASE UNCHANGED vars
  BY <1>1 DEF vars, StoreInv, RemovedInv, RemovedOf, OldPath, MadeInv, Made, Makes, Knows
<1>2. CASE Crash
  BY <1>2 DEF Crash, StoreInv, RemovedInv, RemovedOf, MadeInv, Knows, UpdatePCs, DeletePCs
<1>3. ASSUME NEW h \in Handlers, Request(h) \/ Step(h) PROVE StoreInv'
  <2>1. RemovedInv'
    BY <1>3, RemovedStep DEF StoreInv, RemovedInv
  <2>2. ASSUME NEW g \in Handlers, NEW id \in Ids, Knows(g, id)' PROVE Made(id)'
    <3>1. Made(id)
      BY <1>3, <2>2, KnowsStep, RowMade DEF StoreInv, MadeInv
    <3> QED
      BY <1>3, <3>1, MadeKept
  <2>3. ASSUME NEW g \in Handlers, pc'[g] = "listQuery" PROVE req'[g].op = "list"
    <3>1. CASE g # h
      BY <1>3, <2>3, <3>1, OthersKept DEF StoreInv, MadeInv, IInv
    <3>2. CASE g = h /\ Request(h)
      BY <2>3, <3>2 DEF Request, BeginCreate, BeginUpdate, BeginDelete, BeginGet, BeginList, Begin,
                        Refuse, ById, Goto, Return, IInv, TypeOK
    <3>3. CASE g = h /\ LockNext(h)
      <4>1. pc'[h] = pc[h] \/ pc'[h] = AfterLock(req[h].op)
        BY <3>3 DEF LockNext, Goto, IInv, TypeOK
      <4>2. AfterLock(req[h].op) # "listQuery"
        BY <3>3 DEF LockNext, At, AfterLock, IInv, RequestInv, RequestOf
      <4> QED
        BY <2>3, <3>3, <4>1, <4>2 DEF LockNext, At
    <3>4. CASE g = h /\ Step(h) /\ ~LockNext(h)
      BY <2>3, <3>4 DEF Step, At, Goto, Return, UnlockNext, Respond, OpenSentinel, FillSentinel,
                        StatCreated, InsertNote, QueryRow, StatOld, RenameFile, WriteFile,
                        StatNew, UpdateRow, RemoveFile, DeleteRow, ReadFile, ListQuery, ListRead,
                        IInv, TypeOK
    <3> QED
      BY <1>3, <3>1, <3>2, <3>3, <3>4
  <2> QED
    BY <2>1, <2>2, <2>3 DEF StoreInv, MadeInv
<1> QED
  BY <1>1, <1>2, <1>3 DEF Next

-----------------------------------------------------------------------------
\* The content of every note, with one title.
Content == [id \in Ids |-> IF rows[id] = None THEN None ELSE files[NotePath(1, id)]]

LEMMA ContentNow ==
  ASSUME NumTitles = 1, TypeOK
  PROVE  NoteContent = Content
<1>1. Titles = {1}
  BY DEF Titles
<1>2. ASSUME NEW id \in Ids, rows[id] # None PROVE RowPath(id) = NotePath(1, id)
  BY <1>1, <1>2 DEF TypeOK, Rows, RowPath
<1> QED
  BY <1>2 DEF NoteContent, Content

LEMMA ContentNext ==
  ASSUME NumTitles = 1, TypeOK'
  PROVE  NoteContent' = Content'
<1>1. Titles = {1}
  BY DEF Titles
<1>2. ASSUME NEW id \in Ids, rows'[id] # None PROVE NotePath(rows'[id].title, id) = NotePath(1, id)
  BY <1>1, <1>2 DEF TypeOK, Rows
<1> QED
  BY <1>2 DEF NoteContent, Content, RowPath

\* What changes the stores changes one note.
LEMMA OneNoteChanges ==
  ASSUME NumTitles = 1, IInv, TypeOK', NEW h \in Handlers, FileStep(h) \/ DeleteRow(h)
  PROVE  /\ req[h].id \in Ids /\ NotePath(1, req[h].id) \in NotePaths
         /\ NoteContent[req[h].id] =
              IF rows[req[h].id] = None THEN None ELSE files[NotePath(1, req[h].id)]
         /\ NoteContent' = [NoteContent EXCEPT ![req[h].id] =
              IF rows'[req[h].id] = None THEN None ELSE files'[NotePath(1, req[h].id)]]
<1>1. Titles = {1} /\ req[h].id \in Ids
  BY TheirPath
<1>2. NoteContent = Content /\ NoteContent' = Content'
  BY ContentNow, ContentNext DEF IInv
<1>3. ASSUME NEW id \in Ids, id # req[h].id PROVE Content'[id] = Content[id]
  BY <1>1, <1>3, OtherNotesKept DEF Content
<1> QED
  BY <1>1, <1>2, <1>3 DEF Content, NotePath, NotePaths

LEMMA ContentSame ==
  ASSUME UNCHANGED <<rows, files>>
  PROVE  UNCHANGED NoteContent
BY DEF NoteContent, RowPath

\* What the request looks like from outside.
LEMMA StageMoves ==
  ASSUME TypeOK, NEW h \in Handlers, NEW l, pc' = [pc EXCEPT ![h] = l]
  PROVE  Stage' = [Stage EXCEPT ![h] = StageAt(l)]
BY DEF TypeOK, Stage

LEMMA StageStays ==
  ASSUME TypeOK, NEW h \in Handlers, NEW l, pc' = [pc EXCEPT ![h] = l], StageAt(l) = StageAt(pc[h])
  PROVE  UNCHANGED Stage
BY DEF TypeOK, Stage

LEMMA AnswerStep ==
  ASSUME TypeOK, NEW h \in Handlers, NEW outcome, Return(h, outcome)
  PROVE  Store!Answer(h, outcome)
<1>1. StageAt("done") = "answered"
  BY DEF StageAt
<1> QED
  BY <1>1, StageMoves DEF Return, Store!Answer, Store!Enter

LEMMA FailStep ==
  ASSUME TypeOK, NEW h \in Handlers, Return(h, "internal"),
         StageAt(pc[h]) \in {"called", "applied", "listing"},
         UNCHANGED <<NoteContent, req, todo, listed>>
  PROVE  Store!Fail(h)
BY AnswerStep DEF Store!Fail, Stage, Asked, ToLook

LEMMA MissAnswer ==
  ASSUME TypeOK, NEW h \in Handlers, Return(h, "notfound"),
         \/ req[h].op \in {"update", "delete", "get"} /\ StageAt(pc[h]) = "called"
         \/ req[h].op = "delete" /\ StageAt(pc[h]) = "applied",
         NoteContent[req[h].id] = None,
         UNCHANGED <<NoteContent, req, todo, listed>>
  PROVE  Store!Miss(h)
BY AnswerStep DEF Store!Miss, Store!Asks, Stage, Asked, ToLook

\* A step nobody sees.
Unseen == UNCHANGED Store!vars

LEMMA UnseenStep ==
  ASSUME UNCHANGED <<NoteContent, Stage, req, todo, listed, reply>>
  PROVE  Unseen
BY DEF Unseen, Store!vars, Asked, ToLook

\* A call, the answer to it and a refused request.
LEMMA RequestImplements ==
  ASSUME IInv, NEW h \in Handlers, Request(h)
  PROVE  Store!Call(h) \/ Store!Refuse(h)
<1> USE DEF IInv, TypeOK
<1>1. UNCHANGED <<rows, files, todo, listed>>
  BY DEF Request, BeginCreate, BeginUpdate, BeginDelete, BeginGet, BeginList, Begin, Refuse,
         Stores, Call
<1>2. UNCHANGED <<NoteContent, ToLook, listed>>
  BY <1>1, ContentSame DEF ToLook
<1>3. Stage[h] = "idle"
  BY DEF Request, BeginCreate, BeginUpdate, BeginDelete, BeginGet, BeginList, Begin, Refuse, Idle,
         Stage, StageAt
<1>4. CASE Refuse(h)
  <2>1. Store!Answer(h, "invalid") /\ UNCHANGED Asked
    BY <1>4, AnswerStep DEF Refuse, Call, Asked
  <2> QED
    BY <1>2, <1>3, <2>1 DEF Store!Refuse
<1>5. ASSUME NEW r, NEW title, NEW l, Begin(h, r, title, l), l \in {"lock", "query", "listQuery"},
             [op |-> r.op, id |-> r.id, content |-> r.content] \in Store!Requests
      PROVE  Store!Call(h)
  <2>1. Stage' = [Stage EXCEPT ![h] = "called"] /\ UNCHANGED reply
    <3>1. StageAt(l) = "called"
      BY <1>5 DEF StageAt
    <3> QED
      BY <1>5, <3>1, StageMoves DEF Begin, Goto
  <2>2. Asked' = [Asked EXCEPT ![h] = [op |-> r.op, id |-> r.id, content |-> r.content]]
    BY <1>5 DEF Begin, Asked
  <2> QED
    BY <1>2, <1>3, <1>5, <2>1, <2>2 DEF Store!Call, Store!Enter
<1>6. CASE BeginCreate(h)
  <2>1. PICK id \in Ids, t \in Titles, c \in Contents :
          Begin(h, [op |-> "create", id |-> id, title |-> t, content |-> c], t, "lock")
    BY <1>6 DEF BeginCreate
  <2>2. [op |-> "create", id |-> id, content |-> c] \in Store!Requests
    BY DEF Store!Requests, Store!Request
  <2> QED
    BY <1>5, <2>1, <2>2
<1>7. CASE BeginUpdate(h)
  <2>1. PICK id \in used, t \in Titles, c \in Contents :
          Begin(h, [op |-> "update", id |-> id, title |-> t, content |-> c], 0, "query")
    BY <1>7 DEF BeginUpdate
  <2>2. [op |-> "update", id |-> id, content |-> c] \in Store!Requests
    BY DEF Store!Requests, Store!Request
  <2> QED
    BY <1>5, <2>1, <2>2
<1>8. ASSUME NEW op \in {"delete", "get"}, NEW id \in used, Begin(h, ById(op, id), 0, "query")
      PROVE  Store!Call(h)
  <2>1. [op |-> op, id |-> id, content |-> None] \in Store!Requests
    BY <1>8 DEF Store!Requests, Store!Request
  <2>2. ById(op, id).op = op /\ ById(op, id).id = id /\ ById(op, id).content = None
    BY DEF ById
  <2> QED
    BY <1>5, <1>8, <2>1, <2>2
<1>9. CASE BeginDelete(h) \/ BeginGet(h)
  BY <1>8, <1>9 DEF BeginDelete, BeginGet
<1>10. CASE BeginList(h)
  <2>1. [op |-> "list", id |-> None, content |-> None] \in Store!Requests
    BY DEF Store!Requests, Store!Request
  <2>2. ById("list", None).op = "list" /\ ById("list", None).id = None
        /\ ById("list", None).content = None
    BY DEF ById
  <2> QED
    BY <1>5, <1>10, <2>1, <2>2 DEF BeginList
<1> QED
  BY <1>4, <1>6, <1>7, <1>9, <1>10 DEF Request

\* Nobody sees the path locks.
LEMMA LockImplements ==
  ASSUME IInv, NEW h \in Handlers, LockNext(h) \/ UnlockNext(h)
  PROVE  Unseen
<1>1. UNCHANGED <<rows, files, req, todo, listed, reply>>
  BY DEF LockNext, UnlockNext, Goto, Stores, Call
<1>2. UNCHANGED Stage
  <2>1. CASE UNCHANGED pc
    BY <2>1 DEF Stage
  <2>2. CASE pc' = [pc EXCEPT ![h] = AfterLock(req[h].op)] /\ pc[h] = "lock"
    <3>1. req[h].op \in {"create", "update", "delete"}
      BY <2>2 DEF IInv, RequestInv, RequestOf
    <3>2. StageAt(AfterLock(req[h].op)) = "called" /\ StageAt("lock") = "called"
      BY <3>1 DEF AfterLock, StageAt
    <3> QED
      BY <2>2, <3>2, StageStays DEF IInv
  <2> QED
    BY <2>1, <2>2 DEF LockNext, UnlockNext, Goto, At
<1> QED
  BY <1>1, <1>2, ContentSame, UnseenStep

LEMMA RespondImplements ==
  ASSUME IInv, NEW h \in Handlers, Respond(h)
  PROVE  Store!Done(h)
<1> USE DEF IInv, TypeOK
<1>1. UNCHANGED NoteContent
  BY ContentSame DEF Respond, Stores
<1>2. Stage[h] = "answered" /\ Stage' = [Stage EXCEPT ![h] = "idle"]
  <2>1. StageAt("idle") = "idle" /\ StageAt("done") = "answered"
    BY DEF StageAt
  <2> QED
    BY <2>1, StageMoves DEF Respond, At, Stage
<1>3. Asked' = [Asked EXCEPT ![h] = Store!NoRequest]
  BY DEF Respond, Asked, NoRequest, ById, Store!NoRequest, Store!Request
<1>4. ToLook' = [ToLook EXCEPT ![h] = {}]
  BY DEF Respond, ToLook
<1> QED
  BY <1>1, <1>2, <1>3, <1>4 DEF Respond, Store!Done, Store!Enter

LEMMA CrashImplements ==
  ASSUME Crash
  PROVE  Store!Crash
<1>1. UNCHANGED NoteContent
  BY ContentSame DEF Crash
<1>2. Stage' = [h \in Handlers |-> "idle"]
  BY DEF Crash, Stage, StageAt
<1>3. Asked' = [h \in Handlers |-> Store!NoRequest]
  BY DEF Crash, Asked, NoRequest, ById, Store!NoRequest, Store!Request
<1>4. ToLook' = [h \in Handlers |-> {}]
  BY DEF Crash, ToLook
<1> QED
  BY <1>1, <1>2, <1>3, <1>4 DEF Crash, Store!Crash

-----------------------------------------------------------------------------
\* CreateNote: the note is there with its row.
LEMMA CreateImplements ==
  ASSUME NumTitles = 1, IInv, TypeOK', NEW h \in Handlers,
         OpenSentinel(h) \/ FillSentinel(h) \/ StatCreated(h) \/ InsertNote(h)
  PROVE  Unseen \/ Store!Create(h) \/ Store!Fail(h)
<1>1. /\ pc[h] \in CreatePCs /\ req[h].op = "create" /\ req[h].id \in Ids
      /\ req[h].title \in Titles /\ req[h].content \in Contents /\ rows[req[h].id] = None
      /\ pc[h] = "sentinel" => files[OldPath(h)] = None
  BY DEF OpenSentinel, FillSentinel, StatCreated, InsertNote, At, IInv, TypeOK, RequestInv,
         RequestOf, CreatePCs, FreshInv, FreshOf, OldPath
<1>2. UNCHANGED <<req, todo, listed>>
  BY DEF OpenSentinel, FillSentinel, StatCreated, InsertNote, Call
<1>3. StageAt(pc[h]) = "called"
  BY <1>1 DEF StageAt, CreatePCs
<1>4. CASE UNCHANGED rows
  <2>1. UNCHANGED NoteContent
    <3>1. CASE FileStep(h)
      <4>1. /\ NoteContent[req[h].id] = None
            /\ NoteContent' = [NoteContent EXCEPT ![req[h].id] = None]
        BY <1>1, <1>4, <3>1, OneNoteChanges
      <4> QED
        BY <1>1, <4>1 DEF NoteContent
    <3>2. CASE StatCreated(h)
      BY <3>2, ContentSame DEF StatCreated, Stores
    <3> QED
      BY <3>1, <3>2 DEF FileStep
  <2>2. CASE Return(h, "internal")
    BY <1>2, <1>3, <2>1, <2>2, FailStep DEF IInv
  <2>3. ASSUME NEW l \in {"fill", "statCreated", "insert"}, Goto(h, l) PROVE Unseen
    <3>1. UNCHANGED Stage
      BY <1>3, <2>3, StageStays DEF StageAt, Goto, IInv
    <3> QED
      BY <1>2, <2>1, <2>3, <3>1, UnseenStep DEF Goto
  <2>4. ~Return(h, "internal") => \E l \in {"fill", "statCreated", "insert"} : Goto(h, l)
    <3>1. CASE InsertNote(h) /\ Return(h, "ok")
      <4>1. rows' = [rows EXCEPT ![req[h].id] = [title |-> req[h].title, preview |-> Preview(req[h].content)]]
        BY <3>1, RepliesAssumption DEF InsertNote, Return, IInv, TypeOK
      <4>2. rows'[req[h].id] # None
        BY <1>1, <4>1, RowsAssumption DEF IInv, TypeOK
      <4> QED
        BY <1>1, <1>4, <4>2
    <3>2. CASE ~InsertNote(h)
      BY <1>1, <3>2 DEF OpenSentinel, FillSentinel, StatCreated, At
    <3> QED
      BY <3>1, <3>2 DEF InsertNote
  <2> QED
    BY <2>2, <2>3, <2>4
<1>5. CASE rows' # rows
  <2>1. /\ InsertNote(h) /\ pc[h] = "insert" /\ Return(h, "ok") /\ UNCHANGED files
        /\ rows' = [rows EXCEPT ![req[h].id] = [title |-> req[h].title, preview |-> Preview(req[h].content)]]
    BY <1>5 DEF OpenSentinel, FillSentinel, StatCreated, InsertNote, At, Stores
  <2>2. rows'[req[h].id] # None
    BY <1>1, <2>1, RowsAssumption DEF IInv, TypeOK
  <2>3. files[NotePath(1, req[h].id)] = req[h].content
    <3>1. FileStep(h)
      BY <2>1 DEF FileStep
    <3> QED
      BY <2>1, <3>1, TheirPath DEF IInv, FileInv, FileOf
  <2>4. /\ NoteContent[req[h].id] = None
        /\ NoteContent' = [NoteContent EXCEPT ![req[h].id] = req[h].content]
    BY <1>1, <2>1, <2>2, <2>3, OneNoteChanges DEF FileStep
  <2>5. Store!Answer(h, "ok")
    BY <2>1, AnswerStep DEF IInv
  <2> QED
    BY <1>1, <1>2, <1>3, <2>4, <2>5
    DEF Store!Create, Store!Store, Store!Asks, Stage, Asked, ToLook
<1> QED
  BY <1>4, <1>5

-----------------------------------------------------------------------------
\* A note that has had a row is there while its file is.
LEMMA MadeContent ==
  ASSUME NumTitles = 1, TypeOK, NEW id \in Ids, Made(id)
  PROVE  NoteContent[id] = files[NotePath(1, id)]
<1>1. 1 \in Titles
  BY DEF Titles
<1>2. rows[id] = None => files[NotePath(1, id)] = None
  BY <1>1 DEF Made
<1> QED
  BY <1>2, ContentNow DEF Content

\* The one path of a note that a handler has found.
LEMMA KnownPath ==
  ASSUME NumTitles = 1, IInv, StoreInv, NEW h \in Handlers,
         pc[h] \in {"read"} \cup UpdatePCs \cup DeletePCs
  PROVE  /\ req[h].id \in Ids /\ Made(req[h].id) /\ NotePath(1, req[h].id) \in NotePaths
         /\ OldPath(h) = NotePath(1, req[h].id)
         /\ pc[h] \in UpdatePCs => NewPath(h) = NotePath(1, req[h].id) /\ ~Renames(h)
         /\ NoteContent[req[h].id] = files[NotePath(1, req[h].id)]
<1>1. /\ req[h].op \in {"update", "delete", "get"} /\ req[h].id \in Ids /\ from[h] \in Titles
      /\ pc[h] \in UpdatePCs => req[h].title \in Titles
  BY DEF IInv, TypeOK, RequestInv, RequestOf, LockedPCs
<1>2. Titles = {1}
  BY DEF Titles
<1>3. Made(req[h].id)
  BY <1>1 DEF StoreInv, MadeInv, Knows
<1> QED
  BY <1>1, <1>2, <1>3, MadeContent DEF OldPath, NewPath, NotePath, NotePaths, Renames, IInv

\* UpdateNote: the note changes when the file does.
LEMMA UpdateImplements ==
  ASSUME NumTitles = 1, IInv, TypeOK', StoreInv, NEW h \in Handlers,
         StatOld(h) \/ RenameFile(h) \/ WriteFile(h) \/ StatNew(h) \/ UpdateRow(h)
  PROVE  Unseen \/ Store!Update(h) \/ Store!Confirm(h) \/ Store!Miss(h) \/ Store!Fail(h)
<1> DEFINE id == req[h].id
           path == NotePath(1, id)
<1>1. /\ pc[h] \in UpdatePCs /\ req[h].op = "update" /\ req[h].content \in Contents
      /\ UNCHANGED <<req, todo, listed>>
  BY DEF StatOld, RenameFile, WriteFile, StatNew, UpdateRow, At, Call, IInv, RequestInv, RequestOf,
         UpdatePCs
<1>2. /\ id \in Ids /\ path \in NotePaths /\ Made(id)
      /\ OldPath(h) = path /\ NewPath(h) = path /\ ~Renames(h)
      /\ NoteContent[id] = files[path]
  BY <1>1, KnownPath
<1>3. Stage[h] = StageAt(pc[h])
  BY DEF Stage
<1>4. StageAt(pc[h]) \in {"called", "applied"}
  BY <1>1 DEF StageAt, UpdatePCs
<1>5. pc[h] \in {"write", "statNew", "update"} => files[path] # None /\ rows[id] # None
  <2>1. 1 \in Titles
    BY DEF Titles
  <2> QED
    BY <1>2, <2>1 DEF IInv, FileInv, FileOf, Made
<1>6. ASSUME Return(h, "internal"), UNCHANGED <<rows, files>> PROVE Store!Fail(h)
  BY <1>1, <1>4, <1>6, ContentSame, FailStep DEF IInv
<1>7. CASE StatOld(h)
  <2>1. UNCHANGED NoteContent /\ UNCHANGED <<rows, files>>
    BY <1>7, ContentSame DEF StatOld, Stores
  <2>2. CASE files[path] = None /\ Return(h, "notfound")
    <3>1. StageAt(pc[h]) = "called"
      BY <1>7 DEF StatOld, At, StageAt
    <3> QED
      BY <1>1, <1>2, <2>1, <2>2, <3>1, MissAnswer DEF IInv
  <2>3. ASSUME NEW l \in {"rename", "write"}, Goto(h, l) PROVE Unseen
    <3>1. UNCHANGED Stage
      BY <1>7, <2>3, StageStays DEF StageAt, Goto, StatOld, At, IInv
    <3> QED
      BY <1>1, <2>1, <2>3, <3>1, UnseenStep DEF Goto
  <2> QED
    BY <1>2, <1>6, <1>7, <2>1, <2>2, <2>3 DEF StatOld
<1>8. CASE RenameFile(h)
  BY <1>2, <1>8 DEF RenameFile, At, IInv, RequestInv, RequestOf
<1>9. CASE WriteFile(h)
  <2>1. CASE files' = [files EXCEPT ![path] = req[h].content] /\ Goto(h, "statNew")
    <3>1. NoteContent' = [NoteContent EXCEPT ![id] = req[h].content]
      <4>1. rows' = rows /\ files'[path] = req[h].content
        BY <1>2, <1>9, <2>1 DEF WriteFile, IInv, TypeOK
      <4> QED
        BY <1>5, <1>9, <4>1, OneNoteChanges DEF WriteFile, At, FileStep
    <3>2. Store!Enter(h, "applied") /\ Stage[h] = "called" /\ UNCHANGED reply
      BY <1>3, <1>9, <2>1, StageMoves DEF StageAt, Goto, WriteFile, At, IInv, Store!Enter
    <3>3. NoteContent[id] # None
      BY <1>2, <1>5, <1>9 DEF WriteFile, At
    <3> QED
      BY <1>1, <3>1, <3>2, <3>3 DEF Store!Update, Store!Store, Store!Asks, Asked, ToLook
  <2>2. CASE UndoRename(h) /\ Return(h, "internal")
    BY <1>2, <1>6, <1>9, <2>2 DEF UndoRename, WriteFile
  <2> QED
    BY <1>2, <1>9, <2>1, <2>2 DEF WriteFile
<1>10. CASE StatNew(h)
  <2>1. UNCHANGED NoteContent /\ UNCHANGED <<rows, files>>
    BY <1>10, ContentSame DEF StatNew, Stores
  <2>2. CASE Goto(h, "update")
    <3>1. UNCHANGED Stage
      BY <1>10, <2>2, StageStays DEF StageAt, Goto, StatNew, At, IInv
    <3> QED
      BY <1>1, <2>1, <2>2, <3>1, UnseenStep DEF Goto
  <2> QED
    BY <1>6, <1>10, <2>1, <2>2 DEF StatNew
<1>11. CASE UpdateRow(h)
  <2>1. rows[id] # None /\ files[path] # None
    BY <1>5, <1>11 DEF UpdateRow, At
  <2>2. CASE UndoRename(h) /\ UNCHANGED rows /\ Return(h, "internal")
    BY <1>2, <1>6, <2>2 DEF UndoRename
  <2>3. CASE /\ rows' = [rows EXCEPT ![id] = [title |-> req[h].title, preview |-> Preview(req[h].content)]]
             /\ UNCHANGED files /\ Return(h, "ok")
    <3>1. rows'[id] # None
      BY <1>1, <1>2, <2>3, RowsAssumption DEF IInv, TypeOK, RequestInv, RequestOf
    <3>2. UNCHANGED NoteContent
      <4>1. NoteContent' = [NoteContent EXCEPT ![id] = files[path]]
        BY <1>11, <2>3, <3>1, OneNoteChanges DEF FileStep
      <4> QED
        BY <1>2, <4>1 DEF NoteContent
    <3>3. Stage[h] = "applied" /\ Store!Answer(h, "ok")
      BY <1>3, <1>11, <2>3, AnswerStep DEF StageAt, UpdateRow, At, IInv
    <3> QED
      BY <1>1, <3>2, <3>3 DEF Store!Confirm, Asked, ToLook
  <2> QED
    BY <1>11, <2>1, <2>2, <2>3 DEF UpdateRow
<1> QED
  BY <1>7, <1>8, <1>9, <1>10, <1>11

\* DeleteNote: the note is gone with its file.
LEMMA DeleteImplements ==
  ASSUME NumTitles = 1, IInv, TypeOK', StoreInv, NEW h \in Handlers, RemoveFile(h) \/ DeleteRow(h)
  PROVE  Store!Delete(h) \/ Store!Confirm(h) \/ Store!Miss(h) \/ Store!Fail(h)
<1> DEFINE id == req[h].id
           path == NotePath(1, id)
<1>1. /\ pc[h] \in DeletePCs /\ req[h].op = "delete" /\ UNCHANGED <<req, todo, listed>>
  BY DEF RemoveFile, DeleteRow, At, Call, IInv, RequestInv, RequestOf, DeletePCs
<1>2. /\ id \in Ids /\ path \in NotePaths /\ OldPath(h) = path /\ NoteContent[id] = files[path]
  BY <1>1, KnownPath
<1>3. Stage[h] = StageAt(pc[h]) /\ StageAt(pc[h]) \in {"called", "applied"}
  BY <1>1 DEF Stage, StageAt, DeletePCs
<1>4. ASSUME Return(h, "internal"), UNCHANGED <<rows, files>> PROVE Store!Fail(h)
  BY <1>1, <1>3, <1>4, ContentSame, FailStep DEF IInv
<1>5. CASE RemoveFile(h)
  <2>1. CASE files' = [files EXCEPT ![path] = None] /\ Goto(h, "delete")
    <3>1. NoteContent' = [NoteContent EXCEPT ![id] = None]
      <4>1. files'[path] = None
        BY <1>2, <2>1 DEF IInv, TypeOK
      <4> QED
        BY <1>5, <4>1, OneNoteChanges DEF FileStep
    <3>2. Store!Enter(h, "applied") /\ Stage[h] = "called" /\ UNCHANGED reply
      BY <1>3, <1>5, <2>1, StageMoves DEF StageAt, Goto, RemoveFile, At, IInv, Store!Enter
    <3> QED
      BY <1>1, <3>1, <3>2 DEF Store!Delete, Store!Store, Store!Asks, Asked, ToLook
  <2>2. CASE UNCHANGED files /\ Return(h, "internal")
    BY <1>4, <1>5, <2>2 DEF RemoveFile
  <2> QED
    BY <1>2, <1>5, <2>1, <2>2 DEF RemoveFile
<1>6. CASE DeleteRow(h)
  <2>1. NoteContent[id] = None /\ Stage[h] = "applied"
    BY <1>2, <1>3, <1>6 DEF DeleteRow, At, StageAt, StoreInv, RemovedInv, RemovedOf
  <2>2. CASE rows' = [rows EXCEPT ![id] = None]
    <3>1. UNCHANGED NoteContent
      <4>1. rows'[id] = None
        BY <1>2, <2>2 DEF IInv, TypeOK
      <4>2. NoteContent' = [NoteContent EXCEPT ![id] = None]
        BY <1>6, <4>1, OneNoteChanges
      <4> QED
        BY <2>1, <4>2 DEF NoteContent
    <3>2. CASE Return(h, "notfound")
      BY <1>1, <2>1, <3>1, <3>2, MissAnswer DEF Stage, IInv
    <3>3. CASE Return(h, "ok")
      BY <1>1, <2>1, <3>1, <3>3, AnswerStep DEF Store!Confirm, Asked, ToLook, IInv
    <3>4. CASE UNCHANGED rows /\ Return(h, "internal")
      BY <1>4, <1>6, <3>4 DEF DeleteRow
    <3> QED
      BY <1>6, <3>2, <3>3, <3>4 DEF DeleteRow
  <2>3. CASE UNCHANGED rows /\ Return(h, "internal")
    BY <1>4, <1>6, <2>3 DEF DeleteRow
  <2> QED
    BY <1>6, <2>2, <2>3 DEF DeleteRow
<1> QED
  BY <1>5, <1>6

\* GetNote and the query that UpdateNote and DeleteNote begin with.
LEMMA ReadImplements ==
  ASSUME NumTitles = 1, IInv, StoreInv, NEW h \in Handlers, QueryRow(h) \/ ReadFile(h)
  PROVE  Unseen \/ Store!Get(h) \/ Store!Miss(h) \/ Store!Fail(h)
<1>1. /\ req[h].op \in {"update", "delete", "get"} /\ req[h].id \in Ids
      /\ StageAt(pc[h]) = "called" /\ Stage[h] = "called"
      /\ UNCHANGED <<req, todo, listed, rows, files>>
  BY DEF QueryRow, ReadFile, At, Call, Stores, IInv, TypeOK, RequestInv, RequestOf, Stage, StageAt
<1>2. UNCHANGED NoteContent
  BY <1>1, ContentSame
<1>3. CASE Return(h, "internal")
  BY <1>1, <1>2, <1>3, FailStep DEF IInv
<1>4. CASE QueryRow(h)
  <2>1. CASE rows[req[h].id] = None /\ Return(h, "notfound")
    <3>1. NoteContent[req[h].id] = None
      BY <1>1, <2>1 DEF NoteContent
    <3> QED
      BY <1>1, <1>2, <2>1, <3>1, MissAnswer DEF IInv
  <2>2. ASSUME NEW l \in {"read", "lock"}, Goto(h, l) PROVE Unseen
    <3>1. UNCHANGED Stage
      BY <1>1, <2>2, StageStays DEF StageAt, Goto, IInv
    <3> QED
      BY <1>1, <1>2, <2>2, <3>1, UnseenStep DEF Goto
  <2> QED
    BY <1>3, <1>4, <2>1, <2>2 DEF QueryRow
<1>5. CASE ReadFile(h)
  <2>1. req[h].op = "get" /\ NoteContent[req[h].id] = files[OldPath(h)]
    BY <1>5, KnownPath DEF ReadFile, At, IInv, RequestInv, RequestOf
  <2>2. CASE files[OldPath(h)] = None /\ Return(h, "notfound")
    BY <1>1, <1>2, <2>1, <2>2, MissAnswer DEF IInv
  <2>3. CASE files[OldPath(h)] # None /\ Return(h, "ok")
    BY <1>1, <1>2, <2>1, <2>3, AnswerStep DEF Store!Get, Store!Asks, Asked, ToLook, IInv
  <2> QED
    BY <1>3, <1>5, <2>2, <2>3 DEF ReadFile
<1> QED
  BY <1>4, <1>5

\* ListNotes looks at the notes that have a row when it begins.
LEMMA ListQueryImplements ==
  ASSUME NumTitles = 1, IInv, StoreInv, NEW h \in Handlers, ListQuery(h)
  PROVE  Store!StartList(h) \/ Store!Fail(h)
<1> DEFINE ids == {j \in Ids : rows[j] # None}
           found == {NotePath(rows[i].title, i) : i \in ids}
<1>1. /\ req[h].op = "list" /\ StageAt(pc[h]) = "called" /\ Stage[h] = "called"
      /\ UNCHANGED <<req, listed, rows, files>>
  BY DEF ListQuery, At, Stores, StoreInv, MadeInv, Stage, StageAt
<1>2. UNCHANGED <<NoteContent, Asked>>
  BY <1>1, ContentSame DEF Asked
<1>3. CASE todo' = [todo EXCEPT ![h] = found] /\ Goto(h, "listRead")
  <2>1. {x[2] : x \in found} = ids
    <3>1. ASSUME NEW i \in ids PROVE \E x \in found : x[2] = i
      <4>1. NotePath(rows[i].title, i) \in found /\ NotePath(rows[i].title, i)[2] = i
        BY DEF NotePath
      <4> QED
        BY <4>1
    <3>2. ASSUME NEW x \in found PROVE x[2] \in ids
      <4>1. PICK i \in ids : x = NotePath(rows[i].title, i)
        OBVIOUS
      <4> QED
        BY <4>1 DEF NotePath
    <3> HIDE DEF found, ids
    <3> QED
      BY <3>1, <3>2
  <2>2. ToLook' = [ToLook EXCEPT ![h] = ids]
    BY <1>3, <2>1 DEF ToLook, IInv, TypeOK
  <2>3. Store!Existing \subseteq ids /\ ids \in SUBSET Ids
    BY DEF Store!Existing, NoteContent
  <2>4. Store!Enter(h, "listing") /\ UNCHANGED reply
    <3>1. StageAt("listRead") = "listing"
      BY DEF StageAt
    <3> QED
      BY <1>3, <3>1, StageMoves DEF Goto, IInv, Store!Enter
  <2> QED
    BY <1>1, <1>2, <2>2, <2>3, <2>4 DEF Store!StartList, Store!Asks, Asked
<1>4. CASE UNCHANGED todo /\ Return(h, "internal")
  BY <1>1, <1>2, <1>4, FailStep DEF IInv
<1> QED
  BY <1>3, <1>4 DEF ListQuery

LEMMA ListReadImplements ==
  ASSUME NumTitles = 1, IInv, StoreInv, NEW h \in Handlers, ListRead(h)
  PROVE  Store!Look(h) \/ Store!FinishList(h) \/ Store!Fail(h)
<1>1. /\ StageAt(pc[h]) = "listing" /\ Stage[h] = "listing" /\ UNCHANGED <<req, rows, files>>
  BY DEF ListRead, At, Stores, Stage, StageAt
<1>2. UNCHANGED <<NoteContent, Asked>>
  BY <1>1, ContentSame DEF Asked
<1>3. ASSUME NEW x \in todo[h], todo' = [todo EXCEPT ![h] = @ \ {x}],
             listed' = [listed EXCEPT ![h] = IF files[x] = None THEN @ ELSE @ \cup {x[2]}],
             UNCHANGED <<pc, reply>>
      PROVE  Store!Look(h)
  <2>1. x \in NotePaths /\ x[2] \in Ids /\ \A y \in todo[h] : y[2] = x[2] => y = x
    <3>1. x \in NotePaths /\ \A y \in todo[h] : y \in NotePaths
      BY DEF IInv, TypeOK
    <3> QED
      BY <3>1, OnePath DEF NotePaths
  <2>2. NoteContent[x[2]] = files[x]
    <3>1. Made(x[2])
      BY <2>1 DEF StoreInv, MadeInv, Knows
    <3>2. x = NotePath(1, x[2])
      BY <2>1 DEF NotePath, NotePaths, Titles
    <3> QED
      BY <2>1, <3>1, <3>2, MadeContent DEF IInv
  <2>3. {y[2] : y \in todo[h] \ {x}} = {y[2] : y \in todo[h]} \ {x[2]}
    BY <2>1
  <2>4. ToLook' = [ToLook EXCEPT ![h] = @ \ {x[2]}] /\ x[2] \in ToLook[h]
    BY <1>3, <2>3 DEF ToLook, IInv, TypeOK
  <2>5. listed' = [listed EXCEPT ![h] = IF NoteContent[x[2]] = None THEN @ ELSE @ \cup {x[2]}]
    BY <1>3, <2>2
  <2>6. UNCHANGED Stage
    BY <1>3 DEF Stage
  <2> QED
    BY <1>1, <1>2, <1>3, <2>4, <2>5, <2>6 DEF Store!Look
<1>4. CASE Return(h, "internal") /\ UNCHANGED <<todo, listed>>
  BY <1>1, <1>2, <1>4, FailStep DEF IInv
<1>5. CASE todo[h] = {} /\ Return(h, "ok") /\ UNCHANGED <<todo, listed>>
  <2>1. ToLook[h] = {} /\ UNCHANGED ToLook
    BY <1>5 DEF ToLook
  <2> QED
    BY <1>1, <1>2, <1>5, <2>1, AnswerStep DEF Store!FinishList, IInv
<1> QED
  BY <1>3, <1>4, <1>5 DEF ListRead

-----------------------------------------------------------------------------
LEMMA StoreStep ==
  ASSUME NumTitles = 1, IInv, TypeOK', StoreInv, [Next]_vars
  PROVE  [Store!Next]_(Store!vars)
<1>1. CASE UNCHANGED vars
  <2>1. UNCHANGED <<NoteContent, Stage>>
    BY <1>1, ContentSame DEF vars, Stage
  <2> QED
    BY <1>1, <2>1, UnseenStep DEF vars, Unseen
<1>2. CASE Crash
  BY <1>2, CrashImplements DEF Store!Next
<1>3. ASSUME NEW h \in Handlers, Request(h) PROVE Store!Next
  BY <1>3, RequestImplements DEF Store!Next
<1>4. ASSUME NEW h \in Handlers, Step(h) PROVE [Store!Next]_(Store!vars)
  <2>1. CASE LockNext(h) \/ UnlockNext(h) \/ Respond(h)
    BY <2>1, LockImplements, RespondImplements DEF Store!Next, Unseen
  <2>2. CASE OpenSentinel(h) \/ FillSentinel(h) \/ StatCreated(h) \/ InsertNote(h)
    BY <2>2, CreateImplements DEF Store!Next, Unseen
  <2>3. CASE StatOld(h) \/ RenameFile(h) \/ WriteFile(h) \/ StatNew(h) \/ UpdateRow(h)
    BY <2>3, UpdateImplements DEF Store!Next, Unseen
  <2>4. CASE RemoveFile(h) \/ DeleteRow(h)
    BY <2>4, DeleteImplements DEF Store!Next
  <2>5. CASE QueryRow(h) \/ ReadFile(h)
    BY <2>5, ReadImplements DEF Store!Next, Unseen
  <2>6. CASE ListQuery(h) \/ ListRead(h)
    BY <2>6, ListQueryImplements, ListReadImplements DEF Store!Next
  <2> QED
    BY <1>4, <2>1, <2>2, <2>3, <2>4, <2>5, <2>6 DEF Step
<1> QED
  BY <1>1, <1>2, <1>3, <1>4 DEF Next

LEMMA StoreInit == Init => StoreInv /\ Store!Init
<1> SUFFICES ASSUME Init PROVE StoreInv /\ Store!Init
  OBVIOUS
<1>1. StoreInv
  BY DEF Init, StoreInv, RemovedInv, RemovedOf, MadeInv, Knows, UpdatePCs, DeletePCs
<1>2. NoteContent = [id \in Ids |-> None]
  BY DEF Init, NoteContent
<1>3. Stage = [h \in Handlers |-> "idle"]
  BY DEF Init, Stage, StageAt
<1>4. Asked = [h \in Handlers |-> Store!NoRequest]
  BY DEF Init, Asked, NoRequest, ById, Store!NoRequest, Store!Request
<1>5. ToLook = [h \in Handlers |-> {}]
  BY DEF Init, ToLook
<1> QED
  BY <1>1, <1>2, <1>3, <1>4, <1>5 DEF Init, Store!Init

\* While notes keep their title, the note service is one atomic store of notes,
\* for any handlers, whichever calls fail and whenever the server dies: every
\* request takes effect at once between its call and its answer, or fails with
\* no effect or all of it, and ListNotes leaves out no note that is there.
THEOREM StoreRefinement ==
  ASSUME NumTitles = 1
  PROVE  Spec => ImplementsNoteStore
<1>1. IInv /\ IInv' /\ StoreInv /\ [Next]_vars => StoreInv' /\ [Store!Next]_(Store!vars)
  BY StoreInvStep, StoreStep DEF IInv
<1> QED
  BY <1>1, StoreInit, Invariance, PTL DEF Spec, ImplementsNoteStore, Store!Spec
=============================================================================
