------------------------- MODULE NoteRollback_proof -------------------------
(***************************************************************************)
(* The rollbacks of CreateNote and UpdateNote suffice: unless the server   *)
(* dies or one of three calls fails that the code does not repair, a note  *)
(* whose path nobody has locked can be read.                               *)
(***************************************************************************)
EXTENDS NoteService_proof

\* The faults after which a row may be left without its file: Stat after the
\* rename, the DELETE after the removal, a rollback, the death of the process.
Unrepaired == {"statNew", "delete", "undo", "crash"}

\* Between the move (or the check) of the file and the end of UpdateNote.
Writing == {"write", "statNew", "update"}

\* UpdateNote has moved the note's file and not updated the row.
MidRename(h, id) ==
    /\ req[h].id = id /\ pc[h] \in Writing
    /\ from[h] = rows[id].title

\* DeleteNote has removed the note's file and not the row.
MidDelete(h, id) ==
    /\ req[h].id = id /\ pc[h] = "delete"
    /\ from[h] = rows[id].title
    /\ \A t \in Titles : files[NotePath(t, id)] = None

\* The row names the note's file, but for the handler that is moving or
\* removing it.
RowOf(id) ==
    rows[id] # None =>
       \/ files[RowPath(id)] # None
       \/ \E h \in Handlers : MidRename(h, id) \/ MidDelete(h, id)

\* The title that UpdateNote read is still the row's while it writes.
TitleOf(h) ==
    pc[h] \in Writing /\ rows[req[h].id] # None => rows[req[h].id].title = from[h]

RowInv == (\A id \in Ids : RowOf(id)) /\ (\A h \in Handlers : TitleOf(h))

-----------------------------------------------------------------------------
\* A row names a path of its note.
LEMMA RowTitle ==
  ASSUME IInv, NEW id \in Ids, rows[id] # None
  PROVE  rows[id].title \in Titles /\ RowPath(id) \in NotePaths
  BY DEF IInv, TypeOK, Rows, RowPath, NotePath, NotePaths

\* What a handler in UpdateNote knows of its request and its paths.
LEMMA UpdatePaths ==
  ASSUME IInv, NEW h \in Handlers, pc[h] \in UpdatePCs
  PROVE  /\ req[h].op = "update" /\ req[h].id \in Ids
         /\ from[h] \in Titles /\ req[h].title \in Titles /\ req[h].content \in Contents
         /\ OldPath(h) \in NotePaths /\ NewPath(h) \in NotePaths
         /\ owner[OldPath(h)] = h /\ owner[NewPath(h)] = h
<1>1. /\ req[h].op = "update" /\ req[h].id \in Ids
      /\ from[h] \in Titles /\ req[h].title \in Titles /\ req[h].content \in Contents
  BY DEF IInv, TypeOK, RequestInv, RequestOf, LockedPCs, UpdatePCs
<1>2. OldPath(h) \in Wanted(h) /\ NewPath(h) \in Wanted(h)
  BY <1>1 DEF Wanted
<1> QED
  BY <1>1, <1>2 DEF IInv, LockInv, LockOf, LockedPCs, OldPath, NewPath, NotePath, NotePaths

\* Only one handler at a time is writing a note.
LEMMA OneWriter ==
  ASSUME IInv, NEW g \in Handlers, NEW h \in Handlers, pc[g] \in Writing, pc[h] \in Writing,
         req[g].id = req[h].id
  PROVE  g = h
<1>1. files[NewPath(g)] # None /\ files[NewPath(h)] # None
  BY DEF IInv, FileInv, FileOf, Writing
<1>2. pc[g] \in UpdatePCs /\ pc[h] \in UpdatePCs
  BY DEF Writing, UpdatePCs
<1>3. NewPath(g) = NewPath(h)
  BY <1>1, <1>2, UpdatePaths DEF IInv, AtMostOneFile, NewPath
<1> QED
  BY <1>2, <1>3, UpdatePaths

\* A file at the path that UpdateNote has locked, before it moves it, is the
\* one that the row names: the title read before the lock is not stale.
LEMMA TitleKnown ==
  ASSUME IInv, RowInv, NEW h \in Handlers, pc[h] \in {"statOld", "rename"},
         files[OldPath(h)] # None, rows[req[h].id] # None
  PROVE  rows[req[h].id].title = from[h]
<1> DEFINE id == req[h].id
<1>1. /\ pc[h] \in UpdatePCs /\ id \in Ids /\ from[h] \in Titles
      /\ OldPath(h) = NotePath(from[h], id) /\ owner[OldPath(h)] = h
  BY UpdatePaths DEF UpdatePCs, OldPath
<1>2. CASE files[RowPath(id)] # None
  BY <1>1, <1>2, RowTitle DEF IInv, AtMostOneFile, RowPath
<1>3. ASSUME NEW g \in Handlers, MidRename(g, id) PROVE FALSE
  <2>1. pc[g] \in UpdatePCs /\ files[NewPath(g)] # None
    BY <1>3 DEF MidRename, Writing, UpdatePCs, IInv, FileInv, FileOf
  <2>2. NewPath(g) = OldPath(h)
    BY <1>1, <1>3, <2>1, UpdatePaths DEF MidRename, IInv, AtMostOneFile, NewPath
  <2> QED
    BY <1>1, <1>3, <2>1, <2>2, UpdatePaths DEF MidRename, Writing
<1>4. ASSUME NEW g \in Handlers, MidDelete(g, id) PROVE FALSE
  BY <1>1, <1>4 DEF MidDelete
<1> QED
  BY <1>1, <1>2, <1>3, <1>4 DEF RowInv, RowOf

\* A step that changes neither store keeps RowInv if the handler goes on with
\* what it has begun.
LEMMA StoresKept ==
  ASSUME IInv, RowInv, NEW h \in Handlers, UNCHANGED <<rows, files>>,
         \A g \in Handlers : g # h => pc'[g] = pc[g] /\ req'[g] = req[g] /\ from'[g] = from[g],
         pc[h] \in Writing => pc'[h] \in Writing /\ req'[h] = req[h] /\ from'[h] = from[h],
         pc[h] # "delete",
         TitleOf(h)'
  PROVE  RowInv'
<1>1. ASSUME NEW id \in Ids PROVE RowOf(id)'
  <2>1. ASSUME NEW g \in Handlers, MidRename(g, id) PROVE MidRename(g, id)'
    BY <2>1 DEF MidRename
  <2>2. ASSUME NEW g \in Handlers, MidDelete(g, id) PROVE MidDelete(g, id)'
    BY <2>2 DEF MidDelete
  <2> QED
    BY <2>1, <2>2 DEF RowInv, RowOf, RowPath
<1>2. ASSUME NEW g \in Handlers, g # h PROVE TitleOf(g)'
  BY <1>2 DEF RowInv, TitleOf
<1> QED
  BY <1>1, <1>2 DEF RowInv

\* A step that changes one note keeps RowInv for the others.
LEMMA OtherNotes ==
  ASSUME IInv, RowInv, NEW h \in Handlers, UNCHANGED <<req, from>>,
         \A g \in Handlers : g # h => pc'[g] = pc[g],
         \A id \in Ids : id # req[h].id =>
            rows'[id] = rows[id] /\ \A t \in Titles : files'[NotePath(t, id)] = files[NotePath(t, id)],
         RowOf(req[h].id)',
         \A g \in Handlers : req[g].id = req[h].id => TitleOf(g)'
  PROVE  RowInv'
<1>1. ASSUME NEW id \in Ids, id # req[h].id, rows[id] # None PROVE RowOf(id)'
  <2>1. ASSUME NEW g \in Handlers, MidRename(g, id) PROVE MidRename(g, id)'
    BY <1>1, <2>1 DEF MidRename
  <2>2. ASSUME NEW g \in Handlers, MidDelete(g, id) PROVE MidDelete(g, id)'
    BY <1>1, <2>2 DEF MidDelete
  <2>3. files'[RowPath(id)'] = files[RowPath(id)]
    BY <1>1, RowTitle DEF RowPath
  <2> QED
    BY <1>1, <2>1, <2>2, <2>3 DEF RowInv, RowOf
<1>2. ASSUME NEW id \in Ids, id # req[h].id, rows[id] = None PROVE RowOf(id)'
  BY <1>2 DEF RowOf
<1>3. ASSUME NEW g \in Handlers, req[g].id # req[h].id PROVE TitleOf(g)'
  <2>1. pc[g] \in Writing => req[g].id \in Ids
    BY UpdatePaths DEF Writing, UpdatePCs
  <2> QED
    BY <1>3, <2>1 DEF RowInv, TitleOf
<1> QED
  BY <1>1, <1>2, <1>3 DEF RowInv

\* A rollback of the rename puts the file back where the row says it is.
LEMMA UndoRestores ==
  ASSUME IInv, RowInv, Faults \cap Unrepaired = {}, NEW h \in Handlers,
         pc[h] \in Writing, UndoRename(h), rows[req[h].id] # None
  PROVE  files'[RowPath(req[h].id)] # None
<1>1. /\ rows[req[h].id].title = from[h] /\ files[NewPath(h)] # None
      /\ OldPath(h) \in NotePaths /\ NewPath(h) \in NotePaths /\ from[h] \in Titles
  BY UpdatePaths DEF RowInv, TitleOf, IInv, FileInv, FileOf, Writing, UpdatePCs
<1>2. RowPath(req[h].id) = OldPath(h)
  BY <1>1 DEF RowPath, OldPath
<1>3. CASE Renames(h)
  <2>1. files' = Moved(NewPath(h), OldPath(h))
    BY <1>3 DEF UndoRename, Fails, Unrepaired
  <2>2. OldPath(h) # NewPath(h)
    BY <1>3 DEF OldPath, NewPath, NotePath, Renames
  <2> QED
    BY <1>1, <1>2, <2>1, <2>2 DEF Moved, IInv, TypeOK
<1>4. CASE ~Renames(h)
  BY <1>1, <1>2, <1>4 DEF UndoRename, Renames, OldPath, NewPath
<1> QED
  BY <1>3, <1>4

\* The steps that change files keep RowInv.
LEMMA RowFileStep ==
  ASSUME IInv, RowInv, Faults \cap Unrepaired = {}, NEW h \in Handlers, FileStep(h)
  PROVE  RowInv'
<1> DEFINE id == req[h].id
<1>1. id \in Ids /\ UNCHANGED <<req, from>> /\ \A g \in Handlers : g # h => pc'[g] = pc[g]
  BY FileStepPaths, FileStepEffect
<1>2. ASSUME NEW i \in Ids, i # id
      PROVE  rows'[i] = rows[i] /\ \A t \in Titles : files'[NotePath(t, i)] = files[NotePath(t, i)]
  <2>1. rows'[i] = rows[i]
    BY <1>2 DEF FileStep, OpenSentinel, FillSentinel, InsertNote, RenameFile, WriteFile,
                UpdateRow, RemoveFile, Stores, IInv, TypeOK
  <2>2. ASSUME NEW t \in Titles PROVE files'[NotePath(t, i)] = files[NotePath(t, i)]
    <3>1. NotePath(t, i) \in NotePaths /\ NotePath(t, i)[2] = i
      BY DEF NotePath, NotePaths
    <3> QED
      BY <1>2, <3>1, FileStepPaths, FileStepEffect
  <2> QED
    BY <2>1, <2>2
<1>3. SUFFICES RowOf(id)' /\ \A g \in Handlers : req[g].id = id => TitleOf(g)'
  BY <1>1, <1>2, OtherNotes
<1>4. CASE pc[h] \in CreatePCs
  <2>1. /\ rows[id] = None /\ req[h].op = "create"
        /\ \A g \in Handlers : g # h /\ req[g].id = id => pc[g] \in {"query", "done"}
    BY <1>4 DEF IInv, RequestInv, RequestOf, FreshInv, FreshOf
  <2>2. pc'[h] \notin Writing
    BY <1>4 DEF FileStep, OpenSentinel, FillSentinel, InsertNote, RenameFile, WriteFile,
                UpdateRow, RemoveFile, At, Goto, Return, CreatePCs, Writing, IInv, TypeOK
  <2>3. \A g \in Handlers : req[g].id = id => TitleOf(g)'
    BY <1>1, <2>1, <2>2 DEF TitleOf, Writing
  <2>4. RowOf(id)'
    <3>1. CASE rows'[id] = None
      BY <1>1, <3>1 DEF RowOf
    <3>2. CASE rows'[id] # None
      <4>1. /\ InsertNote(h) /\ UNCHANGED files /\ pc[h] = "insert"
            /\ rows' = [rows EXCEPT ![id] = [title |-> req[h].title, preview |-> Preview(req[h].content)]]
        BY <1>4, <2>1, <3>2 DEF FileStep, OpenSentinel, FillSentinel, InsertNote, RenameFile,
           WriteFile, UpdateRow, RemoveFile, Stores, At, CreatePCs
      <4>2. files[OldPath(h)] # None /\ from[h] = req[h].title
        BY <2>1, <4>1, ContentsAssumption DEF IInv, FileInv, FileOf, RequestInv, RequestOf
      <4>3. RowPath(id)' = OldPath(h)
        BY <1>1, <4>1, <4>2 DEF RowPath, OldPath, NotePath, IInv, TypeOK
      <4> QED
        BY <4>1, <4>2, <4>3 DEF RowOf
    <3> QED
      BY <3>1, <3>2
  <2> QED
    BY <2>3, <2>4
<1>5. CASE RemoveFile(h)
  <2>1. /\ UNCHANGED rows /\ pc[h] = "remove" /\ pc'[h] \notin Writing
        /\ from[h] \in Titles /\ OldPath(h) \in NotePaths
    BY <1>5, FileStepPaths DEF RemoveFile, At, Goto, Return, Writing, IInv, TypeOK, RequestInv,
       RequestOf, LockedPCs, DeletePCs
  <2>2. \A g \in Handlers : req[g].id = id => TitleOf(g)'
    BY <1>1, <2>1 DEF TitleOf, RowInv
  <2>3. ASSUME rows[id] # None PROVE RowOf(id)'
    <3>1. rows[id].title \in Titles /\ RowPath(id) \in NotePaths /\ RowPath(id)' = RowPath(id)
      BY <1>1, <2>1, <2>3, RowTitle DEF RowPath
    <3>2. CASE UNCHANGED files
      <4>1. ASSUME NEW g \in Handlers, MidRename(g, id) PROVE MidRename(g, id)'
        BY <1>1, <2>1, <4>1 DEF MidRename, Writing
      <4>2. ASSUME NEW g \in Handlers, MidDelete(g, id) PROVE MidDelete(g, id)'
        BY <1>1, <2>1, <3>2, <4>2 DEF MidDelete
      <4> QED
        BY <1>1, <2>3, <3>1, <3>2, <4>1, <4>2 DEF RowInv, RowOf
    <3>3. CASE files' = [files EXCEPT ![OldPath(h)] = None] /\ pc'[h] = "delete"
      <4>1. \A t \in Titles : files[NotePath(t, id)] = None => files'[NotePath(t, id)] = None
        BY <1>1, <2>1, <3>3 DEF IInv, TypeOK, NotePath, NotePaths
      <4>2. ASSUME NEW g \in Handlers, MidRename(g, id) PROVE MidRename(g, id)'
        BY <1>1, <2>1, <4>2 DEF MidRename, Writing
      <4>3. ASSUME NEW g \in Handlers, MidDelete(g, id) PROVE MidDelete(g, id)'
        BY <1>1, <2>1, <4>1, <4>3 DEF MidDelete
      <4>4. CASE files[RowPath(id)] # None /\ rows[id].title = from[h]
        <5>1. \A t \in Titles : files'[NotePath(t, id)] = None
          BY <1>1, <2>1, <3>1, <3>3, <4>1, <4>4
          DEF IInv, TypeOK, AtMostOneFile, RowPath, OldPath
        <5>2. MidDelete(h, id)'
          BY <1>1, <2>1, <3>3, <4>4, <5>1 DEF MidDelete
        <5> QED
          BY <5>2 DEF RowOf
      <4>5. CASE files[RowPath(id)] # None /\ rows[id].title # from[h]
        <5>1. RowPath(id) # OldPath(h)
          BY <4>5 DEF RowPath, OldPath, NotePath
        <5>2. files'[RowPath(id)] # None
          BY <2>1, <3>1, <3>3, <4>5, <5>1 DEF IInv, TypeOK
        <5> QED
          BY <3>1, <5>2 DEF RowOf
      <4> QED
        BY <1>1, <2>3, <4>2, <4>3, <4>4, <4>5 DEF RowInv, RowOf
    <3> QED
      BY <1>5, <3>2, <3>3 DEF RemoveFile, Goto, IInv, TypeOK
  <2>4. CASE rows[id] = None
    BY <1>1, <2>1, <2>2, <2>4 DEF RowOf
  <2> QED
    BY <2>2, <2>3, <2>4
<1>6. CASE RenameFile(h)
  <2>1. UNCHANGED rows /\ pc[h] = "rename" /\ pc[h] \in UpdatePCs
    BY <1>6 DEF RenameFile, At, UpdatePCs
  <2>2. CASE rows[id] = None
    BY <1>1, <2>1, <2>2 DEF RowOf, TitleOf
  <2>3. CASE rows[id] # None /\ UNCHANGED files /\ pc'[h] = "done"
    <3>1. ASSUME NEW g \in Handlers, MidRename(g, id) PROVE MidRename(g, id)'
      BY <1>1, <2>1, <3>1 DEF MidRename, Writing
    <3>2. ASSUME NEW g \in Handlers, MidDelete(g, id) PROVE MidDelete(g, id)'
      BY <1>1, <2>1, <2>3, <3>2 DEF MidDelete
    <3>3. RowPath(id)' = RowPath(id)
      BY <1>1, <2>1 DEF RowPath
    <3>4. RowOf(id)'
      BY <1>1, <2>3, <3>1, <3>2, <3>3 DEF RowInv, RowOf
    <3> QED
      BY <1>1, <2>1, <2>3, <3>4 DEF RowInv, TitleOf, Writing
  <2>4. CASE rows[id] # None /\ files[OldPath(h)] # None /\ pc'[h] = "write"
    <3>1. rows[id].title = from[h]
      BY <2>1, <2>4, TitleKnown
    <3>2. MidRename(h, id)'
      BY <1>1, <2>1, <2>4, <3>1 DEF MidRename, Writing
    <3> QED
      BY <1>1, <2>1, <3>1, <3>2 DEF RowInv, RowOf, TitleOf
  <2> QED
    BY <1>6, <2>2, <2>3, <2>4 DEF RenameFile, Goto, Return, IInv, TypeOK
<1>7. CASE WriteFile(h)
  <2>1. /\ UNCHANGED rows /\ pc[h] = "write" /\ pc[h] \in Writing /\ pc[h] \in UpdatePCs
        /\ NewPath(h) \in NotePaths /\ files[NewPath(h)] # None
    BY <1>7, UpdatePaths DEF WriteFile, At, Writing, UpdatePCs, IInv, FileInv, FileOf
  <2>2. \A g \in Handlers : req[g].id = id => TitleOf(g)'
    BY <1>1, <2>1 DEF RowInv, TitleOf
  <2>3. CASE rows[id] = None
    BY <1>1, <2>1, <2>2, <2>3 DEF RowOf
  <2>4. CASE rows[id] # None /\ pc'[h] = "statNew"
    <3>1. MidRename(h, id)'
      BY <1>1, <2>1, <2>4 DEF MidRename, RowInv, TitleOf, Writing
    <3> QED
      BY <1>1, <2>2, <3>1 DEF RowOf
  <2>5. CASE rows[id] # None /\ UndoRename(h)
    <3>1. RowPath(id)' = RowPath(id)
      BY <1>1, <2>1 DEF RowPath
    <3>2. files'[RowPath(id)] # None
      BY <2>1, <2>5, UndoRestores
    <3> QED
      BY <2>2, <3>1, <3>2 DEF RowOf
  <2> QED
    BY <1>7, <2>3, <2>4, <2>5 DEF WriteFile, Goto, IInv, TypeOK
<1>8. CASE UpdateRow(h)
  <2>1. /\ pc[h] = "update" /\ pc[h] \in Writing /\ pc[h] \in UpdatePCs /\ pc'[h] = "done"
        /\ NewPath(h) \in NotePaths /\ files[NewPath(h)] # None
    BY <1>8, UpdatePaths DEF UpdateRow, At, Return, Writing, UpdatePCs, IInv, TypeOK, FileInv, FileOf
  <2>2. \A g \in Handlers : req[g].id = id => TitleOf(g)'
    <3>1. ASSUME NEW g \in Handlers, req[g].id = id, g # h PROVE pc[g] \notin Writing
      BY <2>1, <3>1, OneWriter
    <3> QED
      BY <1>1, <2>1, <3>1 DEF TitleOf, Writing
  <2>3. CASE rows'[id] = None
    BY <1>1, <2>2, <2>3 DEF RowOf
  <2>4. CASE rows'[id] # None /\ UNCHANGED files /\
             rows' = [rows EXCEPT ![id] = [title |-> req[h].title, preview |-> Preview(req[h].content)]]
    <3>1. RowPath(id)' = NewPath(h)
      BY <1>1, <2>4 DEF RowPath, NewPath, NotePath, IInv, TypeOK
    <3> QED
      BY <2>1, <2>2, <2>4, <3>1 DEF RowOf
  <2>5. CASE rows'[id] # None /\ UNCHANGED rows /\ UndoRename(h)
    <3>1. RowPath(id)' = RowPath(id)
      BY <1>1, <2>5 DEF RowPath
    <3>2. files'[RowPath(id)] # None
      BY <2>1, <2>5, UndoRestores
    <3> QED
      BY <2>2, <3>1, <3>2 DEF RowOf
  <2> QED
    BY <1>8, <2>3, <2>4, <2>5 DEF UpdateRow, Stores
<1> QED
  BY <1>4, <1>5, <1>6, <1>7, <1>8
  DEF FileStep, OpenSentinel, FillSentinel, InsertNote, At, CreatePCs

\* Every step keeps RowInv.
LEMMA RowStep ==
  ASSUME IInv, RowInv, Faults \cap Unrepaired = {}, [Next]_vars
  PROVE  RowInv'
<1>1. CASE UNCHANGED vars
  BY <1>1 DEF vars, RowInv, RowOf, TitleOf, RowPath, MidRename, MidDelete
<1>2. CASE Crash
  BY <1>2 DEF Crash, Fails, Unrepaired
<1>3. ASSUME NEW h \in Handlers, FileStep(h) PROVE RowInv'
  BY <1>3, RowFileStep
<1>4. ASSUME NEW h \in Handlers, DeleteRow(h) PROVE RowInv'
  <2>1. /\ rows' = [rows EXCEPT ![req[h].id] = None] /\ UNCHANGED <<files, req, from>>
        /\ \A g \in Handlers : g # h => pc'[g] = pc[g]
    BY <1>4 DEF DeleteRow, Fails, Unrepaired, Return, Call, IInv, TypeOK
  <2>2. req[h].id \in Ids
    BY <1>4 DEF DeleteRow, At, IInv, TypeOK, RequestInv, RequestOf, DeletePCs
  <2>3. rows'[req[h].id] = None /\ \A i \in Ids : i # req[h].id => rows'[i] = rows[i]
    BY <2>1, <2>2 DEF IInv, TypeOK
  <2>4. RowOf(req[h].id)' /\ \A g \in Handlers : req[g].id = req[h].id => TitleOf(g)'
    BY <2>1, <2>3 DEF RowOf, TitleOf
  <2> QED
    BY <2>1, <2>3, <2>4, OtherNotes
<1>5. ASSUME NEW h \in Handlers, StatOld(h) PROVE RowInv'
  <2>1. /\ pc[h] = "statOld" /\ UNCHANGED <<rows, files, req, from>>
        /\ \A g \in Handlers : g # h => pc'[g] = pc[g]
        /\ pc'[h] \in Writing => files[OldPath(h)] # None
    BY <1>5 DEF StatOld, At, Goto, Return, Stores, Call, Writing, IInv, TypeOK
  <2>2. TitleOf(h)'
    BY <2>1, TitleKnown DEF TitleOf
  <2> QED
    BY <2>1, <2>2, StoresKept DEF Writing
<1>6. ASSUME NEW h \in Handlers, LockNext(h) PROVE RowInv'
  <2>1. /\ pc[h] = "lock" /\ req[h].op \in {"create", "update", "delete"}
        /\ UNCHANGED <<rows, files, req, from>>
    BY <1>6 DEF LockNext, At, Stores, Call, IInv, RequestInv, RequestOf
  <2>2. pc' = pc \/ pc' = [pc EXCEPT ![h] = AfterLock(req[h].op)]
    BY <1>6 DEF LockNext, Goto
  <2>3. AfterLock(req[h].op) \notin Writing
    BY <2>1 DEF AfterLock, Writing
  <2>4. pc'[h] \notin Writing /\ \A g \in Handlers : g # h => pc'[g] = pc[g]
    BY <2>1, <2>2, <2>3 DEF Writing, IInv, TypeOK
  <2> QED
    BY <2>1, <2>4, StoresKept DEF TitleOf, Writing
<1>7. ASSUME NEW h \in Handlers, StatNew(h) PROVE RowInv'
  <2>1. /\ pc[h] = "statNew" /\ pc'[h] = "update" /\ UNCHANGED <<rows, files, req, from>>
        /\ \A g \in Handlers : g # h => pc'[g] = pc[g]
    BY <1>7 DEF StatNew, At, Goto, Fails, Unrepaired, Stores, Call, IInv, TypeOK
  <2>2. TitleOf(h)'
    BY <2>1 DEF RowInv, TitleOf, Writing
  <2> QED
    BY <2>1, <2>2, StoresKept DEF Writing
<1>8. ASSUME NEW h \in Handlers, Request(h) PROVE RowInv'
  <2>1. /\ pc[h] = "idle" /\ pc'[h] \notin Writing /\ UNCHANGED <<rows, files>>
        /\ \A g \in Handlers : g # h => pc'[g] = pc[g] /\ req'[g] = req[g] /\ from'[g] = from[g]
    BY <1>8 DEF Request, BeginCreate, BeginUpdate, BeginDelete, BeginGet, BeginList, Begin,
                Refuse, Idle, Goto, Return, Stores, Call, Writing, IInv, TypeOK
  <2> QED
    BY <2>1, StoresKept DEF TitleOf, Writing
<1>9. ASSUME NEW h \in Handlers,
             \/ UnlockNext(h) \/ Respond(h) \/ StatCreated(h) \/ QueryRow(h)
             \/ ReadFile(h) \/ ListQuery(h) \/ ListRead(h)
      PROVE  RowInv'
  <2>1. /\ pc[h] \notin Writing \cup {"delete"} /\ pc'[h] \notin Writing
        /\ UNCHANGED <<rows, files>>
        /\ \A g \in Handlers : g # h => pc'[g] = pc[g] /\ req'[g] = req[g] /\ from'[g] = from[g]
    BY <1>9 DEF UnlockNext, Respond, StatCreated, QueryRow, ReadFile, ListQuery, ListRead, At,
                Goto, Return, Stores, Call, Writing, IInv, TypeOK
  <2> QED
    BY <2>1, StoresKept DEF TitleOf, Writing
<1> QED
  BY <1>1, <1>2, <1>3, <1>4, <1>5, <1>6, <1>7, <1>8, <1>9 DEF Next, Step, FileStep

-----------------------------------------------------------------------------
\* A note whose path nobody has locked can be read, for every order of
\* concurrent updates, renames and deletions and every failed call that the
\* handlers roll back.
THEOREM RowHasFileHolds ==
  ASSUME Faults \cap Unrepaired = {}
  PROVE  Spec => []RowHasFile
<1>1. Init => RowInv
  BY DEF Init, RowInv, RowOf, TitleOf, Writing
<1>2. IInv /\ RowInv /\ [Next]_vars => RowInv'
  BY RowStep
<1>3. IInv /\ RowInv => RowHasFile
  <2> SUFFICES ASSUME IInv, RowInv, NEW id \in Ids, rows[id] # None, owner[RowPath(id)] = None,
                      files[RowPath(id)] = None
               PROVE  FALSE
    BY DEF RowHasFile
  <2>1. ASSUME NEW h \in Handlers, MidRename(h, id) PROVE owner[RowPath(id)] = h
    BY <2>1, UpdatePaths DEF MidRename, Writing, UpdatePCs, RowPath, OldPath
  <2>2. ASSUME NEW h \in Handlers, MidDelete(h, id) PROVE owner[RowPath(id)] = h
    BY <2>2 DEF MidDelete, RowPath, OldPath, Wanted, IInv, LockInv, LockOf, LockedPCs, DeletePCs,
                RequestInv, RequestOf
  <2> QED
    BY <2>1, <2>2, HandlersAssumption DEF RowInv, RowOf
<1> QED
  BY <1>1, <1>2, <1>3, Invariance, PTL DEF Spec
=============================================================================
