# TLA+ specification of the echolist backend

echolist is a Connect/gRPC server in Go that keeps notes and task lists in
folders. Note bodies are files below a data directory; the metadata of notes,
and task lists with all their tasks, are rows of one SQLite database. This
directory holds TLA+ models of the parts where goroutines, two stores, failing
calls and crashes meet, the TLC runs that check them, and TLAPS proofs.

`PROJECT.json` lists components, runs, mutants, findings, hazards and theorems,
and maps every definition that models code to its source lines.

## The system

| Component | State | Operations | Calls and shares |
|---|---|---|---|
| `common.Locker` | map path -> entry (mutex, waiters), one map mutex | `Lock`, `LockMany`, unlock functions | one Locker in `NotesServer`, another in `FileServer` |
| `common` atomic writes | files | `File`, `CreateExclusive` | called by the note handlers under a path lock |
| Note service | table `notes`, files `<title>_<id>.md` | Create, Update, Delete, Get, List | Locker, file system, database |
| Task list service | tables `task_lists`, `tasks` | Create, Update, Delete, Get, List, GetMainTask, ListUpcomingMainTasks | database only; no locks |
| Database | one SQLite file, one connection | statements and transactions | shared by all services; the single connection serialises them |
| File service | directories, `parent_dir` columns | CreateFolder, UpdateFolder, DeleteFolder, ListFiles | its own Locker, file system, database |
| Auth | `users.json`, signed tokens | Login, RefreshToken, interceptor | checked before every other RPC |
| `main` | process | start, health, graceful shutdown | closes the database when it returns |

net/http runs every request in a goroutine of its own, so handlers of all
services interleave at every lock operation, system call and statement.

What is hard here, and so what the properties are about:

* a note is one thing in two stores, and no transaction spans both: order of
  steps, rollbacks, crashes in between (`AtMostOneFile`, `SentinelNeverRead`,
  `RowHasFile`, `NoOrphanFile`, `PreviewMatches`, `AckedIsStored`,
  `ImplementsNoteStore`);
* the path that a note handler locks is computed from a row it read before the
  lock, so it can be stale when the lock is granted (`MissesOnlyDeleted`,
  `NoOrphanFile`, `RowHasFile`);
* the Locker deletes entries that other callers are about to use
  (`MutualExclusion`, `MapExact`), and renames lock two paths
  (`NoCircularWait`, `LockReturns`);
* `UpdateTaskList` reads and writes in separate database calls
  (`RecurringStaysOpen`), takes task ids from clients (`OtherListsUntouched`)
  and is likely to be retried (`RetryIsNoOp`);
* one database connection for everyone (`EveryRequestAnswered`);
* a folder is a directory and a prefix of two database columns: renames and
  deletions change both, one after the other, under locks that the handlers of
  notes and task lists do not take (`NotesInPlace`, `ListsInPlace`), and find
  the rows with `LIKE` and `SUBSTR` (`ListsFollowFolders`); listings are put
  together from many calls (`ListingTrue`);
* what survives the process meets the next one: a half migrated schema, a torn
  `users.json`, tokens signed with an old secret (`SchemaExact`, `ServesReady`,
  `SessionBounded`, `RotationRevokes`, `NeverStuck`).

## Modules

| Module | Models | Used by |
|---|---|---|
| `PathMutex` | abstract: one mutex per path | refined by `PathLock`, instantiated in `NoteService` and `FolderOps` |
| `PathLock` | `common/pathlock.go` | `MCPathLock`, `PathLock_proof` |
| `NoteStore` | abstract: notes that are there or not, one atomic step per request | refined by `NoteService` |
| `NoteService` | `notes/`, `database/notes.go`, `common/atomicwrite.go` | `MCNoteService`, `NoteService_proof`, `NoteRollback_proof`, `NoteStores_proof` |
| `TaskLists` | `tasks/`, `database/task_lists.go`, `helpers.go`, `upcoming_main_tasks.go`, the schema and the connection limit | `MCTaskLists`, `TaskLists_proof` |
| `ParentDirs` | paths and names of `common/pathutil.go`, the statements of `database/folders.go` on one `parent_dir`: pure operators | `FolderOps`, `ParentDirs_proof` |
| `FolderOps` | `file/`, composed with the creating handlers of notes and task lists | `MCFolderOps`, `FolderOps_proof` |
| `Server` | `main.go`, `database/schema.go`, `auth/` | `MCServer`, `Server_proof` |

### PathLock

`locks` is the map, `waiters` and `entryMutex` are the fields of the entries,
`mine[p][x]` is the `ent` captured by the closure of p's `Lock(x)`. An entry is a
heap cell that may be reused as soon as neither the map nor a closure refers to
it, which is what the garbage collector allows. Actions are the mutex operations
and the pieces of code between them: `EnterLocker`, `Lookup`, `RegisterNew` or
`RegisterAgain`, `AcquireEntry`, and in the unlock function `UnlockEntry`,
`LeaveLocker`, `Unregister`. `Call` is `LockMany` of any nonempty set of paths
(`Lock` is the case of one path); `Finish` starts the unlock functions from the
last path locked. Paths are numbered in the order of `sort.Strings`.

### NoteService

One action is one system call, one statement or one lock operation of a handler;
`pc` names the next one. `from` is the title read from the row, so `OldPath` is
`oldAbsPath` (or `absPath`) however stale it is. `Faults` says which calls may
fail; `"crash"` is the death of the process, which loses everything but `rows`
and `files`. `"undo"` is the failure of a rollback itself, `"temp"` and `"swap"`
are the two halves of `atomicWrite` that differ in their cleanup. The paths are
locked with `PathMutex`, which is justified by the refinement shown for
`PathLock`. The result set of `ListNotes` is copied into memory by the database
layer before the first file is read, so it holds no connection.

`NoteStore` is what clients may rely on as long as notes keep their titles: a note
has a content or is not there, and a request takes effect in one step between its
call and its answer. `ImplementsNoteStore` maps the state of `NoteService` to it. A
note is there when it has a row and the row's file (`NoteContent`), so `CreateNote`
takes effect with the INSERT, `UpdateNote` when the file is replaced, `DeleteNote`
when the file is removed; all other steps map to the answers or are not seen. A
request that fails may have taken effect, and a second deletion under way at the
same time may answer NotFound. With renames the mapping fails, for the reasons
that `notes_stale` and `notes_orphan` show.

Left out: the directory (all notes are in one directory that exists), timestamps,
temporary files (no handler reads one), validation except as the action `Refuse`.

### TaskLists

`tasks` has a row for every task; a main task has `list`, a subtask `parent`.
Requests and answers carry trees: sequences of main tasks with sequences of
subtasks. `Stored(l)` is what the query of a list and the conversion of its rows
give. A transaction is one action because there is one connection; a handler
that makes two database calls is two actions. `cursor` is the handler whose open
result set holds the connection. Up to its first database call a handler works
on its own data, so a request starts with that call. `NextDate` stands for the
rrule library: a function of rule and date, 0 when no date follows. `Unparsable`
are the dates that match the regular expression of `validateTasks` and that
`time.Parse` refuses. The next date may be the same day: with `FREQ=HOURLY` or
`BYHOUR` the next occurrence can be formatted as the date it started from, so nothing
is assumed of `NextDate` but its type. What the reading RPCs return is not recorded.

### ParentDirs

A path is a sequence of characters, because the statements of
`database/folders.go` work on characters and bytes: `Width` is the number of
bytes of a character (Go's `len`), `Lower` the folding under which `LIKE`
compares (SQLite folds ASCII letters), `Wildcards` what `escapeLike` escapes.
`DeletedBy` and `RenamedBy` say what the two transactions do to one row, `Within`
and `Moved` what `RemoveAll` and `rename(2)` do to the directory that the row
names. The two should agree; the theorems say when they do.

### FolderOps

One action is one lock, system call or statement of `CreateFolder`,
`UpdateFolder`, `DeleteFolder`, `ListFiles`, and of `CreateNote` and
`CreateTaskList` as far as the folder matters. `dirs` and `files` are the disk,
`notes` and `lists` the `parent_dir` columns. A `Begin` action holds the checks of
the request up to and including `RequireDir`; after it the handler does not look
whether the directory is still there. `FileServer.locks` is an instance of
`PathMutex`; the Locker of the notes server is another object and keeps none of
these handlers apart, so it does not appear. Two facts about the system calls
matter: Go's `os.Rename` refuses a target that is a directory (also the old path
itself, so renaming a folder to its own name answers Internal), and `rename(2)`
replaces an empty directory that appears after this check. So the check and the
`rename(2)` are actions of their own, in the rename (`CheckTarget`, `RenameFolder`)
and in its rollback (`CheckOldPath`, `UndoRename`).

The invariants need a condition. Some failures are not repaired by the code: a
failing `RemoveAll`, a rollback that fails, a crash between the two stores, a
failing `Stat` in `CreateNote`. And nothing keeps apart two requests that work on
nested folders, or on the old and new name of one rename, or a creation in a folder
and the renaming or deletion of it. The history variable `disturbed` records that one of
these happened (`Damages`, `Tangled`); `NotesInPlace` and `ListsInPlace` are claimed
up to then. Requests on one and the same folder do not count as tangled: the lock
must keep them apart, and the mutant without it breaks `NotesInPlace`.
`ListsFollowFolders` needs no such condition. `calm` holds the `ListFiles` requests
during which no store changed and no count failed; `ListingTrue` is about these.

Left out: titles, contents, temporary files, symbolic links, a folder with the
name of a note file.

### Server

`phase` is where `main` is; `program` is the number of migrations in the program
that was started, so that newer and older versions take turns on one database.

Each call of `createSchema` is an action: `BeginMigration`, `ExecMigration`,
`SetVersion`, `CommitMigration`. `schema` and `version` are what is on disk; `tx` is
what the open transaction sees, and only the commit carries it over. A crash
(`Crash`) or a failing call (`MigrationFails`) may come between any two of them and
rolls back, by `createSchema` itself or by the next process that opens the file. What
is assumed of SQLite is that a commit is atomic and that `PRAGMA user_version` and
DDL are part of the transaction, not that the code uses the transaction well.

`os.WriteFile` is two steps (truncate, write), hence the file state `Torn`. The
operator edits `users.json` only while the process is down. `dataDir` says whether
the data directory is writable, readonly or missing, and changes at any time; a start
without it fails, and `/healthz` (`Healthy`) answers "ok" only if it is writable.

Every start takes any of `Secrets` as `JWT_SECRET`, also one that was in use before. A
token records, besides its claims, the secret it was signed with, and the `Login` it
goes back to, with that Login's time and secret: the latter is history, which no guard
looks at. `work` is the request that the interceptor let through. `Signal` is the
call of `Shutdown`: `ListenAndServe` returns at once, and `Close` (the deferred
`db.Close`) and `Exit` follow without waiting for `work`. The two expiry periods
are the same at every start.

## Runs

| Run | Instance | Shows |
|---|---|---|
| `pathlock` | 3 callers, 2 paths, 2 heap cells, fair | types, mutual exclusion, an exact map, no circular wait, refinement of `PathMutex`, every call returns |
| `notes_faults` | 3 handlers, 1 note, 2 titles, every call may fail, crashes | a note never has two files; a sentinel never backs a row |
| `notes_rollback` | 3 handlers, 1 note, 3 titles, every failure that is rolled back | an unlocked note's row names its file |
| `notes_clean` | 2 handlers, 1 note, 2 titles, 2 bodies, no failures, fair | preview and file agree; every request is answered |
| `notes_fixed` | 3 handlers, 1 note, 1 title, 2 bodies, failures that leave no file | no orphan file, acknowledged writes are stored, only deleted notes are missed, refinement of `NoteStore`, all of it as long as nobody renames |
| `notes_orphan` | 2 handlers, 2 titles, no failures | violation: a deletion that races a rename leaves an orphan file |
| `notes_stale` | 2 handlers, 2 titles, no failures, fair | violation: a request that races a rename answers NotFound |
| `tasks` | 2 handlers, 2 lists, 3 task ids, 5 request bodies, failing statements, fair | see the properties in `TaskLists` |
| `folders` | 2 handlers, 1 note, 1 task list, 2 names, 5 paths, 5 requests, every call may fail, crashes | a note's row names the directory of its file; a list's folder exists; listings are true; lists follow their folders |
| `server` | 1 client, 2 users, 2 program versions, 2 secrets in any order, 6 ticks, a data directory that comes and goes, fair | migrations exactly once, a ready server, bounded sessions, sessions of the present secret only, starts and shutdowns end |
| `tasks_race` | 2 handlers, 1 list, 1 task | violation: a recurring task is stored done and is not advanced |
| `tasks_reference` | 1 handler, 1 list | violation: the request's due date is the reference |

To repeat one: `tlc -workers 2 -config MCTasks.cfg MCTaskLists`.

Bounds. Two callers are enough for an entry to be deleted under one that has
looked it up, three for a third to come in by a new entry meanwhile; two cells
force reuse. One note is enough because no operation touches two notes and UUIDs
are never given twice; three titles let a rename chain pass a handler that holds
a stale title, three handlers add a deletion to two renames. Two bodies, one of
them longer than `PreviewRunes` = 1, tell contents and previews apart. Two lists
and three task ids let a request name a task of another list, name one that does
not exist, and hold siblings. The bodies in `MCTaskLists` cover a rule that goes
on (day 1), one that ends (day 2), one that recurs on the same day (`hourly`), no date
(day 9), auto-deleted main tasks and subtasks, blank ids, and a rule without a date,
which validation refuses.
In `folders`, `a` and `ab` are two names of which one begins with the other, `a/a`
is a folder below one of them, and `a/` is a path that validation refuses;
`MaxRequests` = 5 requests past their checks are enough to create a folder, put a
note or a list into it and have two requests overlap on it. All characters have one
byte and none is a wildcard or has a second case, and no request names `.`: those
are covered by the theorems of `ParentDirs_proof`, or listed as hazards, since the
invariants are false for them. In `server`, the clock goes beyond both expiry periods
together (2 + 3), so that a session can run out; two migrations allow an old and a new
program, and two secrets a change and a change back. Handlers are symmetric;
symmetry is used in the note and folder runs without temporal formulas that are
more than a step property.

Fairness. Strong fairness of each goroutine's `Step`. A Go program runs every
runnable goroutine, and a step can be disabled only at a `sync.Mutex` (which
passes to starving waiters), at a path lock (which by `LockReturns` is granted)
and at the database connection (`database/sql` serves waiting requests in turn).
In `Server`, weak fairness of `Main`: nothing disables the next step of `main`
except the end of the process. No fairness is assumed of clients, handlers that
answer, signals, operators, failures or crashes.

### Disagreements with the documents

The four violation runs are the places where the code does something else than
the repository's requirements say; `findings` in `PROJECT.json` quotes them. Three
of them have a weaker form that holds and is checked: without renames
(`notes_fixed`), and when nobody comes between read and transaction to change
the outcome (`RecurringStaysOpenIfFresh`). `RetryIsNoOp` shows the other side of
`tasks_reference`: because the request's date is the reference, a repeated
request does not advance a task twice. The mutant of `RetryIsNoOp` advances from
the stored date, as the requirement asks, and does.

Four findings have no run of their own. `RenameParentDir` cuts prefixes by bytes
where SQLite counts characters: `RenameWide` proves that every row below a folder
whose path has a wider character gets a wrong path. `LIKE` ignores the case of
ASCII letters, so deleting or renaming `a` also touches what is below `A`
(`DeleteExact` and `RenameExact` assume `OneCase`). A failing `RemoveAll` does not
bring the deleted rows back, which the requirements ask for (the failing branch of
`RemoveAll`). And `main` does not wait for the handlers under way when it shuts down
(`Close`, `Exit`).

## Proofs

`tlapm <module>.tla` checks them; nothing is assumed beyond the named ASSUMEs of
the modules, which TLC evaluates in every run.

* `PathLock_proof`, for any finite set of callers, any number of paths and any
  entries. `MutualExclusion` alone is not inductive: one needs to know that all
  callers of a path captured the same entry, which depends on the count that
  keeps it in the map. The invariant `IInv` ties each program point to what is
  held: who has the map mutex (`MutexInv`), that a looked-up entry is still the one
  in the map (`LookupInv`), which entries a caller has captured (`ClosureInv`),
  that entries of different paths differ (`DistinctInv`), who has which entry's
  mutex (`GrantInv`, `HolderInv`), that a caller holds only paths below the ones
  it still wants (`OrderInv`), and `MapExact`. Theorems: `TypeCorrect`, `MutualExclusionHolds`,
  `MapExactHolds`, `NoCircularWaitHolds` (from the order of paths: in a
  would-be circle the holder of the largest path that is waited for would itself
  wait for a larger one), `Refinement` (every step is an `Acquire`, a `Release` or
  leaves `Owner` alone).
* `NoteService_proof`, for any handlers, notes, titles, contents and any set of
  faults, crashes included. The invariant adds to the two properties what a
  handler's program point says of its request (`RequestInv`), of the paths it
  has locked (`LockInv`), of a note that is being created and has no row yet
  (`FreshInv`) and of the file it has created or moved (`FileInv`): while it has
  the path locked, the file is where it left it. A write at the new path
  therefore replaces a file and never makes a second one. Theorems: `TypeCorrect`, `AtMostOneFileHolds`,
  `SentinelNeverReadHolds`.
* `NoteRollback_proof` builds on it: `RowHasFileHolds`, if `Faults` has none of
  `statNew`, `delete`, `undo` and `crash` (`Unrepaired`). These are the failures
  that the code does not repair, and each of them does break `RowHasFile`; the
  assumption is part of the statement. The invariant `RowInv` says of which
  handler it is the turn when a row names no file, and that a handler that is
  writing knows the title that is in the row.
* `NoteStores_proof`, on top of both: row and file agree.
  - `PreviewMatchesHolds`, any number of titles, without `Unrepaired` and
    `update`: when the UPDATE fails, the code brings back the file's name and not
    its content. `ContentInv` and `PreviewInv` carry the written content and the
    moved file from one call of `UpdateNote` to the next.
  - `AckedIsStoredHolds`, all faults and crashes; `NoOrphanFileHolds`, without the
    four faults after which `CreateNote` leaves its file behind (`Leaving`);
    `MissesOnlyDeletedHolds`, without `Unrepaired`. These three assume
    `NumTitles` = 1. That is not a bound but the condition under which they are
    true: with a second title a request can rename, another handler locks a path
    that is not the note's any more, and the runs `notes_orphan` and
    `notes_stale` show what then happens.
  - `StoreRefinement`: with one title, all faults and crashes, `Spec` implies
    `ImplementsNoteStore`. `StoreInv` adds to `IInv` that a note which a handler
    has found (`Knows`) has been made (`Made`): nobody is creating it, and if its
    row is gone its file is gone too. So what a handler sees of the file is what
    the abstract store holds. There is one lemma for each handler's calls
    (`CreateImplements`, `UpdateImplements`, ...), each showing that a call is one
    step of the store or none.

* `TaskLists_proof`, for any handlers, lists, rules and dates, any finite set of
  task ids, request trees of any size and any failing statements: `TypeCorrect`,
  `RowsBelongHolds`, and the action properties `AnswerIsStoredHolds`,
  `OtherListsUntouchedHolds`, `RetryIsNoOpHolds` and
  `RecurringStaysOpenIfFreshHolds`. `RowsBelong` is itself inductive, given the
  types of what handlers carry (`Types`) and that a plan about to be stored was
  computed from the request (`CallsPrepared`). The other theorems follow from
  it and from one lemma on the transaction: it leaves a table in which the list
  reads back as the plan, because replacing a list removes its subtasks through
  their parents, and every other list reads as before.

* `ParentDirs_proof`, for any alphabet, widths and folding. `DeleteReachesAll`
  and `DeleteExact`: the rows that `DeleteByParentDir` deletes are those of the
  folder and below it. `RenameExact`: `RenameParentDir` stores the path that
  `rename(2)` gives the directory. Assumed are `OneCase` (no two characters are equal to
  `LIKE`) and, for the rename, one-byte characters in the old path and a new path
  that is not below the old one. The byte count is the cardinality of a set of
  cells, so its equality with the length is an argument about a bijection.
  `RenameWide` shows that the one-byte assumption cannot be dropped.
* `FolderOps_proof`, for any handlers, paths, names, notes, lists, faults and
  crashes.
  - `TypeCorrect` needs no condition.
  - `NotesInPlaceHolds` and `ListsInPlaceHolds`, up to `disturbed`, assume `Plain`: the paths in
    requests satisfy the two assumptions above (`OneCase`, one byte per
    character). The invariant `PlacesInv` says where the two stores may differ and
    whose turn it is to repair that: for each note, that it is where its row says
    or is not there at all, or which handler has moved or removed one of the two
    and owes the other (`PlaceInv`); what each handler knows of the disk at each call
    (`ControlInv`, `NoteHeld`, `ListHeld`); that the disk is a tree (`TreeInv`); that
    a note being created has no row and no second file (`NotesFresh`); and that up
    to `disturbed` no two requests under way concern related folders
    (`NoTangle`), so that nobody else pays a debt or takes the directory away.
  - `ListingTrueHolds` assumes also that no request names `.`, which would list the
    root's directory and the rows of a folder `.`. `Progress` says of a calm
    `ListFiles` that what it has counted so far is what the disk and the tables
    hold.
  - `ListsFollow`, the action property `ListsFollowFolders`, under `Plain`. The
    invariant `ListsInv` carries to the transaction what the checks established:
    that the request of a handler at `renameRows` is a rename whose target is not
    below its path (`TargetNotUnder`: a name has no slash), and that the id of a list
    about to be inserted has no row yet (`Fresh`).
* `Server_proof`: the five safety properties of `Server`, for any clients, users,
  periods and numbers of migrations. `SessionBounded` rests on an invariant about the tokens of
  the clients: a refresh token expires at most one refresh period after its
  Login, an access token at most one access period after that. `RotationRevokes`
  rests on one about secrets: a token is signed with the secret of the Login it goes
  back to, which `RefreshToken` keeps because it hands out a token under the secret
  that the old one was valid for. `SchemaExact` rests on `SchemaInv`, which says for
  each step of `createSchema` how far the disk lags behind the open transaction:
  after `ExecMigration` it lacks a migration, after `SetVersion` also a version, and
  whatever ends the transaction leaves the disk as `BeginMigration` found it.

Only model-checked: liveness (`LockReturns`, the two `EveryRequestAnswered`,
`NeverStuck`), which the prover does not handle under fairness. Every other property
of a passing run is stated by a theorem. `StoreRefinement` covers more than the
run `notes_fixed`, in which `NoOrphanFile` does not allow all faults.

## Not modelled, and what is left to do

1. An observer for what `GetTaskList` and `GetMainTask` return from their two
   statements.
2. Weaker forms of `AckedIsStored` and `NoOrphanFile` that hold with renames, as
   long as no two requests on one note overlap.
3. The task counts of `ListTaskListsWithCounts`, which are computed by SQL alone.

Left out for good: generated protobuf code, logging, the HTTP middlewares (body
limit, CORS, reflection), reading the environment, password hashing and
signing, symbolic links below the data directory, UUID syntax and content
length (a request that they refuse changes nothing).
