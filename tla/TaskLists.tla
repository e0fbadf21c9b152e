----------------------------- MODULE TaskLists -----------------------------
(***************************************************************************)
(* The task list RPC handlers over the SQLite tables task_lists and tasks. *)
(* There are no locks: the one connection of the pool serialises           *)
(* statements and transactions, and a handler that needs two of them       *)
(* (UpdateTaskList, GetTaskList, GetMainTask, ListTaskLists) can be        *)
(* overtaken in between.                                                   *)
(*                                                                         *)
(* A tree is what a request or a response carries: a sequence of main      *)
(* tasks, each with a sequence of subtasks.  Descriptions and titles are   *)
(* left out; dates are numbered in order, 0 is the empty string.           *)
(***************************************************************************)
EXTENDS Integers, Sequences, FiniteSets, Functions

CONSTANTS
    Handlers,       \* goroutines that serve requests
    ListIds,        \* UUIDs for task lists
    TaskIds,        \* UUIDs for tasks, made by the server or named by a client
    Dates,          \* due dates in use, a set of positive numbers
    Unparsable,     \* those that match the regexp and are no dates (2024-02-31)
    Rules,          \* recurrence rules
    NextDate,       \* NextDate[rule, date], 0 if there is none
    Bodies,         \* what requests carry: trees, and auto, which is is_auto_delete
    MaxTasks,       \* common.MaxTasksPerList
    MaxSubtasks,    \* common.MaxSubtasksPerTask
    NoRule,         \* the empty recurrence
    Blank,          \* the empty task id
    None            \* no row, no parent, no list, no value

\* How a request is answered.
Replies == {"ok", "invalid", "notfound", "internal"}

\* rrule's After: the date of the rule's next occurrence, which may be the same
\* day (FREQ=HOURLY), or 0.
After(rule, date) == NextDate[<<rule, date>>]

ASSUME IdsAssumption ==
    /\ IsFiniteSet(TaskIds)
    /\ Blank \notin TaskIds
    /\ None \notin TaskIds \cup ListIds \cup Handlers
    /\ None \notin BOOLEAN /\ None \notin Replies
ASSUME DatesAssumption == Dates \subseteq Nat \ {0} /\ Unparsable \subseteq Dates
ASSUME RulesAssumption ==
    /\ NoRule \notin Rules
    /\ NextDate \in [Rules \X Dates -> Dates \cup {0}]

\* What a tree is made of, the ids being from the set given.
SubTasks(ids)  == [id : ids, done : BOOLEAN]
MainTasks(ids) == [id : ids, done : BOOLEAN, due : Dates \cup {0}, rec : Rules \cup {NoRule},
                   subs : Seq(SubTasks(ids))]
Trees(ids)     == Seq(MainTasks(ids))

TaskRows == [list : ListIds \cup {None}, parent : TaskIds \cup {None}, position : Nat,
             done : BOOLEAN, due : Dates \cup {0}, rec : Rules \cup {NoRule}]

ASSUME BodiesAssumption == Bodies \subseteq [tree : Trees(TaskIds \cup {Blank}), auto : BOOLEAN]
ASSUME RowsAssumption   == None \notin TaskRows

VARIABLES
    lists,      \* table task_lists: is_auto_delete of each list, or None
    tasks,      \* table tasks: the row of each task, or None
    cursor,     \* the handler whose open result set has the connection, or None
    pc,         \* the next database call of each handler
    call,       \* its request and what it has read so far
    reply       \* the outcome it has decided on, or None

vars == <<lists, tasks, cursor, pc, call, reply>>

Idle(h) == pc[h] = "idle"

\* The local variables of a handler: the request (op, list, tree, auto), the
\* tree that UpdateTaskList wants to store (plan), and the lists that
\* ListTaskLists has found and not read (todo).
NoCall == [op |-> "none", list |-> None, tree |-> <<>>, auto |-> FALSE,
           plan |-> <<>>, todo |-> {}]

-----------------------------------------------------------------------------
(***************************************************************************)
(* Trees and rows.                                                         *)
(***************************************************************************)
\* The places of a tree: <<i, 0>> is main task i, <<i, j>> its subtask j.
Slots(tree) == UNION {{<<i, j>> : j \in 0 .. Len(tree[i].subs)} : i \in DOMAIN tree}

IdAt(tree, s) == IF s[2] = 0 THEN tree[s[1]].id ELSE tree[s[1]].subs[s[2]].id
IdsOf(tree)   == {IdAt(tree, s) : s \in Slots(tree)}

\* The tree with the task ids of f, where f has one.
WithIds(tree, f) ==
    LET id(s) == IF s \in DOMAIN f THEN f[s] ELSE IdAt(tree, s) IN
    [i \in DOMAIN tree |->
        [tree[i] EXCEPT !.id = id(<<i, 0>>),
                        !.subs = [j \in DOMAIN @ |-> [@[j] EXCEPT !.id = id(<<i, j>>)]]]]

\* uuid.NewString: an id that no row and no request has.
FreshTasks ==
    {t \in TaskIds : /\ tasks[t] = None
                     /\ \A h \in Handlers : t \notin IdsOf(call[h].tree)}
FreshLists ==
    {l \in ListIds : lists[l] = None /\ \A h \in Handlers : call[h].list # l}

\* The ids that uuid.NewString can give to the places S of a tree.
Namings(tree, S) ==
    LET named == {IdAt(tree, s) : s \in Slots(tree) \ S} IN
    Injection(S, FreshTasks \ named)

\* Mutant: every row of a list gets the same position.
RowAtUnnumbered(list, tree, s) ==
    LET main == tree[s[1]] IN
    IF s[2] = 0
      THEN [list |-> list, parent |-> None, position |-> Len(tree) - s[1], done |-> main.done,
            due |-> main.due, rec |-> main.rec]
      ELSE [list |-> None, parent |-> main.id, position |-> 0,
            done |-> main.subs[s[2]].done, due |-> 0, rec |-> NoRule]

\* insertTask: a main task has its list set, a subtask its parent.
RowAt(list, tree, s) ==
    LET main == tree[s[1]] IN
    IF s[2] = 0
      THEN [list |-> list, parent |-> None, position |-> s[1] - 1, done |-> main.done,
            due |-> main.due, rec |-> main.rec]
      ELSE [list |-> None, parent |-> main.id, position |-> s[2] - 1,
            done |-> main.subs[s[2]].done, due |-> 0, rec |-> NoRule]

IsMain(t) == tasks[t] # None /\ tasks[t].list # None

Mains(list) == {t \in TaskIds : IsMain(t) /\ tasks[t].list = list}
Subs(main)  == {t \in TaskIds : tasks[t] # None /\ tasks[t].parent = main}

\* ORDER BY position: the n-th row is the one that n rows do not exceed.
ByPosition(S) ==
    [n \in 1 .. Cardinality(S) |->
        CHOOSE t \in S : Cardinality({u \in S : tasks[u].position <= tasks[t].position}) = n]

\* taskRowsToMainTasks and singleTaskRowToMainTask.
MainTask(t) ==
    LET subs == ByPosition(Subs(t)) IN
    [id |-> t, done |-> tasks[t].done, due |-> tasks[t].due, rec |-> tasks[t].rec,
     subs |-> [j \in DOMAIN subs |-> [id |-> subs[j], done |-> tasks[subs[j]].done]]]

\* queryTasksByTaskListId: the tasks of a list as they are stored.
Stored(list) ==
    LET mains == ByPosition(Mains(list)) IN [i \in DOMAIN mains |-> MainTask(mains[i])]

\* The rows without those of the list: DELETE by task_list_id or parent, or the
\* cascade from the list's row.
Without(list) ==
    [t \in TaskIds |-> IF t \in Mains(list) \cup UNION {Subs(m) : m \in Mains(list)}
                         THEN None ELSE tasks[t]]

\* Mutant: INSERT OR REPLACE, a task id that is taken is overwritten.
InsertableAnyway(kept, tree) == TRUE

\* No id of the tree violates the primary key, once the rows in kept are there.
Insertable(kept, tree) ==
    /\ \A s, r \in Slots(tree) : IdAt(tree, s) = IdAt(tree, r) => s = r
    /\ \A s \in Slots(tree) : kept[IdAt(tree, s)] = None

Inserted(kept, list, tree) ==
    [t \in TaskIds |->
        IF \E s \in Slots(tree) : IdAt(tree, s) = t
          THEN RowAt(list, tree, CHOOSE s \in Slots(tree) : IdAt(tree, s) = t)
          ELSE kept[t]]

-----------------------------------------------------------------------------
(***************************************************************************)
(* What UpdateTaskList makes of a request.                                 *)
(***************************************************************************)
\* validateTasks.
Valid(tree) ==
    /\ Len(tree) <= MaxTasks
    /\ \A task \in Range(tree) :
          /\ Len(task.subs) <= MaxSubtasks
          /\ task.rec # NoRule => task.due # 0

\* The task is recurring and its is_done goes from false to true.
NewlyDone(task, existing) ==
    /\ task.rec # NoRule /\ task.done
    /\ \E e \in Range(existing) : e.id = task.id /\ ~e.done

CannotAdvance(tree, existing) ==
    \E task \in Range(tree) :
       /\ NewlyDone(task, existing)
       /\ task.due \in Unparsable \/ After(task.rec, task.due) = 0

\* Mutant: the stored due date is the reference, not the one in the request.
AdvanceFromStored(tree, existing) ==
    [i \in DOMAIN tree |->
        IF NewlyDone(tree[i], existing)
          THEN LET e == CHOOSE e \in Range(existing) : e.id = tree[i].id
                   next == IF e.due = 0 \/ tree[i].rec = NoRule THEN 0
                             ELSE After(tree[i].rec, e.due)
               IN  [tree[i] EXCEPT !.done = FALSE, !.due = next]
          ELSE tree[i]]

\* Mutant: a completed task is advanced and stays done.
AdvanceKeepsDone(tree, existing) ==
    [i \in DOMAIN tree |->
        IF NewlyDone(tree[i], existing)
          THEN [tree[i] EXCEPT !.due = After(tree[i].rec, tree[i].due)]
          ELSE tree[i]]

AdvanceRecurringTasks(tree, existing) ==
    [i \in DOMAIN tree |->
        IF NewlyDone(tree[i], existing)
          THEN [tree[i] EXCEPT !.done = FALSE, !.due = After(tree[i].rec, tree[i].due)]
          ELSE tree[i]]

\* The elements of seq at the indices K, in their order.
Picked(seq, K) ==
    [n \in 1 .. Cardinality(K) |-> seq[CHOOSE k \in K : Cardinality({j \in K : j <= k}) = n]]

OpenSubs(task) == Picked(task.subs, {j \in DOMAIN task.subs : ~task.subs[j].done})
Stays(tree)    == {i \in DOMAIN tree : ~(tree[i].done /\ tree[i].rec = NoRule)}

FilterAutoDeleted(tree) ==
    Picked([i \in DOMAIN tree |-> [tree[i] EXCEPT !.subs = OpenSubs(tree[i])]], Stays(tree))

Outcome(tree, auto, existing) ==
    LET advanced == AdvanceRecurringTasks(tree, existing) IN
    IF auto THEN FilterAutoDeleted(advanced) ELSE advanced

-----------------------------------------------------------------------------
TypeOK ==
    /\ lists \in [ListIds -> BOOLEAN \cup {None}]
    /\ tasks \in [TaskIds -> TaskRows \cup {None}]
    /\ cursor \in Handlers \cup {None}
    /\ pc \in [Handlers -> {"idle", "readTasks", "updateTx", "readSubs", "listScan",
                            "listTasks", "done"}]
    /\ DOMAIN call = Handlers
    /\ \A h \in Handlers :
          /\ call[h].list \in ListIds \cup {None}
          /\ call[h].todo \subseteq ListIds
          /\ \A tree \in {call[h].tree, call[h].plan} : IdsOf(tree) \subseteq TaskIds
    /\ reply \in [Handlers -> Replies \cup {None}]

Init ==
    /\ lists = [l \in ListIds |-> None]
    /\ tasks = [t \in TaskIds |-> None]
    /\ cursor = None
    /\ pc = [h \in Handlers |-> "idle"]
    /\ call = [h \in Handlers |-> NoCall]
    /\ reply = [h \in Handlers |-> None]

\* The handler goes on to another database call, with these local variables.
Goto(h, label, local) ==
    /\ pc' = [pc EXCEPT ![h] = label]
    /\ call' = [call EXCEPT ![h] = local]
    /\ UNCHANGED reply

Return(h, outcome) ==
    /\ pc' = [pc EXCEPT ![h] = "done"]
    /\ call' = [call EXCEPT ![h] = NoCall]
    /\ reply' = [reply EXCEPT ![h] = outcome]

\* The handler is at this call and gets the connection.
Query(h, label) == pc[h] = label /\ cursor = None

Tables == <<lists, tasks>>

-----------------------------------------------------------------------------
(***************************************************************************)
(* A request that fails validation, and the response.  Up to its first     *)
(* database call a handler works on the request alone, so a request starts *)
(* with that call.                                                         *)
(***************************************************************************)
Refuse(h) ==
    /\ Idle(h)
    /\ \E body \in Bodies : ~Valid(body.tree)
    /\ Return(h, "invalid")
    /\ UNCHANGED <<Tables, cursor>>

Respond(h) ==
    /\ pc[h] = "done"
    /\ pc' = [pc EXCEPT ![h] = "idle"]
    /\ reply' = [reply EXCEPT ![h] = None]
    /\ UNCHANGED <<Tables, cursor, call>>

-----------------------------------------------------------------------------
(***************************************************************************)
(* CreateTaskList and DeleteTaskList: one transaction.                     *)
(***************************************************************************)
\* A transaction that stores the tree in the list, the rows in kept being there;
\* it fails as a whole.
Store(h, list, auto, kept, tree) ==
    \/ /\ ~Insertable(kept, tree)
       /\ Return(h, "internal")
       /\ UNCHANGED Tables
    \/ /\ Insertable(kept, tree)
       /\ lists' = [lists EXCEPT ![list] = auto]
       /\ tasks' = Inserted(kept, list, tree)
       /\ Return(h, "ok")

\* CreateTaskList makes the ids of all tasks, whatever the request says.
CreateTaskList(h) ==
    /\ Query(h, "idle")
    /\ \E l \in FreshLists, body \in Bodies :
         /\ Valid(body.tree)
         /\ \E f \in Namings(body.tree, Slots(body.tree)) :
              Store(h, l, body.auto, tasks, WithIds(body.tree, f))
    /\ UNCHANGED cursor

\* Mutant: no cascade, as when foreign_keys is off.
DeleteTaskListOnly(h) ==
    /\ Query(h, "idle")
    /\ \E l \in ListIds :
         /\ lists' = [lists EXCEPT ![l] = None]
         /\ Return(h, IF lists[l] = None THEN "notfound" ELSE "ok")
    /\ UNCHANGED <<tasks, cursor>>

DeleteTaskList(h) ==
    /\ Query(h, "idle")
    /\ \E l \in ListIds :
         /\ lists' = [lists EXCEPT ![l] = None]
         /\ tasks' = Without(l)
         /\ Return(h, IF lists[l] = None THEN "notfound" ELSE "ok")
    /\ UNCHANGED cursor

-----------------------------------------------------------------------------
(***************************************************************************)
(* GetTaskList and UpdateTaskList: database.GetTaskList is two statements. *)
(* UpdateTaskList then works out what to store and does so in a            *)
(* transaction of its own.                                                 *)
(***************************************************************************)
ReadList(h, local) ==
    /\ Query(h, "idle")
    /\ IF lists[local.list] = None THEN Return(h, "notfound") ELSE Goto(h, "readTasks", local)
    /\ UNCHANGED <<Tables, cursor>>

GetTaskList(h) ==
    \E l \in ListIds : ReadList(h, [NoCall EXCEPT !.op = "get", !.list = l])

\* Mutant: a blank id stays blank.
UpdateTaskListUnnamed(h) ==
    \E l \in ListIds, body \in Bodies :
       /\ Valid(body.tree)
       /\ ReadList(h, [NoCall EXCEPT !.op = "update", !.list = l, !.auto = body.auto,
                                    !.tree = body.tree])

\* UpdateTaskList makes the ids that the request leaves blank.
UpdateTaskList(h) ==
    /\ Idle(h)
    /\ \E l \in ListIds, body \in Bodies :
       /\ Valid(body.tree)
       /\ \E f \in Namings(body.tree, {s \in Slots(body.tree) : IdAt(body.tree, s) = Blank}) :
            ReadList(h, [NoCall EXCEPT !.op = "update", !.list = l, !.auto = body.auto,
                                       !.tree = WithIds(body.tree, f)])

ReadTasks(h) ==
    /\ Query(h, "readTasks")
    /\ \E existing \in {Stored(call[h].list)}, tree \in {call[h].tree} :
           \/ /\ call[h].op = "get"
              /\ Return(h, "ok")
           \/ /\ call[h].op = "update" /\ CannotAdvance(tree, existing)
              /\ Return(h, "internal")
           \/ /\ call[h].op = "update" /\ ~CannotAdvance(tree, existing)
              /\ Goto(h, "updateTx",
                      [call[h] EXCEPT !.plan = Outcome(tree, call[h].auto, existing)])
    /\ UNCHANGED <<Tables, cursor>>

UpdateTx(h) ==
    /\ Query(h, "updateTx")
    /\ \/ /\ lists[call[h].list] = None
          /\ Return(h, "notfound")
          /\ UNCHANGED Tables
       \/ /\ lists[call[h].list] # None
          /\ Store(h, call[h].list, call[h].auto, Without(call[h].list), call[h].plan)
    /\ UNCHANGED cursor

-----------------------------------------------------------------------------
(***************************************************************************)
(* The other reads.                                                        *)
(***************************************************************************)
\* database.GetMainTask: the main row, then its subtasks.
GetMainTask(h) ==
    /\ Query(h, "idle")
    /\ \E t \in TaskIds :
         IF IsMain(t) THEN Goto(h, "readSubs", NoCall) ELSE Return(h, "notfound")
    /\ UNCHANGED <<Tables, cursor>>

ReadSubs(h) ==
    /\ Query(h, "readSubs")
    /\ Return(h, "ok")
    /\ UNCHANGED <<Tables, cursor>>

\* database.ListTaskLists: the result set has the connection until its last row
\* is read; only then are the tasks of each list queried.
ListTaskLists(h) ==
    /\ Query(h, "idle")
    /\ cursor' = h
    /\ Goto(h, "listScan", [NoCall EXCEPT !.todo = {l \in ListIds : lists[l] # None}])
    /\ UNCHANGED Tables

\* Mutant: the tasks are queried while the result set is open.
ListScanNested(h) ==
    /\ pc[h] = "listScan"
    /\ cursor' = IF call[h].todo = {} THEN None ELSE cursor
    /\ Goto(h, "listTasks", call[h])
    /\ UNCHANGED Tables

ListScan(h) ==
    /\ pc[h] = "listScan"
    /\ cursor' = None
    /\ Goto(h, "listTasks", call[h])
    /\ UNCHANGED Tables

ListTasks(h) ==
    /\ pc[h] = "listTasks"
    /\ \/ /\ cursor = None
          /\ \E l \in call[h].todo : Goto(h, "listTasks", [call[h] EXCEPT !.todo = @ \ {l}])
       \/ /\ call[h].todo = {}
          /\ Return(h, "ok")
    /\ UNCHANGED <<Tables, cursor>>

\* database.ListUpcomingMainTasks, from the date on.
Upcoming(from) ==
    {t \in TaskIds : IsMain(t) /\ ~tasks[t].done /\ tasks[t].due # 0 /\ tasks[t].due >= from}

ListUpcomingMainTasks(h) ==
    /\ Query(h, "idle")
    /\ Return(h, "ok")
    /\ UNCHANGED <<Tables, cursor>>

\* Any call to the database may fail; a transaction is rolled back and an open
\* result set is closed.
DbError(h) ==
    /\ pc[h] # "done"
    /\ cursor \in {None, h}
    /\ ~(pc[h] = "listTasks" /\ call[h].todo = {})
    /\ cursor' = None
    /\ Return(h, "internal")
    /\ UNCHANGED Tables

-----------------------------------------------------------------------------
Request(h) ==
    \/ CreateTaskList(h) \/ DeleteTaskList(h) \/ GetTaskList(h) \/ UpdateTaskList(h)
    \/ GetMainTask(h) \/ ListTaskLists(h) \/ ListUpcomingMainTasks(h) \/ Refuse(h)

Step(h) ==
    \/ ReadTasks(h) \/ UpdateTx(h) \/ ReadSubs(h) \/ ListScan(h) \/ ListTasks(h)
    \/ Respond(h)

Next == \E h \in Handlers : Request(h) \/ Step(h) \/ DbError(h)

Spec == Init /\ [][Next]_vars

\* Every goroutine runs on; database/sql gives the connection to the waiters in
\* turn.
Fairness == \A h \in Handlers : SF_vars(Step(h))

FairSpec == Spec /\ Fairness

-----------------------------------------------------------------------------
\* In this step h commits an update of the list.
Updates(h, l) == pc[h] = "updateTx" /\ call[h].list = l /\ reply'[h] = "ok"

\* Every row belongs: a main task to a list that exists, a subtask to a main
\* task that exists, and siblings are numbered from 0 without gaps (insertTask,
\* the DELETE of UpdateTaskList and the cascade of DeleteTaskList).
RowsBelong ==
    /\ \A t \in TaskIds : tasks[t] # None =>
          \/ tasks[t].parent = None /\ tasks[t].list # None /\ lists[tasks[t].list] # None
          \/ tasks[t].list = None /\ tasks[t].parent # None /\ IsMain(tasks[t].parent)
    /\ \A S \in {Mains(l) : l \in ListIds} \cup {Subs(m) : m \in TaskIds} :
          {tasks[t].position : t \in S} = 0 .. Cardinality(S) - 1

\* UpdateTaskList answers with the tree that a later GetTaskList reads back, in
\* the same order, whatever was stored before and whoever changed it since it
\* was read.
AnswerIsStored ==
    [][\A h \in Handlers, l \in ListIds : Updates(h, l) => Stored(l)' = call[h].plan]_vars

\* The tasks of a list change only when the list is deleted or by an
\* UpdateTaskList of that list that is answered with success: no request takes
\* over a task of another list by its id, and a failed one changes nothing.
OtherListsUntouched ==
    [][\A l \in ListIds :
          lists[l] # None /\ Stored(l)' # Stored(l) =>
             lists'[l] = None \/ \E h \in Handlers : Updates(h, l)]_tasks

\* A client that names its tasks and repeats an UpdateTaskList whose answer it
\* has lost changes nothing: a completed recurring task is not advanced a second
\* time, although the first advance has reopened it.
RetryIsNoOp ==
    [][\A h \in Handlers, l \in ListIds : Updates(h, l) =>
          LET stored == Stored(l)' IN
          Outcome(call[h].tree, call[h].auto, stored) = stored]_vars

\* In this step an open task of the list is stored as recurring and not open.
LosesReopening(l) ==
    \E t \in Mains(l) :
       /\ ~tasks[t].done
       /\ IsMain(t)' /\ tasks'[t].rec # NoRule
       /\ t \notin Upcoming(1)'

\* An open task that UpdateTaskList completes and that recurs is open again in
\* the same transaction, and so still upcoming.
RecurringStaysOpen ==
    [][\A h \in Handlers, l \in ListIds : Updates(h, l) => ~LosesReopening(l)]_vars

\* UpdateTaskList would still decide as it did: nobody has come between its read
\* and its transaction to change the outcome.
UpToDate(h, l) == call[h].plan = Outcome(call[h].tree, call[h].auto, Stored(l))

\* The same, when the update still fits the list it overwrites.
RecurringStaysOpenIfFresh ==
    [][\A h \in Handlers, l \in ListIds :
          Updates(h, l) /\ UpToDate(h, l) => ~LosesReopening(l)]_vars

\* A completed recurring task is advanced from the due date that is stored.
AdvancesFromStoredDate ==
    [][\A h \in Handlers, l \in ListIds :
          Updates(h, l) /\ UpToDate(h, l) =>
             \A task \in Range(call[h].tree), e \in Range(Stored(l)) :
                e.id = task.id /\ e.rec = task.rec /\ NewlyDone(task, Stored(l)) =>
                   tasks'[task.id].due = After(e.rec, e.due)]_vars

\* Every request is answered: no handler waits for the connection that it has
\* itself.
EveryRequestAnswered == \A h \in Handlers : ~Idle(h) ~> Idle(h)
=============================================================================
