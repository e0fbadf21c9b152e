------------------------------- MODULE Server -------------------------------
(***************************************************************************)
(* The life of the server process: main.go from its start over the schema  *)
(* migrations (database/schema.go) and the user store (auth/user_store.go) *)
(* to the shutdown, and the tokens (auth/) that outlive it.  The database, *)
(* users.json and the tokens of the clients survive the process; an        *)
(* operator may edit users.json, change JWT_SECRET and install another     *)
(* version of the program while it is down.                                *)
(***************************************************************************)
EXTENDS Integers, Sequences

CONSTANTS
    Clients,
    Users,          \* user names
    DefaultUser,    \* AUTH_DEFAULT_USER
    AccessTtl, RefreshTtl,
    MaxTime,        \* bound: the clock stops here
    MaxMigrations,  \* bound: migrations that the newest program has
    Secrets,        \* the values of JWT_SECRET
    None            \* no token, no request, no transaction

ASSUME UsersAssumption == DefaultUser \in Users
ASSUME TtlAssumption   == AccessTtl \in Nat /\ RefreshTtl \in Nat
ASSUME BoundAssumption == MaxTime \in Nat /\ MaxMigrations \in Nat

\* users.json: not there, there and not complete, or complete with some users.
Absent          == [state |-> "absent", users |-> {}]
Torn            == [state |-> "torn", users |-> {}]
Complete(users) == [state |-> "complete", users |-> users]
UserFiles       == {Absent, Torn} \cup {Complete(users) : users \in SUBSET Users}

\* The schema and PRAGMA user_version as an open transaction sees them.
Transactions == [schema : Seq(1..MaxMigrations), version : 0..MaxMigrations]

\* History: a Login, with the time and the secret that the server had then.
Logins == [time : 0..MaxTime, secret : Secrets]

\* What a token claims, and two things it does not say: the secret it was
\* signed with, and the Login that it goes back to.
Tokens == [type : {"access", "refresh"}, user : Users, exp : Int,
           secret : Secrets, login : Logins]

\* A request that the interceptor let through, with the time when it did.
Requests == [user : Users, login : Logins, at : 0..MaxTime]

ASSUME NoneAssumption == None \notin Tokens /\ None \notin Requests

VARIABLES
    phase,      \* where main is, "down" when there is no process
    program,    \* len(migrations) in the program that runs
    turn,       \* i, the counter of createSchema's loop
    tx,         \* the open transaction of createSchema
    schema,     \* on disk: the migrations committed so far, in order
    version,    \* on disk: PRAGMA user_version
    file,       \* users.json
    store,      \* UserStore.users
    dataDir,    \* what can be done with the data directory
    secret,     \* JWT_SECRET
    now,        \* the clock
    access, refresh,    \* the tokens that each client holds
    work        \* the request of each client that a handler works on

disk == <<schema, version, file>>
boot == <<turn, tx>>
env  == <<program, secret>>
held == <<access, refresh>>
vars == <<phase, boot, disk, env, store, dataDir, now, held, work>>

Phases == {"down", "open", "begin", "exec", "pragma", "commit",
           "users", "write", "listen", "serving", "closing", "closed"}

InTransaction == phase \in {"exec", "pragma", "commit"}

TypeOK ==
    /\ phase \in Phases
    /\ program \in 0..MaxMigrations
    /\ turn \in 0..MaxMigrations
    /\ tx \in Transactions \cup {None}
    /\ schema \in Seq(1..MaxMigrations)
    /\ version \in 0..MaxMigrations
    /\ file \in UserFiles
    /\ store \in SUBSET Users
    /\ dataDir \in {"writable", "readonly", "missing"}
    /\ secret \in Secrets
    /\ now \in 0..MaxTime
    /\ access \in [Clients -> Tokens \cup {None}]
    /\ refresh \in [Clients -> Tokens \cup {None}]
    /\ work \in [Clients -> Requests \cup {None}]

Init ==
    /\ phase = "down"
    /\ program = 0
    /\ turn = 0
    /\ tx = None
    /\ schema = <<>>
    /\ version = 0
    /\ file = Absent
    /\ store = {}
    /\ dataDir = "writable"
    /\ secret \in Secrets
    /\ now = 0
    /\ access = [c \in Clients |-> None]
    /\ refresh = [c \in Clients |-> None]
    /\ work = [c \in Clients |-> None]

-----------------------------------------------------------------------------
(***************************************************************************)
(* Start.  Every failure ends the process: os.Exit, or a crash.            *)
(***************************************************************************)
\* The operator starts some program, with some JWT_SECRET: a new one or one
\* that was in use before.
Start ==
    /\ phase = "down"
    /\ phase' = "open"
    /\ program' \in 1..MaxMigrations
    /\ secret' \in Secrets
    /\ store' = {}
    /\ UNCHANGED <<boot, disk, dataDir, now, held, work>>

\* EvalSymlinks and database.New find the data directory, and createSchema
\* reads user_version.
OpenDatabase ==
    /\ phase = "open"
    /\ dataDir # "missing"
    /\ turn' = version
    /\ phase' = "begin"
    /\ UNCHANGED <<tx, disk, env, store, dataDir, now, held, work>>

\* A mutated createSchema whose loop runs once too often.
BeginTooFar ==
    /\ phase = "begin"
    /\ turn <= program
    /\ tx' = [schema |-> schema, version |-> version]
    /\ phase' = "exec"
    /\ UNCHANGED <<turn, disk, env, store, dataDir, now, held, work>>

BeginMigration ==
    /\ phase = "begin"
    /\ turn < program
    /\ tx' = [schema |-> schema, version |-> version]
    /\ phase' = "exec"
    /\ UNCHANGED <<turn, disk, env, store, dataDir, now, held, work>>

\* A mutated migration with a COMMIT in its text.
ExecCommitted ==
    /\ phase = "exec"
    /\ schema' = Append(tx.schema, turn + 1)
    /\ tx' = [tx EXCEPT !.schema = schema']
    /\ phase' = "pragma"
    /\ UNCHANGED <<turn, version, file, env, store, dataDir, now, held, work>>

\* tx.Exec of the migration: nothing of it is on disk before the commit.
ExecMigration ==
    /\ phase = "exec"
    /\ tx' = [tx EXCEPT !.schema = Append(@, turn + 1)]
    /\ phase' = "pragma"
    /\ UNCHANGED <<turn, disk, env, store, dataDir, now, held, work>>

\* tx.Exec of PRAGMA user_version, in the same transaction.
SetVersion ==
    /\ phase = "pragma"
    /\ tx' = [tx EXCEPT !.version = turn + 1]
    /\ phase' = "commit"
    /\ UNCHANGED <<turn, disk, env, store, dataDir, now, held, work>>

\* The disk takes over what the transaction did, all of it or nothing.
CommitMigration ==
    /\ phase = "commit"
    /\ schema' = tx.schema
    /\ version' = tx.version
    /\ tx' = None
    /\ turn' = turn + 1
    /\ phase' = "begin"
    /\ UNCHANGED <<file, env, store, dataDir, now, held, work>>

SchemaCreated ==
    /\ phase = "begin"
    /\ turn >= program
    /\ phase' = "users"
    /\ UNCHANGED <<boot, disk, env, store, dataDir, now, held, work>>

\* A mutated LoadOrInitialize that goes on after a parse error.
LoadAnything ==
    /\ phase = "users"
    /\ file # Absent
    /\ store' = file.users
    /\ phase' = "listen"
    /\ UNCHANGED <<boot, disk, env, dataDir, now, held, work>>

\* LoadOrInitialize with a file: a complete one is parsed.
LoadUsers ==
    /\ phase = "users"
    /\ file \notin {Absent, Torn}
    /\ store' = file.users
    /\ phase' = "listen"
    /\ UNCHANGED <<boot, disk, env, dataDir, now, held, work>>

\* LoadOrInitialize without one, and with AUTH_DEFAULT_PASSWORD: os.WriteFile
\* truncates the file, then writes it.
TruncateUsers ==
    /\ phase = "users"
    /\ file = Absent
    /\ store' = {DefaultUser}
    /\ file' = Torn
    /\ phase' = "write"
    /\ UNCHANGED <<boot, schema, version, env, dataDir, now, held, work>>

WriteUsers ==
    /\ phase = "write"
    /\ file' = Complete(store)
    /\ phase' = "listen"
    /\ UNCHANGED <<boot, schema, version, env, store, dataDir, now, held, work>>

Listen ==
    /\ phase = "listen"
    /\ phase' = "serving"
    /\ UNCHANGED <<boot, disk, env, store, dataDir, now, held, work>>

\* The process ends, whatever its handlers were doing: a failing start, a
\* crash, or the return of main.  An open transaction is rolled back, by
\* createSchema or by the next process that opens the database.
Gone ==
    /\ phase' = "down"
    /\ turn' = 0
    /\ tx' = None
    /\ store' = {}
    /\ work' = [c \in Clients |-> None]
    /\ UNCHANGED <<disk, env, dataDir, now, held>>

Crash == phase # "down" /\ Gone

\* The data directory cannot be opened.  In a readonly one SQLite manages only
\* if the files it needs are already there.
OpenFails == phase = "open" /\ dataDir # "writable" /\ Gone

\* A statement or the commit of createSchema fails.
MigrationFails == InTransaction /\ Gone

\* LoadOrInitialize fails: the file does not parse, or there is none and
\* AUTH_DEFAULT_PASSWORD is empty.
LoadFails == phase = "users" /\ file \in {Absent, Torn} /\ Gone

\* The operator edits or removes users.json between two runs.
EditUsers ==
    /\ phase = "down"
    /\ file' \in UserFiles \ {Torn}
    /\ UNCHANGED <<phase, boot, schema, version, env, store, dataDir, now, held, work>>

-----------------------------------------------------------------------------
(***************************************************************************)
(* Tokens.                                                                 *)
(***************************************************************************)
\* generateToken, with the Login that the token goes back to.
GenerateToken(type, user, ttl, login) ==
    [type |-> type, user |-> user, exp |-> now + ttl, secret |-> secret, login |-> login]

\* A mutated ValidateToken that does not look at the signature.
ValidateUnsigned(token) == token # None /\ now < token.exp

\* ValidateToken: signed with this secret, and not expired.
ValidateToken(token) == token # None /\ token.secret = secret /\ now < token.exp

ThisLogin == [time |-> now, secret |-> secret]

Login(c) ==
    /\ phase = "serving"
    /\ \E u \in store :
          /\ access' = [access EXCEPT ![c] = GenerateToken("access", u, AccessTtl, ThisLogin)]
          /\ refresh' = [refresh EXCEPT ![c] = GenerateToken("refresh", u, RefreshTtl, ThisLogin)]
    /\ UNCHANGED <<phase, boot, disk, env, store, dataDir, now, work>>

\* A mutated RefreshToken that takes any token.
RefreshAny(c, token) ==
    /\ phase = "serving"
    /\ ValidateToken(token)
    /\ access' = [access EXCEPT ![c] =
                     GenerateToken("access", token.user, AccessTtl, token.login)]
    /\ UNCHANGED <<phase, boot, disk, env, store, dataDir, now, refresh, work>>

\* RefreshToken, with either token of the client.
RefreshToken(c, token) ==
    /\ phase = "serving"
    /\ ValidateToken(token)
    /\ token.type = "refresh"
    /\ access' = [access EXCEPT ![c] =
                     GenerateToken("access", token.user, AccessTtl, token.login)]
    /\ UNCHANGED <<phase, boot, disk, env, store, dataDir, now, refresh, work>>

\* The interceptor lets a request for any other procedure through.
Request(c, token) ==
    /\ phase = "serving"
    /\ work[c] = None
    /\ ValidateToken(token)
    /\ token.type = "access"
    /\ work' = [work EXCEPT ![c] = [user |-> token.user, login |-> token.login, at |-> now]]
    /\ UNCHANGED <<phase, boot, disk, env, store, dataDir, now, held>>

\* The handler answers: its database calls work until Close.
Answer(c) ==
    /\ phase \in {"serving", "closing", "closed"}
    /\ work[c] # None
    /\ work' = [work EXCEPT ![c] = None]
    /\ UNCHANGED <<phase, boot, disk, env, store, dataDir, now, held>>

Tick ==
    /\ now < MaxTime
    /\ now' = now + 1
    /\ UNCHANGED <<phase, boot, disk, env, store, dataDir, held, work>>

\* Somebody mounts, unmounts, fills up or protects the data directory.
ChangeDataDir ==
    /\ dataDir' \in {"writable", "readonly", "missing"} \ {dataDir}
    /\ UNCHANGED <<phase, boot, disk, env, store, now, held, work>>

-----------------------------------------------------------------------------
(***************************************************************************)
(* Shutdown.                                                               *)
(***************************************************************************)
\* A signal: Shutdown closes the listener, and ListenAndServe returns to main
\* while Shutdown, in its goroutine, still waits for the handlers.
Signal ==
    /\ phase = "serving"
    /\ phase' = "closing"
    /\ UNCHANGED <<boot, disk, env, store, dataDir, now, held, work>>

\* A mutated shutdown in which main waits for the handlers, without a timeout.
CloseWhenIdle ==
    /\ phase = "closing"
    /\ \A c \in Clients : work[c] = None
    /\ phase' = "closed"
    /\ UNCHANGED <<boot, disk, env, store, dataDir, now, held, work>>

\* The deferred db.Close of main.
Close ==
    /\ phase = "closing"
    /\ phase' = "closed"
    /\ UNCHANGED <<boot, disk, env, store, dataDir, now, held, work>>

\* main returns, and with it the process ends.
Exit == phase = "closed" /\ Gone

\* healthzHandler answers "ok": the database is not closed yet, a file can be
\* created in the data directory, and there is a user.
Healthy ==
    /\ phase \in {"serving", "closing"}
    /\ dataDir = "writable"
    /\ store # {}

\* The steps that main takes by itself.
Main ==
    \/ OpenDatabase \/ OpenFails
    \/ BeginMigration \/ ExecMigration \/ SetVersion \/ CommitMigration \/ MigrationFails
    \/ SchemaCreated
    \/ LoadUsers \/ LoadFails \/ TruncateUsers \/ WriteUsers \/ Listen
    \/ Close \/ Exit

Serve(c) ==
    \/ Login(c) \/ Answer(c)
    \/ \E token \in {access[c], refresh[c]} : RefreshToken(c, token) \/ Request(c, token)

Next ==
    \/ Start \/ Main \/ Signal \/ Crash \/ EditUsers \/ ChangeDataDir \/ Tick
    \/ \E c \in Clients : Serve(c)

Spec == Init /\ [][Next]_vars

\* main runs on; nobody has to send a request or a signal, or to answer one.
FairSpec == Spec /\ WF_vars(Main)

-----------------------------------------------------------------------------
(***************************************************************************)
(* Properties.                                                             *)
(***************************************************************************)
Up == phase \in {"listen", "serving", "closing", "closed"}

\* However starts of older and newer programs, failing statements and crashes
\* follow one another, at every moment the disk holds the work of the first
\* user_version migrations, each of them done once and in order: a process
\* that dies between a migration and its user_version leaves neither
\* (createSchema).
SchemaExact == schema = [i \in 1..version |-> i]

\* A process that got past its start has a schema at least as new as it needs,
\* and its users are those of a complete users.json; one that /healthz calls
\* healthy would find its data directory and let somebody in after a restart.
ServesReady ==
    /\ Up => version >= program /\ file = Complete(store)
    /\ Healthy => dataDir # "missing" /\ \E u \in Users : u \in file.users

\* A handler works for a user only if this user's Login is less than a refresh
\* and an access period ago: refreshing never extends a session (RefreshToken
\* gives out no refresh token), across restarts and edits of users.json.
SessionBounded ==
    \A c \in Clients :
       work[c] # None => work[c].at < work[c].login.time + RefreshTtl + AccessTtl

\* A restart with another JWT_SECRET ends every session, and a return to an
\* earlier secret revives those of that secret only: what a handler works on
\* goes back to a Login under the secret that the server has now, by however
\* many refreshes and restarts (ValidateToken, RefreshToken).
RotationRevokes == \A c \in Clients : work[c] # None => work[c].login.secret = secret

\* A start ends in serving or in an exit, and a shutdown in an exit, whether
\* or not the handlers under way come to an end (main does not wait for them).
NeverStuck == phase \notin {"serving", "down"} ~> phase \in {"serving", "down"}
=============================================================================
