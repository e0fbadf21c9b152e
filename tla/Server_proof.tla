---------------------------- MODULE Server_proof ----------------------------
(***************************************************************************)
(* What is proved of Server, for every number of clients, users,           *)
(* migrations and secrets and for all token lifetimes.                     *)
(***************************************************************************)
EXTENDS Server, TLAPS

\* Every step is one of these.
LEMMA NextCases ==
    ASSUME Next
    PROVE  \/ Start \/ OpenDatabase \/ OpenFails
           \/ BeginMigration \/ ExecMigration \/ SetVersion \/ CommitMigration \/ MigrationFails
           \/ SchemaCreated \/ LoadUsers \/ LoadFails
           \/ TruncateUsers \/ WriteUsers \/ Listen \/ Close \/ Exit
           \/ Signal \/ Crash \/ EditUsers \/ ChangeDataDir \/ Tick
           \/ \E c \in Clients : Login(c) \/ Answer(c)
           \/ \E c \in Clients : \E token \in {access[c], refresh[c]} :
                 RefreshToken(c, token) \/ Request(c, token)
  BY DEF Next, Main, Serve

\* A token made now is a token.
LEMMA GeneratedToken ==
    ASSUME TypeOK, NEW type \in {"access", "refresh"}, NEW user \in Users,
           NEW ttl \in Nat, NEW login \in Logins
    PROVE  GenerateToken(type, user, ttl, login) \in Tokens
  <1>1. now + ttl \in Int  BY BoundAssumption DEF TypeOK
  <1>2. secret \in Secrets  BY DEF TypeOK
  <1> QED  BY <1>1, <1>2 DEF GenerateToken, Tokens

\* A token that a client sends and that passes is a token.
LEMMA SentToken ==
    ASSUME TypeOK, NEW c \in Clients, NEW token \in {access[c], refresh[c]},
           ValidateToken(token)
    PROVE  /\ token \in Tokens
           /\ token.type \in {"access", "refresh"} /\ token.user \in Users
           /\ token.exp \in Int /\ token.secret \in Secrets
           /\ token.login \in Logins
           /\ token.secret = secret /\ now < token.exp
  <1>1. token \in Tokens  BY DEF TypeOK, ValidateToken
  <1> QED  BY <1>1 DEF Tokens, ValidateToken

-----------------------------------------------------------------------------
\* A process that has its transaction open has a migration left to run.
TypeInv == TypeOK /\ (InTransaction => turn < program /\ tx \in Transactions)

LEMMA TypeInvInit == Init => TypeInv
  BY UsersAssumption, BoundAssumption
     DEF Init, TypeInv, TypeOK, InTransaction, Phases, UserFiles

\* The steps of createSchema.
LEMMA CreateSchemaTypes ==
    ASSUME TypeInv,
           \/ OpenDatabase \/ BeginMigration \/ ExecMigration \/ SetVersion \/ CommitMigration
           \/ SchemaCreated
    PROVE  TypeInv'
  <1> USE BoundAssumption DEF TypeInv, InTransaction
  <1>1. CASE OpenDatabase
    BY <1>1 DEF OpenDatabase, TypeOK, Phases, disk, env, held
  <1>2. CASE BeginMigration
    <2>1. [schema |-> schema, version |-> version] \in Transactions
      BY DEF TypeOK, Transactions
    <2> QED  BY <1>2, <2>1 DEF BeginMigration, TypeOK, Phases, disk, env, held
  <1>3. CASE ExecMigration
    <2>1. /\ tx \in Transactions /\ turn + 1 \in 1..MaxMigrations
          /\ tx.schema \in Seq(1..MaxMigrations)
      BY <1>3 DEF ExecMigration, TypeOK, Transactions
    <2>2. Append(tx.schema, turn + 1) \in Seq(1..MaxMigrations)  BY <2>1
    <2>3. tx' \in Transactions
      BY <1>3, <2>1, <2>2 DEF ExecMigration, Transactions
    <2> QED  BY <1>3, <2>3 DEF ExecMigration, TypeOK, Phases, disk, env, held
  <1>4. CASE SetVersion
    <2>1. tx \in Transactions /\ turn + 1 \in 0..MaxMigrations
      BY <1>4 DEF SetVersion, TypeOK
    <2>2. tx' \in Transactions  BY <1>4, <2>1 DEF SetVersion, Transactions
    <2> QED  BY <1>4, <2>2 DEF SetVersion, TypeOK, Phases, disk, env, held
  <1>5. CASE CommitMigration
    <2>1. tx \in Transactions /\ turn + 1 \in 0..MaxMigrations
      BY <1>5 DEF CommitMigration, TypeOK
    <2>2. schema' \in Seq(1..MaxMigrations) /\ version' \in 0..MaxMigrations
      BY <1>5, <2>1 DEF CommitMigration, Transactions
    <2> QED  BY <1>5, <2>1, <2>2 DEF CommitMigration, TypeOK, Phases, env, held
  <1>6. CASE SchemaCreated
    BY <1>6 DEF SchemaCreated, TypeOK, Phases, boot, disk, env, held
  <1> QED  BY <1>1, <1>2, <1>3, <1>4, <1>5, <1>6

LEMMA TypeInvStep == TypeInv /\ [Next]_vars => TypeInv'
  <1> SUFFICES ASSUME TypeInv, [Next]_vars PROVE TypeInv'
    OBVIOUS
  <1> USE BoundAssumption DEF TypeInv, InTransaction
  <1>1. CASE Start
    BY <1>1 DEF Start, TypeOK, Phases, boot, disk, held
  <1>2. CASE \/ OpenDatabase \/ BeginMigration \/ ExecMigration \/ SetVersion
             \/ CommitMigration \/ SchemaCreated
    BY <1>2, CreateSchemaTypes
  <1>4. CASE LoadUsers
    <2>1. file.users \in SUBSET Users
      BY <1>4 DEF LoadUsers, TypeOK, UserFiles, Complete
    <2> QED  BY <1>4, <2>1 DEF LoadUsers, TypeOK, Phases, boot, disk, env, held
  <1>5. CASE TruncateUsers
    BY <1>5, UsersAssumption DEF TruncateUsers, TypeOK, Phases, UserFiles, boot, env, held
  <1>6. CASE WriteUsers
    <2>1. Complete(store) \in UserFiles  BY DEF TypeOK, UserFiles
    <2> QED  BY <1>6, <2>1 DEF WriteUsers, TypeOK, Phases, boot, env, held
  <1>7. CASE Listen
    BY <1>7 DEF Listen, TypeOK, Phases, boot, disk, env, held
  <1>8. CASE OpenFails \/ MigrationFails \/ LoadFails \/ Crash \/ Exit
    <2>1. Gone  BY <1>8 DEF OpenFails, MigrationFails, LoadFails, Crash, Exit
    <2> QED  BY <2>1 DEF Gone, TypeOK, Phases, disk, env, held
  <1>9. CASE Close \/ Signal
    BY <1>9 DEF Close, Signal, TypeOK, Phases, boot, disk, env, held
  <1>10. CASE EditUsers
    BY <1>10 DEF EditUsers, TypeOK, boot, env, held
  <1>11. CASE Tick \/ ChangeDataDir
    BY <1>11 DEF Tick, ChangeDataDir, TypeOK, boot, disk, env, held
  <1>12. ASSUME NEW c \in Clients, Login(c) PROVE TypeInv'
    <2> PICK u \in store :
          /\ access' = [access EXCEPT ![c] = GenerateToken("access", u, AccessTtl, ThisLogin)]
          /\ refresh' = [refresh EXCEPT ![c] = GenerateToken("refresh", u, RefreshTtl, ThisLogin)]
      BY <1>12 DEF Login
    <2>1. u \in Users /\ ThisLogin \in Logins  BY DEF TypeOK, ThisLogin, Logins
    <2>2. GenerateToken("access", u, AccessTtl, ThisLogin) \in Tokens
      BY <2>1, GeneratedToken, TtlAssumption
    <2>3. GenerateToken("refresh", u, RefreshTtl, ThisLogin) \in Tokens
      BY <2>1, GeneratedToken, TtlAssumption
    <2> QED  BY <1>12, <2>2, <2>3 DEF Login, TypeOK, boot, disk, env
  <1>13. ASSUME NEW c \in Clients, NEW token \in {access[c], refresh[c]},
                RefreshToken(c, token)
         PROVE  TypeInv'
    <2>1. ValidateToken(token)  BY <1>13 DEF RefreshToken
    <2>2. token.user \in Users /\ token.login \in Logins  BY <2>1, SentToken
    <2>3. GenerateToken("access", token.user, AccessTtl, token.login) \in Tokens
      BY <2>2, GeneratedToken, TtlAssumption
    <2> QED  BY <1>13, <2>3 DEF RefreshToken, TypeOK, boot, disk, env
  <1>14. ASSUME NEW c \in Clients, NEW token \in {access[c], refresh[c]}, Request(c, token)
         PROVE  TypeInv'
    <2>1. ValidateToken(token)  BY <1>14 DEF Request
    <2>2. token.user \in Users /\ token.login \in Logins  BY <2>1, SentToken
    <2>3. [user |-> token.user, login |-> token.login, at |-> now] \in Requests
      BY <2>2 DEF TypeOK, Requests
    <2> QED  BY <1>14, <2>3 DEF Request, TypeOK, boot, disk, env, held
  <1>15. ASSUME NEW c \in Clients, Answer(c) PROVE TypeInv'
    BY <1>15 DEF Answer, TypeOK, boot, disk, env, held
  <1>16. CASE UNCHANGED vars
    BY <1>16 DEF vars, boot, disk, env, held, TypeOK
  <1> QED
    BY <1>1, <1>2, <1>4, <1>5, <1>6, <1>7, <1>8, <1>9, <1>10, <1>11, <1>12,
       <1>13, <1>14, <1>15, <1>16, NextCases

\* The state keeps its form: in particular user_version never passes the
\* number of migrations that exist (createSchema).
THEOREM TypeCorrect == Spec => []TypeOK
  <1>1. TypeInv => TypeOK  BY DEF TypeInv
  <1> QED  BY <1>1, TypeInvInit, TypeInvStep, PTL DEF Spec

-----------------------------------------------------------------------------
\* The disk lags behind the open transaction: the migration and its version
\* are in tx one after the other, and on disk both or neither.
SchemaInv ==
    /\ SchemaExact
    /\ phase = "begin" \/ InTransaction => turn = version
    /\ phase = "exec" => tx = [schema |-> schema, version |-> version]
    /\ phase = "pragma" => tx = [schema |-> Append(schema, version + 1), version |-> version]
    /\ phase = "commit" => tx = [schema |-> Append(schema, version + 1), version |-> version + 1]

\* The next migration after exactly the first n.
LEMMA NextMigration ==
    ASSUME NEW n \in Nat
    PROVE  Append([i \in 1..n |-> i], n + 1) = [i \in 1..n + 1 |-> i]
  <1> DEFINE s == [i \in 1..n |-> i]
  <1>1. s \in Seq(Nat) /\ Len(s) = n  OBVIOUS
  <1> QED  BY <1>1

LEMMA SchemaStep == TypeInv /\ SchemaInv /\ [Next]_vars => SchemaInv'
  <1> SUFFICES ASSUME TypeInv, SchemaInv, [Next]_vars PROVE SchemaInv'
    OBVIOUS
  <1>a. version \in Nat /\ turn \in Nat  BY BoundAssumption DEF TypeInv, TypeOK
  <1>1. CASE OpenDatabase
    BY <1>1 DEF OpenDatabase, SchemaInv, SchemaExact, InTransaction, disk
  <1>2. CASE BeginMigration
    BY <1>2 DEF BeginMigration, SchemaInv, SchemaExact, InTransaction, disk
  <1>3. CASE ExecMigration
    <2>1. turn = version /\ tx = [schema |-> schema, version |-> version]
      BY <1>3 DEF ExecMigration, SchemaInv, InTransaction
    <2>2. tx' = [schema |-> Append(schema, version + 1), version |-> version]
      BY <1>3, <2>1 DEF ExecMigration
    <2> QED  BY <1>3, <2>1, <2>2 DEF ExecMigration, SchemaInv, SchemaExact, InTransaction, disk
  <1>4. CASE SetVersion
    <2>1. /\ turn = version
          /\ tx = [schema |-> Append(schema, version + 1), version |-> version]
      BY <1>4 DEF SetVersion, SchemaInv, InTransaction
    <2>2. tx' = [schema |-> Append(schema, version + 1), version |-> version + 1]
      BY <1>4, <2>1 DEF SetVersion
    <2> QED  BY <1>4, <2>1, <2>2 DEF SetVersion, SchemaInv, SchemaExact, InTransaction, disk
  <1>5. CASE CommitMigration
    <2>1. /\ turn = version /\ schema = [i \in 1..version |-> i]
          /\ tx = [schema |-> Append(schema, version + 1), version |-> version + 1]
      BY <1>5 DEF CommitMigration, SchemaInv, SchemaExact, InTransaction
    <2>2. schema' = Append(schema, version + 1) /\ version' = version + 1
      BY <1>5, <2>1 DEF CommitMigration
    <2>3. SchemaExact'  BY <1>a, <2>1, <2>2, NextMigration DEF SchemaExact
    <2>4. phase' = "begin" /\ turn' = version'  BY <1>5, <2>1, <2>2 DEF CommitMigration
    <2> QED  BY <2>3, <2>4 DEF SchemaInv, InTransaction
  <1>6. CASE OpenFails \/ MigrationFails \/ LoadFails \/ Crash \/ Exit
    <2>1. Gone  BY <1>6 DEF OpenFails, MigrationFails, LoadFails, Crash, Exit
    <2> QED  BY <2>1 DEF Gone, SchemaInv, SchemaExact, InTransaction, disk
  <1>7. CASE \/ Start \/ SchemaCreated \/ LoadUsers \/ TruncateUsers \/ WriteUsers \/ Listen
             \/ Close \/ Signal \/ EditUsers
    <2>1. UNCHANGED <<schema, version>> /\ phase' # "begin" /\ ~ InTransaction'
      BY <1>7 DEF Start, SchemaCreated, LoadUsers, TruncateUsers, WriteUsers, Listen,
                  Close, Signal, EditUsers, InTransaction, disk
    <2> QED  BY <2>1 DEF SchemaInv, SchemaExact, InTransaction
  <1>8. CASE UNCHANGED <<phase, boot, disk>>
    BY <1>8 DEF SchemaInv, SchemaExact, InTransaction, boot, disk
  <1>9. Tick \/ ChangeDataDir \/ UNCHANGED vars \/ (\E c \in Clients : Login(c) \/ Answer(c))
        \/ (\E c \in Clients : \E token \in {access[c], refresh[c]} :
               RefreshToken(c, token) \/ Request(c, token))
        => UNCHANGED <<phase, boot, disk>>
    BY DEF Tick, ChangeDataDir, vars, Login, Answer, RefreshToken, Request
  <1> QED
    BY <1>1, <1>2, <1>3, <1>4, <1>5, <1>6, <1>7, <1>8, <1>9, NextCases

LEMMA SchemaInit == Init => SchemaInv
  BY DEF Init, SchemaInv, SchemaExact, InTransaction

\* createSchema: whatever order of programs, failing statements and crashes,
\* between any two of its steps too, user_version on disk counts exactly the
\* migrations whose work is on disk.
THEOREM SchemaIsExact == Spec => []SchemaExact
  <1>1. SchemaInv => SchemaExact  BY DEF SchemaInv
  <1> QED  BY <1>1, SchemaInit, SchemaStep, TypeInvInit, TypeInvStep, PTL DEF Spec

-----------------------------------------------------------------------------
\* How far a start has got.
BootInv ==
    /\ phase \in {"users", "write"} \/ Up => version >= program
    /\ Up => file = Complete(store)

LEMMA BootStep == TypeInv /\ SchemaInv /\ BootInv /\ [Next]_vars => BootInv'
  <1> SUFFICES ASSUME TypeInv, SchemaInv, BootInv, [Next]_vars PROVE BootInv'
    OBVIOUS
  <1> USE DEF BootInv, Up
  <1>1. CASE Start  BY <1>1 DEF Start
  <1>2. CASE OpenDatabase \/ BeginMigration \/ ExecMigration \/ SetVersion \/ CommitMigration
    BY <1>2 DEF OpenDatabase, BeginMigration, ExecMigration, SetVersion, CommitMigration
  <1>3. CASE SchemaCreated  BY <1>3 DEF SchemaCreated, SchemaInv, disk, env
  <1>4. CASE LoadUsers
    <2>1. file = Complete(file.users)
      BY <1>4 DEF LoadUsers, TypeInv, TypeOK, UserFiles, Complete
    <2> QED  BY <1>4, <2>1 DEF LoadUsers, disk, env
  <1>5. CASE TruncateUsers  BY <1>5 DEF TruncateUsers, env
  <1>6. CASE WriteUsers  BY <1>6 DEF WriteUsers, env, Complete
  <1>7. CASE Listen \/ Close \/ Signal  BY <1>7 DEF Listen, Close, Signal, boot, disk, env
  <1>8. CASE OpenFails \/ MigrationFails \/ LoadFails \/ Crash \/ Exit
    BY <1>8 DEF OpenFails, MigrationFails, LoadFails, Crash, Exit, Gone
  <1>9. CASE EditUsers  BY <1>9 DEF EditUsers
  <1>10. CASE UNCHANGED <<phase, disk, program, store>>  BY <1>10 DEF disk
  <1>11. Tick \/ ChangeDataDir \/ UNCHANGED vars \/ (\E c \in Clients : Login(c) \/ Answer(c))
         \/ (\E c \in Clients : \E token \in {access[c], refresh[c]} :
                RefreshToken(c, token) \/ Request(c, token))
         => UNCHANGED <<phase, disk, program, store>>
    BY DEF Tick, ChangeDataDir, vars, Login, Answer, RefreshToken, Request, boot, disk, env
  <1> QED
    BY <1>1, <1>2, <1>3, <1>4, <1>5, <1>6, <1>7, <1>8, <1>9, <1>10, <1>11, NextCases

\* A process that serves has run every migration it needs and holds the users
\* of a complete users.json (main, LoadOrInitialize, healthzHandler).
THEOREM ReadyWhenServing == Spec => []ServesReady
  <1>1. Init => BootInv  BY DEF Init, BootInv, Up
  <1>2. TypeOK /\ BootInv => ServesReady
    <2> SUFFICES ASSUME TypeOK, BootInv PROVE ServesReady
      OBVIOUS
    <2>1. Up => version >= program /\ file = Complete(store)  BY DEF BootInv
    <2>2. ASSUME Healthy PROVE dataDir # "missing" /\ \E u \in Users : u \in file.users
      <3>1. Up /\ store # {} /\ dataDir # "missing"  BY <2>2 DEF Healthy, Up
      <3>2. file.users = store  BY <2>1, <3>1 DEF Complete
      <3> QED  BY <3>1, <3>2 DEF TypeOK
    <2> QED  BY <2>1, <2>2 DEF ServesReady
  <1>3. TypeInv => TypeOK  BY DEF TypeInv
  <1> QED
    BY <1>1, <1>2, <1>3, TypeInvInit, TypeInvStep, SchemaInit, SchemaStep, BootStep,
       PTL DEF Spec

-----------------------------------------------------------------------------
\* A token ends in time, and was signed with the secret of its Login.
Sound(token) ==
    /\ token.type = "refresh" => token.exp <= token.login.time + RefreshTtl
    /\ token.type = "access" => token.exp <= token.login.time + RefreshTtl + AccessTtl
    /\ token.secret = token.login.secret

SessionInv ==
    /\ \A c \in Clients : /\ access[c] # None => Sound(access[c])
                          /\ refresh[c] # None => Sound(refresh[c])
    /\ phase \notin {"serving", "closing", "closed"} => \A c \in Clients : work[c] = None
    /\ SessionBounded
    /\ RotationRevokes

\* A step that leaves the tokens alone keeps every token sound.
LEMMA SameTokens ==
    ASSUME SessionInv, UNCHANGED held
    PROVE  \A c \in Clients : /\ access'[c] # None => Sound(access[c])'
                              /\ refresh'[c] # None => Sound(refresh[c])'
  BY DEF SessionInv, Sound, held

\* A token made now, from a Login under the present secret, is sound.
LEMMA GeneratedSound ==
    ASSUME TypeOK, NEW type \in {"access", "refresh"}, NEW user \in Users,
           NEW ttl \in Nat, NEW login \in Logins, login.secret = secret,
           type = "refresh" => now + ttl <= login.time + RefreshTtl,
           type = "access" => now + ttl <= login.time + RefreshTtl + AccessTtl
    PROVE  Sound(GenerateToken(type, user, ttl, login))
  BY DEF Sound, GenerateToken, TypeOK

LEMMA SessionStep == TypeInv /\ SessionInv /\ [Next]_vars => SessionInv'
  <1> SUFFICES ASSUME TypeInv, TypeOK, SessionInv, [Next]_vars PROVE SessionInv'
    BY DEF TypeInv
  <1> USE BoundAssumption, TtlAssumption
  <1>a. \A c \in Clients : work[c] # None => work[c] \in Requests  BY DEF TypeOK
  <1>1. CASE Start
    <2>1. \A c \in Clients : work[c] = None /\ work'[c] = None
      BY <1>1 DEF Start, SessionInv
    <2>2. SessionBounded' /\ RotationRevokes'
      BY <2>1 DEF SessionBounded, RotationRevokes
    <2> QED  BY <1>1, <2>1, <2>2, SameTokens DEF Start, SessionInv
  <1>2. ASSUME UNCHANGED <<held, secret, now>>,
               \A c \in Clients : work'[c] = None,
               phase' \in Phases
        PROVE  SessionInv'
    <2>1. SessionBounded' /\ RotationRevokes'
      BY <1>2 DEF SessionBounded, RotationRevokes
    <2> QED  BY <1>2, <2>1, SameTokens DEF SessionInv
  <1>3. CASE \/ OpenDatabase \/ BeginMigration \/ ExecMigration \/ SetVersion \/ CommitMigration
             \/ SchemaCreated \/ LoadUsers \/ TruncateUsers \/ WriteUsers \/ Listen \/ EditUsers
    <2>1. \A c \in Clients : work'[c] = None
      BY <1>3 DEF OpenDatabase, BeginMigration, ExecMigration, SetVersion, CommitMigration,
                  SchemaCreated, LoadUsers, TruncateUsers, WriteUsers, Listen, EditUsers, SessionInv
    <2>2. UNCHANGED <<held, secret, now>>
      BY <1>3 DEF OpenDatabase, BeginMigration, ExecMigration, SetVersion, CommitMigration,
                  SchemaCreated, LoadUsers, TruncateUsers, WriteUsers, Listen, EditUsers, env
    <2>3. phase' \in Phases  BY TypeInvStep DEF TypeInv, TypeOK
    <2> QED  BY <1>2, <2>1, <2>2, <2>3
  <1>4. CASE OpenFails \/ MigrationFails \/ LoadFails \/ Crash \/ Exit
    <2>1. Gone  BY <1>4 DEF OpenFails, MigrationFails, LoadFails, Crash, Exit
    <2>2. (\A c \in Clients : work'[c] = None) /\ phase' \in Phases
      BY <2>1 DEF Gone, Phases
    <2>3. UNCHANGED <<held, secret, now>>  BY <2>1 DEF Gone, env
    <2> QED  BY <1>2, <2>2, <2>3
  <1>5. CASE Close \/ Signal \/ ChangeDataDir \/ UNCHANGED vars
    <2>1. UNCHANGED <<held, secret, now, work>>
      BY <1>5 DEF Close, Signal, ChangeDataDir, vars, env
    <2>2. SessionBounded' /\ RotationRevokes'
      BY <2>1 DEF SessionInv, SessionBounded, RotationRevokes
    <2>3. phase' \notin {"serving", "closing", "closed"} => \A c \in Clients : work'[c] = None
      BY <1>5 DEF Close, Signal, ChangeDataDir, vars, SessionInv
    <2> QED  BY <2>1, <2>2, <2>3, SameTokens DEF SessionInv
  <1>6. CASE Tick
    <2>1. UNCHANGED <<held, secret, work, phase>> /\ now' = now + 1
      BY <1>6 DEF Tick, env
    <2>2. SessionBounded' /\ RotationRevokes'
      BY <2>1 DEF SessionInv, SessionBounded, RotationRevokes
    <2> QED  BY <2>1, <2>2, SameTokens DEF SessionInv
  <1>7. ASSUME NEW c \in Clients, Login(c) PROVE SessionInv'
    <2> PICK u \in store :
          /\ access' = [access EXCEPT ![c] = GenerateToken("access", u, AccessTtl, ThisLogin)]
          /\ refresh' = [refresh EXCEPT ![c] = GenerateToken("refresh", u, RefreshTtl, ThisLogin)]
      BY <1>7 DEF Login
    <2>1. /\ u \in Users /\ ThisLogin \in Logins /\ now \in Nat
          /\ ThisLogin.secret = secret /\ ThisLogin.time = now
      BY DEF TypeOK, ThisLogin, Logins
    <2>2. Sound(GenerateToken("access", u, AccessTtl, ThisLogin))
      BY <2>1, GeneratedSound
    <2>3. Sound(GenerateToken("refresh", u, RefreshTtl, ThisLogin))
      BY <2>1, GeneratedSound
    <2>4. UNCHANGED <<secret, now, work, phase>>  BY <1>7 DEF Login, env
    <2>5. \A d \in Clients : /\ access'[d] # None => Sound(access'[d])
                             /\ refresh'[d] # None => Sound(refresh'[d])
      BY <2>2, <2>3 DEF TypeOK, SessionInv
    <2>6. \A d \in Clients : /\ access'[d] # None => Sound(access[d])'
                             /\ refresh'[d] # None => Sound(refresh[d])'
      BY <2>4, <2>5 DEF Sound
    <2>7. SessionBounded' /\ RotationRevokes'
      BY <2>4 DEF SessionInv, SessionBounded, RotationRevokes
    <2> QED  BY <2>4, <2>6, <2>7 DEF SessionInv
  <1>8. ASSUME NEW c \in Clients, NEW token \in {access[c], refresh[c]},
               RefreshToken(c, token)
        PROVE  SessionInv'
    <2>1. ValidateToken(token) /\ token.type = "refresh"  BY <1>8 DEF RefreshToken
    <2>2. /\ token.user \in Users /\ token.login \in Logins
          /\ token.exp \in Int /\ token.secret = secret /\ now < token.exp
      BY <2>1, SentToken
    <2>3. Sound(token)  BY <2>1 DEF SessionInv, ValidateToken
    <2>4. token.login.secret = secret /\ token.exp <= token.login.time + RefreshTtl
      BY <2>1, <2>2, <2>3 DEF Sound
    <2>5. now + AccessTtl <= token.login.time + RefreshTtl + AccessTtl
      BY <2>2, <2>4 DEF TypeOK, Logins
    <2>6. Sound(GenerateToken("access", token.user, AccessTtl, token.login))
      BY <2>2, <2>4, <2>5, GeneratedSound
    <2>7. UNCHANGED <<secret, now, work, phase, refresh>>
      BY <1>8 DEF RefreshToken, env
    <2>8. \A d \in Clients : /\ access'[d] # None => Sound(access'[d])
                             /\ refresh'[d] # None => Sound(refresh'[d])
      BY <1>8, <2>6, <2>7 DEF RefreshToken, TypeOK, SessionInv
    <2>9. \A d \in Clients : /\ access'[d] # None => Sound(access[d])'
                             /\ refresh'[d] # None => Sound(refresh[d])'
      BY <2>7, <2>8 DEF Sound
    <2>10. SessionBounded' /\ RotationRevokes'
      BY <2>7 DEF SessionInv, SessionBounded, RotationRevokes
    <2> QED  BY <2>7, <2>9, <2>10 DEF SessionInv
  <1>9. ASSUME NEW c \in Clients, NEW token \in {access[c], refresh[c]}, Request(c, token)
        PROVE  SessionInv'
    <2>1. ValidateToken(token) /\ token.type = "access"  BY <1>9 DEF Request
    <2>2. /\ token.user \in Users /\ token.login \in Logins
          /\ token.exp \in Int /\ token.secret = secret /\ now < token.exp
      BY <2>1, SentToken
    <2>3. Sound(token)  BY <2>1 DEF SessionInv, ValidateToken
    <2>4. token.login.secret = secret /\ now < token.login.time + RefreshTtl + AccessTtl
      BY <2>1, <2>2, <2>3 DEF Sound, TypeOK, Logins
    <2>5. /\ UNCHANGED <<held, secret, now, phase>>
          /\ work' = [work EXCEPT ![c] =
                         [user |-> token.user, login |-> token.login, at |-> now]]
          /\ phase = "serving"
      BY <1>9 DEF Request, env
    <2>6. SessionBounded'
      BY <2>4, <2>5 DEF SessionInv, SessionBounded, TypeOK
    <2>7. RotationRevokes'
      BY <2>4, <2>5 DEF SessionInv, RotationRevokes, TypeOK
    <2> QED  BY <2>5, <2>6, <2>7, SameTokens DEF SessionInv
  <1>10. ASSUME NEW c \in Clients, Answer(c) PROVE SessionInv'
    <2>1. /\ UNCHANGED <<held, secret, now, phase>>
          /\ work' = [work EXCEPT ![c] = None]
      BY <1>10 DEF Answer, env
    <2>2. \A d \in Clients : work'[d] # None => work'[d] = work[d]
      BY <2>1 DEF TypeOK
    <2>3. SessionBounded' /\ RotationRevokes'
      BY <2>1, <2>2 DEF SessionInv, SessionBounded, RotationRevokes
    <2>4. phase' \notin {"serving", "closing", "closed"} => \A d \in Clients : work'[d] = None
      BY <2>1, <2>2 DEF SessionInv
    <2> QED  BY <2>1, <2>3, <2>4, SameTokens DEF SessionInv
  <1> QED
    BY <1>1, <1>3, <1>4, <1>5, <1>6, <1>7, <1>8, <1>9, <1>10, NextCases

LEMMA SessionInit == Init => SessionInv
  BY DEF Init, SessionInv, SessionBounded, RotationRevokes

\* RefreshToken hands out access tokens only, and an access token opens nothing
\* but requests: no chain of refreshes outlives the first refresh token by more
\* than an access period, for all lifetimes that main is configured with.
THEOREM SessionsAreBounded == Spec => []SessionBounded
  <1>1. SessionInv => SessionBounded  BY DEF SessionInv
  <1> QED  BY <1>1, SessionInit, SessionStep, TypeInvInit, TypeInvStep, PTL DEF Spec

\* ValidateToken checks the signature, and a refreshed token has the secret of
\* the token it came from: a restart with another JWT_SECRET ends every session
\* of the others, and a return to it revives none but its own.
THEOREM RotationEndsSessions == Spec => []RotationRevokes
  <1>1. SessionInv => RotationRevokes  BY DEF SessionInv
  <1> QED  BY <1>1, SessionInit, SessionStep, TypeInvInit, TypeInvStep, PTL DEF Spec
=============================================================================
