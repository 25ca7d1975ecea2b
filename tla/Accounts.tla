------------------------------ MODULE Accounts ------------------------------
(***************************************************************************)
(* The account routes of src/src/routes/auth.js, mounted at /auth, each    *)
(* request a process that suspends at every awaited store call:            *)
(*   "register"     POST /auth/register                                    *)
(*   "login"        POST /auth/login                                       *)
(*   "createToken"  POST /auth/tokens       (behind authenticateToken)     *)
(*   "listTokens"   GET /auth/tokens        (behind authenticateToken)     *)
(*   "deleteToken"  DELETE /auth/tokens/:tokenId (behind authenticateToken)*)
(*   "me"           GET /auth/me            (behind authenticateToken)     *)
(*   "dashboard"    GET /auth/dashboard     routes/dashboard.js            *)
(*   "logout"       GET /auth/logout, /auth/dashboard/logout               *)
(* app.js mounts this router before routes/register.js and routes/login.js *)
(* (lines 92, 96, 97), so POST /auth/register and POST /auth/login always  *)
(* reach the handlers here and the POST handlers of those two files, the   *)
(* only code that sets req.session.user, are never run.                    *)
(*                                                                         *)
(* Users are records of the User table / collection (models/user.js);      *)
(* bcrypt's hash and compare are abstracted to keeping the password and    *)
(* comparing for equality.  A JWT is abstracted to the userId it carries.  *)
(***************************************************************************)
EXTENDS Auth

CONSTANTS
    Clients,        \* concurrent account requests (model values)
    Names,          \* usernames a client can submit (model values)
    Emails,         \* email addresses a client can submit (model values)
    Passwords,      \* passwords of six characters or more (model values)
    Short,          \* a password of fewer than six characters
    BadName,        \* a username outside the 3 to 30 characters of models/user.js
    Missing,        \* a body field that is absent or empty
    Forged,         \* a bearer token that jwt.verify rejects
    NoUser          \* User.findOne returned null

VARIABLES
    users,          \* the User records the database holds
    userIndexes,    \* the unique indexes of the User table that exist
    issued,         \* the userIds of the JWTs handed out to clients
    areq            \* areq[a]: the state of account request a

accountVars == <<users, userIndexes, issued, areq>>

\* The UUIDv4 primary keys a run can allocate: one per request at most.
Uids == 1 .. Cardinality(Clients)

\* app.js lines 92-99: the paths of the auth router that a request reaches.
AccountPaths == {"register", "login"}
TokenPaths == {"createToken", "listTokens", "deleteToken", "me"}
SessionPaths == {"dashboard", "logout"}

\* The fields declared `unique: true` in models/user.js.  On SQL,
\* sync({ force: false }) creates their unique constraints with the table,
\* before app.listen.  Mongoose builds each index in the background once
\* mongoose.model('User') compiles the schema, and initializeModels does not
\* await User.init(), so on MongoDB the server takes requests before either
\* index exists.
UniqueFields == {"username", "email"}

UserRow == [uid: Uids, username: Names, email: Emails, password: Passwords]

AccountRequest ==
    [pc: {"idle", "lookup", "create", "done"},
     path: AccountPaths \cup TokenPaths \cup SessionPaths \cup {"none"},
     username: Names \cup Emails \cup {BadName, Missing}, email: Emails \cup {Missing},
     password: Passwords \cup {Short, Missing},
     token: Uids \cup {NoUser},
     resp: {"none", "ok", "created", "bad_request", "unauthorized", "conflict",
            "error", "redirect"}]

AccountIdle == [pc |-> "idle", path |-> "none", username |-> Missing,
                email |-> Missing, password |-> Missing, token |-> NoUser,
                resp |-> "none"]

AccountsTypeOK ==
    /\ users \subseteq UserRow
    /\ userIndexes \subseteq UniqueFields
    /\ issued \subseteq Uids
    /\ \A a \in Clients : areq[a] \in AccountRequest

\* The existence check of the register handler: a user with the username
\* or the email.
Taken(name, email) == \E u \in users : u.username = name \/ u.email = email

\* An insert of request q's user that an existing unique index rejects.
Conflict(q) == \E u \in users, f \in userIndexes : u[f] = q[f]

\* The schema's validation, run before the insert: `len: [3, 30]` on SQL,
\* minlength 3 and maxlength 30 on MongoDB.  The handler checks only the
\* password's length, so a bad username reaches it.
Invalid(q) == q.username = BadName

\* MongoDB finishes building the unique index on field f.  createIndex
\* fails, and is not retried, while two users share a value of f.
BuildUserIndex(f) ==
    /\ f \notin userIndexes
    /\ \A u, v \in users : u # v => u[f] # v[f]
    /\ userIndexes' = userIndexes \cup {f}
    /\ UNCHANGED <<users, issued, areq, storeVars>>

\* bcrypt.compare(candidate, hash) against the hash the save hook stored.
ComparePassword(u, candidate) == u.password = candidate

\* The handler answers with a status and returns.
Reply(a, resp) == areq' = [areq EXCEPT ![a].pc = "done", ![a].resp = resp]

(***************************************************************************)
(* POST /auth/register                                                     *)
(***************************************************************************)

\* Mutant: the required-fields check dropped.
StartRegisterNoRequired(a) ==
    /\ areq[a].pc = "idle"
    /\ \E name \in Names \cup {BadName, Missing}, email \in Emails \cup {Missing},
          pw \in Passwords \cup {Short, Missing} :
        areq' = [areq EXCEPT ![a] = [AccountIdle EXCEPT !.path = "register",
                    !.username = name, !.email = email, !.password = pw,
                    !.pc = IF pw = Short THEN "done" ELSE "lookup",
                    !.resp = IF pw = Short THEN "bad_request" ELSE "none"]]
    /\ UNCHANGED <<users, userIndexes, issued, storeVars>>

\* `!username || !email || !password` -> 400; `password.length < 6` -> 400.
StartRegister(a) ==
    /\ areq[a].pc = "idle"
    /\ \E name \in Names \cup {BadName, Missing}, email \in Emails \cup {Missing},
          pw \in Passwords \cup {Short, Missing} :
        LET bad == Missing \in {name, email, pw} \/ pw = Short IN
        areq' = [areq EXCEPT ![a] = [AccountIdle EXCEPT !.path = "register",
                    !.username = name, !.email = email, !.password = pw,
                    !.pc = IF bad THEN "done" ELSE "lookup",
                    !.resp = IF bad THEN "bad_request" ELSE "none"]]
    /\ UNCHANGED <<users, userIndexes, issued, storeVars>>

\* `await User.findOne` for a user with the username or the email: the
\* `[Op.or]` query on SQL (`models.sequelize.Sequelize` is the class, as the
\* listings of create.js and recent.js also rely on), `$or` on MongoDB.
RegisterLookup(a) ==
    LET q == areq[a] IN
    /\ q.path = "register" /\ q.pc = "lookup"
    /\ IF Taken(q.username, q.email) THEN Reply(a, "conflict")
       ELSE areq' = [areq EXCEPT ![a].pc = "create"]
    /\ UNCHANGED <<users, userIndexes, issued, storeVars>>

\* Mutant: User.create without the unique constraints.
RegisterCreateNoUnique(a) ==
    LET q == areq[a]
        uid == Cardinality(users) + 1
    IN
    /\ q.path = "register" /\ q.pc = "create"
    /\ IF Invalid(q)
       THEN Reply(a, "error") /\ UNCHANGED <<users, issued>>
       ELSE /\ users' = users \cup {[uid |-> uid, username |-> q.username,
                                     email |-> q.email, password |-> q.password]}
            /\ issued' = issued \cup {uid}
            /\ areq' = [areq EXCEPT ![a].pc = "done", ![a].resp = "created",
                                    ![a].token = uid]
    /\ UNCHANGED <<userIndexes, storeVars>>

\* Mutant: the unique-constraint rejection escapes the handler unanswered.
RegisterCreateUncaught(a) ==
    LET q == areq[a]
        uid == Cardinality(users) + 1
    IN
    /\ q.path = "register" /\ q.pc = "create"
    /\ IF Invalid(q) \/ Conflict(q)
       THEN UNCHANGED <<users, issued, areq>>
       ELSE /\ users' = users \cup {[uid |-> uid, username |-> q.username,
                                     email |-> q.email, password |-> q.password]}
            /\ issued' = issued \cup {uid}
            /\ areq' = [areq EXCEPT ![a].pc = "done", ![a].resp = "created",
                                    ![a].token = uid]
    /\ UNCHANGED <<userIndexes, storeVars>>

\* `await User.create({ username, email, password })` (or `new User().save()`):
\* a username the schema rejects, or a user inserted since the lookup, makes
\* the validation or the unique constraint throw and the catch answers 500;
\* otherwise 201 with `jwt.sign({ userId })`.
RegisterCreate(a) ==
    LET q == areq[a]
        uid == Cardinality(users) + 1
    IN
    /\ q.path = "register" /\ q.pc = "create"
    /\ IF Invalid(q) \/ Conflict(q)
       THEN Reply(a, "error") /\ UNCHANGED <<users, issued>>
       ELSE /\ users' = users \cup {[uid |-> uid, username |-> q.username,
                                     email |-> q.email, password |-> q.password]}
            /\ issued' = issued \cup {uid}
            /\ areq' = [areq EXCEPT ![a].pc = "done", ![a].resp = "created",
                                    ![a].token = uid]
    /\ UNCHANGED <<userIndexes, storeVars>>

(***************************************************************************)
(* POST /auth/login                                                        *)
(***************************************************************************)

\* `!username || !password` -> 400.  The username field may hold a
\* username or an email.
StartLogin(a) ==
    /\ areq[a].pc = "idle"
    /\ \E login \in Names \cup Emails \cup {Missing}, pw \in Passwords \cup {Missing} :
        areq' = [areq EXCEPT ![a] = [AccountIdle EXCEPT !.path = "login",
                    !.username = login, !.password = pw,
                    !.pc = IF Missing \in {login, pw} THEN "done" ELSE "lookup",
                    !.resp = IF Missing \in {login, pw} THEN "bad_request" ELSE "none"]]
    /\ UNCHANGED <<users, userIndexes, issued, storeVars>>

\* `models.User.findOne.length > 1` picks the query.  Sequelize's
\* findOne(options) has length 1, so SQL takes the Mongoose-style
\* `findOne({ $or: [...] })`, which Sequelize reads as options without a
\* `where`: LIMIT 1 over the whole table, any row.  Mongoose's
\* findOne(conditions, projection, options) has length 3, so MongoDB takes
\* the Sequelize branch and `models.sequelize.Sequelize` throws: 500.
\* Then `await user.comparePassword(password)` (no store access) -> 401 or
\* 200 with a JWT for that user.
LoginLookup(a) ==
    LET q == areq[a] IN
    /\ q.path = "login" /\ q.pc = "lookup"
    /\ IF Backend = "mongodb" THEN Reply(a, "error") /\ UNCHANGED issued
       ELSE IF users = {} THEN Reply(a, "unauthorized") /\ UNCHANGED issued
       ELSE \E u \in users :
              IF ComparePassword(u, q.password)
              THEN /\ areq' = [areq EXCEPT ![a].pc = "done", ![a].resp = "ok",
                                           ![a].token = u.uid]
                   /\ issued' = issued \cup {u.uid}
              ELSE Reply(a, "unauthorized") /\ UNCHANGED issued
    /\ UNCHANGED <<users, userIndexes, storeVars>>

(***************************************************************************)
(* The token routes and GET /auth/me, behind authenticateToken             *)
(***************************************************************************)

\* authenticateToken: no token -> 401; jwt.verify throws JsonWebTokenError
\* -> 401; a verified token is looked up with models.User.findByPk on the
\* stale export (module Auth), which throws TypeError -> 500.  The route
\* handlers after it are never reached, so the Token table is never written.
AuthenticateToken(bearer) ==
    CASE bearer \in {NoToken, Forged} -> "unauthorized"
      [] ~ModelsExportInitialized     -> "error"

TokenRoute(a) ==
    /\ areq[a].pc = "idle"
    /\ \E path \in TokenPaths, bearer \in issued \cup {NoToken, Forged} :
        areq' = [areq EXCEPT ![a] = [AccountIdle EXCEPT !.path = path,
                    !.pc = "done", !.resp = AuthenticateToken(bearer)]]
    /\ UNCHANGED <<users, userIndexes, issued, storeVars>>

\* The dashboard router (app.js lines 98-99): GET / answers the dashboard
\* page only to a session holding a user and a token, and otherwise
\* redirects to /auth/login; GET /logout destroys the session and
\* redirects home.  No store call; the session never holds a user
\* (SessionUser, module Auth), so the dashboard page is never sent.
SessionRoute(a) ==
    /\ areq[a].pc = "idle"
    /\ \E path \in SessionPaths :
        areq' = [areq EXCEPT ![a] = [AccountIdle EXCEPT !.path = path, !.pc = "done",
                    !.resp = IF path = "dashboard" /\ SessionUser # Anon
                             THEN "ok" ELSE "redirect"]]
    /\ UNCHANGED <<users, userIndexes, issued, storeVars>>

(***************************************************************************)
(* The specification                                                       *)
(***************************************************************************)

AccountsInit ==
    /\ StoreInit
    /\ users = {}
    /\ userIndexes = IF Backend = "sql" THEN UniqueFields ELSE {}
    /\ issued = {}
    /\ areq = [a \in Clients |-> AccountIdle]

StartAccount(a) ==
    StartRegister(a) \/ StartLogin(a) \/ TokenRoute(a) \/ SessionRoute(a)

ServeAccount(a) == RegisterLookup(a) \/ RegisterCreate(a) \/ LoginLookup(a)

AccountsNext == \E a \in Clients : StartAccount(a) \/ ServeAccount(a)

allAccountVars == <<users, userIndexes, issued, areq, store, clock, idIndex>>

\* Node resumes every awaited call once the database answers.
AccountsSpec ==
    /\ AccountsInit /\ [][AccountsNext]_allAccountVars
    /\ \A a \in Clients : WF_allAccountVars(ServeAccount(a))

\* On MongoDB the index builds run beside the requests.
AccountsIndexingSpec ==
    /\ AccountsInit
    /\ [][AccountsNext \/ \E f \in UniqueFields : BuildUserIndex(f)]_allAccountVars
    /\ \A a \in Clients : WF_allAccountVars(ServeAccount(a))

(***************************************************************************)
(* Properties                                                              *)
(***************************************************************************)

\* No two users share a username or an email, even when two registrations
\* for the same name both pass the existence check before either inserts:
\* the unique constraints of models/user.js turn the second insert into a
\* 500 rather than a second account.  On MongoDB that holds only once both
\* background index builds have finished.
UniqueAccounts ==
    \A u, v \in users : u # v => u.username # v.username /\ u.email # v.email

\* A login answered 200 hands out a JWT for the user whose username or
\* email was submitted, never for another account: credentials that are not
\* that user's are bad credentials, answered 401 (spec section 7).
LoginAuthenticatesNamedUser ==
    \A a \in Clients :
        areq[a].path = "login" /\ areq[a].resp = "ok" =>
            \E u \in users : /\ u.uid = areq[a].token
                            /\ areq[a].username \in {u.username, u.email}

\* Every account request that has started is eventually answered.
EveryAccountRequestAnswered ==
    \A a \in Clients : areq[a].pc # "idle" ~> areq[a].pc = "done"

=============================================================================
