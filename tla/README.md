# TLA+ models of the pastebin server

These modules model the request-parallel Express server under `src/src/`. It has four parts:
- the create handlers, which normalise a payload, allocate a fresh six-character identifier and insert a paste;
- the read dispatchers, which look a paste up, apply the visibility and expiry policy and increment its view count;
- the listing and management handlers;
- the account routes, and the middleware that tells a handler who is asking.

Every store call is awaited, so requests interleave at each lookup, insert and increment. The store (Sequelize on SQL, Mongoose on MongoDB) executes each call atomically. The application has no locks or queues. The process can be stopped by a signal and restarted; the database outlives it.

## Inventory

| Part | Source | Module | Status |
|---|---|---|---|
| Paste model, schema validation, identifier constraint and its index build | `models/paste.js`, `models/index.js` | `PasteStore` | partly (update/delete never reached) |
| Stale `models` export, `optionalAuth`, session user | `models/index.js`, `middleware/auth.js`, `middleware/sessionAuth.js` | `Auth` | partly (`checkApiToken` left out) |
| Identifier generator | `utils/pasteId.js` | `Ingestion` (`GeneratePasteId`) | modelled |
| `POST /pastes` | `routes/pastes.js` | `Ingestion` (`"api"`) | modelled |
| `POST /create`, `/api/v1/create`, `/api/v1/pastes` | `routes/create.js`, `api/v1/index.js` | `Ingestion` (`"create"`) | modelled |
| `POST /` text and files | `routes/web.js` | `Ingestion` (`"webText"`, `"webFiles"`) | modelled |
| `GET /:id`, `/paste/:id`, `/raw/:id`, `/r/:id`, `/download/:id`, `/pastes/:id` | `app.js`, `routes/raw.js`, `routes/download.js`, `routes/pastes.js` | `Reads` | modelled |
| Listings; `PUT`/`DELETE /pastes/:id`, `GET /pastes/user/:userId` | `routes/pastes.js`, `routes/create.js`, `routes/recent.js` | `Management` | modelled |
| Register, login, token routes, `authenticateToken` | `routes/auth.js`, `models/user.js`, `middleware/auth.js` | `Accounts` | modelled |
| Dashboard and logout | `routes/dashboard.js` | `Accounts` (`SessionRoute`) | modelled |
| Body limits and the error middleware | `app.js`, `middleware/upload.js`, `routes/create.js` | `Ingestion` (`StartRejectedBody`) | modelled |
| Shutdown signal, start-up and its failure | `app.js`, `config/database.js` | `Pastebin` (`Crash`, `Connect`, `Restart`) | modelled |
| All of the above together | | `Pastebin` | |
| Browser login and registration pages | `routes/login.js`, `routes/register.js` | | not modelled: the POST handlers are shadowed, the rest renders |
| Rate limiter | `middleware/rateLimiter.js` | | not modelled (library counter) |
| Highlight view | `routes/highlight.js` | | not modelled: never mounted |
| Legacy upload route | `routes/upload.js` | | not modelled: `web.js` answers `POST /` first |
| Legacy user pages | `routes/userAuth.js`, `middleware/authRedirect.js` | | not modelled: never required |
| URL helper | `utils/urlHelper.js` | | not modelled: formats a link, holds no state |

## Modules

**`PasteStore`** holds the store and a minute clock.
- The store is a *set* of paste records, so a duplicate identifier can be represented.
- Content is abstracted to `text`, `blank` (whitespace only), `empty`, `data` (a `data:` URI the server encoded), `dataText` (text a client typed that begins with `data:`) and `substitute` (a string a handler made up).
- `Trim` is `String.trim` on that abstraction.
- `InsertOutcome` is the ORM's validation followed by the database's uniqueness constraint. SQL uses Sequelize `notEmpty`, which rejects whitespace. MongoDB uses `required`, which only rejects `""`.
- `idIndex` says whether the unique index on `id` exists. On SQL the primary key exists before `listen`. Mongoose builds `unique: true` in the background after `mongoose.model()`, and neither `initializeModels` nor `startServer` awaits `Paste.init()`. So on MongoDB `idIndex` starts `FALSE` and `BuildIdIndex` sets it; the build succeeds only while the stored identifiers are distinct (`DistinctIds`). Before it, the insert accepts a duplicate.
- `Increment` is the atomic `views` update.
- `Expired` is `expiresAt && expiresAt <= now`.

There is no abstract specification of the store. An earlier `PasteRegistry` (spec section 2: a paste is added with a fresh identifier and non-blank content, a view adds one, nothing is removed) was checked as a refinement property. With the ORM's calls modelled as atomic steps it only repeated `CreatedLinksResolve` and `StoredContentNonBlank`, and the restart's unchanged store. So it said nothing those did not. The one place the store breaks that contract, the MongoDB window before the unique index exists, is shown by `ingestion_mongoindex`.

**`Auth`** models how a handler learns its user. The routes take `models` from `require('../models').models`. That is the `{}` exported at load time, because `initializeModels` only rebinds a local variable. So `ModelsExportInitialized` is `FALSE` and `OptionalAuth` always answers anonymous. `SessionUser` is always anonymous too: the only handlers that set `req.session.user` are the POST handlers of `login.js` and `register.js`, and the `/auth` router mounted before them (app.js lines 92, 96, 97) answers those paths first.

**`Ingestion`** models each create request as a process (`creq[c]`).
- The start actions, one per handler, do the normalisation and the content check. `StartRejectedBody` is a request the body parsers or multer refuse before any handler runs (`BodyErrors`); the error middleware (`ErrorHandler`) answers 413, 400 or 500 to an API client and redirects a browser.
- `Bodies` is a constant: the payload kinds a run lets clients send. `IndexingSpec` adds `BuildIdIndex` for the MongoDB runs. They take the handler's inputs from small sets: body kind, file class, form shape, bearer token, visibility and `expiresIn`.
- `author` is the user whose token the client sent; `owner` is what the handler stores.
- `Attempt` is one iteration of the identifier loop: draw a candidate (`GeneratePasteId`), `attempts++`, and await the lookup. Its exit test is `attempts >= maxAttempts`, and it also computes `expiresAt`.
- `InsertPaste` and `InsertFails` are the awaited insert and its `catch`. A multi-file web upload runs the loop once per file.

**`Reads`** models each read request as a process (`rreq[r]`).
- `StartRead` takes `now` and resolves the user. `GET /paste/:id` fails here, on the stale export.
- `Fetch` is the awaited lookup and the policy: `ApiDecision` for `/pastes/:id`, and `PublicDecision` (identical in `raw.js`, `download.js` and `app.js`) for the others.
- `IncrementViews` is the awaited increment. The JSON route reports `views + 1` from the record it read. `IncrementViewsAgain` is the second increment of `GET /:id`.
- The raw and download routes then send the content. `Send` is their test `paste.content.startsWith('data:')`: a stored `data:` string is decoded and sent under the MIME type it names; `Buffer.from(undefined)` throws (500) when it has no comma. `served` records whether the text or the decoded bytes went out.

**`Management`** models each listing or management request as a process (`lreq[l]`).
- `StartList` parses `?page=` and `?limit=` with `parseInt(q) || d` and `Math.min(.., 100)`, and reads `now`.
- `Count` and `Find` are the two store queries of `findAndCountAll`, which may run in either order on SQL. On MongoDB, `countDocuments` runs before `find`. A negative LIMIT or OFFSET is rejected by the driver or ignored; the model allows both. Rows are ordered by `createdAt`, which the store does not record, so a page is any set of matching pastes of the right size.
- `Answer` computes `totalPages` and `hasNext`.
- `Refuse` covers `PUT`, `DELETE` and the per-user listing. They get `req.user = null` and answer 401/403 before any store call.

**`Accounts`** models each account request as a process (`areq[a]`), with the `User` table as a set of records and the JWTs handed out as `issued`.
- Register: `StartRegister` does the field checks. `RegisterLookup` awaits the existence check. `RegisterCreate` awaits the insert. The schema's validation (`Invalid`: a username outside 3 to 30 characters, which the handler never checks) or the unique constraints (a user inserted since the check) reject it, and the catch answers 500.
- Login: `LoginLookup` takes the query that `models.User.findOne.length > 1` selects. On SQL that is `findOne({ $or })` with no `where`, which returns any row; on MongoDB the Sequelize branch throws.
- `TokenRoute` covers the token routes and `/auth/me`. `AuthenticateToken` answers 401 or 500 (stale export) before the handler runs, so the `Token` table is never written.
- `SessionRoute` covers the dashboard, which redirects without a session user, and logout.
- bcrypt is abstracted to comparing passwords, and a JWT to the user id it carries.
- `userIndexes` holds the unique indexes of the `User` table that exist (`UniqueFields`: username and email). `Conflict` is the insert those indexes reject. On SQL both exist from the start. On MongoDB Mongoose builds each in the background after `mongoose.model('User')`, and nothing awaits `User.init()`. So there they start empty, and `BuildUserIndex(f)` adds one; it fails while two users share a value of `f`. `AccountsIndexingSpec` adds those builds to `AccountsSpec`.

**`Pastebin`** interleaves creates, reads, listings and `Tick`, and adds the process lifecycle.
- `Crash` is the SIGINT/SIGTERM handler: `await dbManager.disconnect()`, then `process.exit(0)`. The HTTP server is never closed, so while the database closes the handlers go on. Those steps commute with the close, so the model takes them as happening first. The close and the exit are then one step. In it, each request in flight either has a store call rejected and answers 500 (`"error"`), or loses its connection (`"reset"`). `Abort` is that outcome.
- `Restart` is `startServer`. `Connect` is the outcome of `dbManager.connect()`. When the connect or the sync throws, the process exits with status 1 and stays down. Otherwise `sync({ force: false })` keeps the tables, so the store is as it was.
- `MC_Ingestion` and `MC_Pastebin` are the instances that TLC checks.

## Runs

| Run | Expect | What it shows |
|---|---|---|
| `ingestion` | pass | Two concurrent creates, any handler, on SQL. Every link answered names exactly the paste created (`CreatedLinksResolve`). Nothing blank is stored. An upload is answered success only with every file stored. Every request is answered. |
| `ingestion_offbyone` | violation | With `maxAttempts = 10`, a free tenth candidate still gives "failed to generate unique paste ID". |
| `ingestion_mongoindex` | violation | On MongoDB, two creates find the same identifier free before the unique index is built. Both inserts succeed, and the link one of them answers resolves to two pastes. |
| `raw_dataprefix` | violation | A text paste that begins with `data:` is served by `/raw` decoded, under the MIME type its text names, instead of as the text stored. |
| `ingestion_mongo` | violation | On MongoDB, a whitespace-only file uploaded through the web form is stored. |
| `ingestion_anonymous` | violation | A paste created with a valid bearer token is stored with no owner (the stale export). |
| `pastebin` | pass | Creates, including one with a negative `expiresIn`, interleave with two readers and time, on every read path. No private paste is served to anyone but its owner. Every request is answered. |
| `listing` | pass | A listing or management request races a create, with page sizes 1, default and -1, and a shutdown and restart can happen at any point. Every listed paste is one the read policy serves at the listing's time. A paste born expired (`expiresIn` -1) is never listed. Every request ends, across the restart. |
| `listing_race` | violation | A paste inserted between a listing's count and its page query makes `hasNext` false while a second page exists. |
| `accounts` | pass | Three concurrent account requests on SQL. No two accounts share a username or an email, even when two registrations pass the existence check together. Every request is answered. |
| `accounts_mongoindex` | violation | On MongoDB, two registrations of one username both pass the existence check before the background index builds finish. Both accounts are stored. |
| `accounts_login` | violation | A login with one user's name and another user's password is answered 200 with the other user's token. |

Every property of a passing run has a mutant in `PROJECT.json`: a plausible bug in the mapped code that TLC shows breaks it. One example is `InsertOutcomeNoUnique`, an insert without the identifier constraint; it breaks `CreatedLinksResolve` in `ingestion`.

Three runs of the first sitting were removed:
- `pastebin_apipaste` (`GET /paste/:id` answers 500) and `pastebin_ownerforbidden` (an owner refused their own private paste) were consequences of the stale export, now shown once by `ingestion_anonymous`. Once the session user was modelled faithfully, no paste ever had an owner, so the second had nothing to check.
- `listing_negativelimit` (a negative `totalPages`) stated no claim of the spec.

Two more were replaced in the third sitting, to stay within twelve runs:
- `pastebin_doubleview` (one `GET /:id` adds two views) is a single request that any test sees. `IncrementViewsAgain` is still modelled, and `pastebin` fires it.
- `ingestion_race` (the check-then-insert race answered 500 on SQL) is the behaviour spec section 4.2 itself documents. The same race on MongoDB, where it stores a duplicate, is `ingestion_mongoindex`.

Properties dropped after review, because they held by the shape of the model:
- `ReportedViewsNotAhead`: the reported count is the fetched count plus one, and the store's count only grows.
- `NoServeAfterExpiry`: it repeated the expiry test of the read decision, at the same `now`.
- `ImplementsRegistry`, in three runs (see `PasteStore`).
- A second `TypeOK` in `listing`.

Two hazards that those properties named are kept in `PROJECT.json` without a property. Two concurrent JSON reads both report the count fetched before either increment (pastes.js:189). A read decided just before expiry is served after it (pastes.js:152). Each would need a violation run, and the project is at twelve runs.

In the fourth sitting `ingestion_emptybody` gave way to `accounts_mongoindex`. It showed that an empty form body to `POST /create` is stored as `"{}"`. That is one request, which any unit test reaches. `CreateContent` still models it.

## Bounds and why they suffice

- **Identifiers.** `Ids` has two identifiers in `ingestion` and `listing`, and one in `pastebin`. Collisions, the race and exhaustion all need only that.
- **Payloads.** `Bodies` is `text`, `blank` and `empty` in `ingestion` and `listing`, and adds `dataText` in `pastebin` and `raw_dataprefix`, where a read can serve it. The extra kind makes no difference to what a create stores beyond its kind, and multiplies those state spaces two to four times.
- **Attempts.** `MaxAttempts` is 3 in `ingestion` and 2 elsewhere. The exit test is the same for any bound. The off-by-one run uses the code's 10, because the spec states that scenario for 10.
- **Files.** `MaxFiles = 2` in `ingestion` and `listing` covers the multi-file path and a second page.
- **Time.** The clock runs to 1. `expiresIn` is 0 (absent), 1 or, in `pastebin` and `listing`, -1. So a paste can expire between a read's arrival and its lookup, one created at 0 is expired at 1, and one is born expired.
- **Concurrency.** Two creators, or one creator with two readers, is the smallest concurrency where the interleaving hazards occur. Accounts use three clients, so that two registrations race while a third logs in.
- **Shutdowns.** `MaxStops = 1` in `listing`: one crash and restart, at any point of a create and a listing. In `pastebin` a crash with two readers multiplies the space to about 2.6M states, even with text-only bodies. That takes close to four minutes, so there `MaxStops` is 0. A crash in the middle of a read is therefore not checked; `Abort` treats reads and listings alike, and `listing` checks it for listings.
- **Listings.** Page size 1 makes page 2 exist. `?limit=-1` is the smallest negative page size.

## Fairness

Node resumes every awaited store call when the database answers. So each started request is weakly fair: `WF` on `Serve(c)`, `ServeRead(r)`, `ServeList(l)` and `ServeAccount(a)`. Arrivals, `Tick`, signals and restarts are not assumed. Each request process serves one request, so the runs set `CHECK_DEADLOCK FALSE`: the system stops when everything has ended.

## Not modelled

- **Presentation.** Rendering, content types, titles, URL formatting and language detection are left out. The extension→language table of `middleware/upload.js` and the language→extension table of `routes/download.js` agree: every detected language downloads under an extension that is detected back as that language. That is a fact about two constant tables; no run states it, because TLC checks a property that reads no variable once, as an assumption.
- **The size of a body.** Payloads are kinds, not lengths. The 10mb limits are modelled as the failures they raise; the unlimited text/plain reader of `POST /create` is listed as a hazard.
- **`checkApiToken` and the rate limiter.** The token check always fails through the stale export, and the limiter is a library counter.
- **Connection configuration.** Which dialect, host and credentials `connect` uses is configuration. Only its outcome, connected or failed, is modelled.
- **A non-numeric `expiresIn`.** `parseInt` gives NaN, an Invalid Date the ORM rejects.

## Plan for later sittings

1. The content normaliser as pure operators, checked against a reference definition over all small inputs. This needs a run of its own, and the project has used all twelve.
2. A crash in `Accounts`. A SIGINT lets in-flight queries finish before the pool closes, so an insert whose answer is lost needs a harder kill than the handlers catch.
