----------------------------- MODULE Ingestion -----------------------------
(***************************************************************************)
(* The paste-creating request handlers, each a process that runs           *)
(* concurrently with the others and suspends at every awaited store call: *)
(*   "api"      POST /pastes               src/src/routes/pastes.js        *)
(*   "create"   POST /create, /api/v1/create, /api/v1/pastes               *)
(*                                         src/src/routes/create.js        *)
(*   "webText"  POST / with a content field  src/src/routes/web.js         *)
(*   "webFiles" POST / with uploaded files   src/src/routes/web.js         *)
(* (POST / of routes/upload.js is never reached: web.js answers first.)    *)
(*                                                                         *)
(* Each handler normalises its input and validates it, then runs the same  *)
(* identifier loop: generate a candidate, look it up (await), stop at the  *)
(* first free one or after MaxAttempts tries, and finally insert (await).  *)
(* The lookup and the insert are separate round trips: another request can *)
(* insert the same identifier in between.                                  *)
(***************************************************************************)
EXTENDS Auth, Sequences

CONSTANTS
    Creators,       \* concurrent create requests (model values)
    NoId,           \* pasteId before the first candidate is drawn
    MaxAttempts,    \* maxAttempts in every copy of the loop (10 in the code)
    MaxFiles,       \* bound on the files of one web upload
    ExpiresIn,      \* expiresIn values (minutes) a JSON client can send; 0 = absent
    Bodies          \* the kinds of text a client submits (see PasteStore)

ASSUME MaxAttempts \in Nat \ {0} /\ MaxFiles \in Nat \ {0} /\ ExpiresIn \subseteq Int
ASSUME Bodies \subseteq {"text", "blank", "empty", "dataText"}

VARIABLE creq      \* creq[c]: the state of create request c

ingestVars == <<store, clock, idIndex, creq>>

Files == [class: {"media", "textual", "binary"}, bytes: Bodies]
Shapes == {"files", "json", "raw", "form", "fields"}
Responses == {"none", "created", "bad_request", "too_large", "redirect", "exhausted",
              "error", "reset"}

Request == [pc: {"idle", "alloc", "insert", "done"},
            handler: {"none", "api", "create", "webText", "webFiles"},
            todo: Seq(ContentKinds), author: Owners, owner: Owners, isPublic: BOOLEAN,
            expiresIn: ExpiresIn \cup {0}, expiresAt: Times \cup {Never},
            attempts: 0 .. MaxAttempts, lastTaken: BOOLEAN,
            cand: Ids \cup {NoId}, files: 0 .. MaxFiles, created: Seq(Ids),
            resp: Responses]

Idle == [pc |-> "idle", handler |-> "none", todo |-> <<>>,
         author |-> Anon, owner |-> Anon, isPublic |-> TRUE, expiresIn |-> 0, expiresAt |-> Never,
         attempts |-> 0, lastTaken |-> FALSE, cand |-> NoId, files |-> 0,
         created |-> <<>>, resp |-> "none"]

IngestionTypeOK ==
    /\ StoreTypeOK
    /\ \A c \in Creators : creq[c] \in Request

(***************************************************************************)
(* Content normalisation                                                   *)
(***************************************************************************)

\* create.js: the first uploaded file, a JSON `content` field, the raw body,
\* or else the keys of req.body: an urlencoded payload is parsed into one key
\* holding the text; a form with named fields yields the first field's NAME;
\* an empty body (req.body = {}) yields JSON.stringify({}) = "{}".
CreateContent(shape, file, body) ==
    CASE shape = "files"  -> IF file.class = "media" THEN "data" ELSE file.bytes
      [] shape = "json"   -> body
      [] shape = "raw"    -> IF body # "empty" THEN body ELSE "substitute"
      [] shape = "form"   -> IF body # "empty" THEN body ELSE "substitute"
      [] shape = "fields" -> "substitute"

\* web.js, one uploaded file: image/video/audio and unknown binary types are
\* stored as a data: URI, textual types as the UTF-8 text (untrimmed).
WebFileContent(file) == IF file.class = "textual" THEN file.bytes ELSE "data"

\* web.js, several files: every file is stored as its UTF-8 text.
WebFilesContents(files) ==
    IF Len(files) = 1 THEN <<WebFileContent(files[1])>>
    ELSE [i \in 1 .. Len(files) |-> files[i].bytes]

FileSeqs == UNION {[1 .. n -> Files] : n \in 1 .. MaxFiles}

\* A request that passed validation enters the identifier loop.  `author`
\* is the user whose token the client sent, `owner` the userId the handler
\* will store.
Admit(c, h, todo, author, owner, pub, expIn) ==
    creq' = [creq EXCEPT ![c] = [Idle EXCEPT !.pc = "alloc", !.handler = h,
                !.todo = todo, !.author = author, !.owner = owner,
                !.isPublic = pub, !.expiresIn = expIn, !.files = Len(todo)]]

\* A request rejected by `!content || content.trim().length === 0`.
Reject(c, h) ==
    creq' = [creq EXCEPT ![c] = [Idle EXCEPT !.pc = "done", !.handler = h,
                !.resp = "bad_request"]]

(***************************************************************************)
(* Handlers, up to the identifier loop                                     *)
(***************************************************************************)

\* The user a client authenticates as with its bearer token (a token is
\* one /auth/login or /auth/register issued to that user).
Author(bearer) == IF bearer = NoToken THEN Anon ELSE bearer

\* pastes.js POST /: JSON body; owner from optionalAuth.
StartApiCreate(c) ==
    /\ creq[c].pc = "idle"
    /\ \E body \in Bodies, pub \in BOOLEAN, expIn \in ExpiresIn,
          bearer \in Users \cup {NoToken} :
          IF Trim(body) = "empty" THEN Reject(c, "api")
          ELSE Admit(c, "api", <<Trim(body)>>, Author(bearer),
                     OptionalAuth(bearer), pub, expIn)
    /\ UNCHANGED storeVars

\* create.js POST /: always public, never expires; owner from optionalAuth.
StartCreate(c) ==
    /\ creq[c].pc = "idle"
    /\ \E shape \in Shapes, file \in Files, body \in Bodies,
          bearer \in Users \cup {NoToken} :
          LET content == CreateContent(shape, file, body)
          IN IF Trim(content) = "empty" THEN Reject(c, "create")
             ELSE Admit(c, "create", <<Trim(content)>>, Author(bearer),
                        OptionalAuth(bearer), TRUE, 0)
    /\ UNCHANGED storeVars

\* web.js POST / without files: the form's content field; the browser sends
\* no bearer token, the owner is the session user; isPublic = !private.
StartWebText(c) ==
    /\ creq[c].pc = "idle"
    /\ \E body \in Bodies, private \in BOOLEAN :
          IF Trim(body) = "empty" THEN Reject(c, "webText")
          ELSE Admit(c, "webText", <<Trim(body)>>, Anon, SessionUser, ~private, 0)
    /\ UNCHANGED storeVars

\* web.js POST / with files: no content check; one createPaste per file.
StartWebFiles(c) ==
    /\ creq[c].pc = "idle"
    /\ \E files \in FileSeqs, private \in BOOLEAN :
          Admit(c, "webFiles", WebFilesContents(files), Anon, SessionUser,
                ~private, 0)
    /\ UNCHANGED storeVars

\* What fails before a create handler runs: express.json and
\* express.urlencoded (limit 10mb) reject a body too large or, for JSON, one
\* that does not parse; multer (fileSize 10 MB, files 10, and
\* upload.array('files', 10)) rejects a larger file, an eleventh file or a
\* file under another field.  create.js reads a text/plain body by hand, with
\* no limit, and fails only on a stream error.
BodyErrors(h) ==
    CASE h = "api"    -> {"entity.too.large", "entity.parse.failed"}
      [] h = "create" -> {"entity.too.large", "entity.parse.failed", "LIMIT_FILE_SIZE",
                          "LIMIT_FILE_COUNT", "stream"}
      [] OTHER        -> {"entity.too.large", "LIMIT_FILE_SIZE", "LIMIT_FILE_COUNT"}

\* The error middleware of app.js: a browser (neither an Accept naming JSON
\* nor an /api/ path) is redirected to /?error=; an API client gets 413 for
\* a body or file too large, 400 for bad JSON and 500 for anything else,
\* multer's other limits included.
ErrorHandler(err, isApi) ==
    CASE ~isApi                                         -> "redirect"
      [] err \in {"entity.too.large", "LIMIT_FILE_SIZE"} -> "too_large"
      [] err = "entity.parse.failed"                     -> "bad_request"
      [] OTHER                                           -> "error"

\* A request whose body the parsers refuse: no handler runs, nothing is
\* stored.  The stream error of create.js is answered 400 in place.
StartRejectedBody(c) ==
    /\ creq[c].pc = "idle"
    /\ \E h \in {"api", "create", "webText", "webFiles"}, isApi \in BOOLEAN :
          \E err \in BodyErrors(h) :
             creq' = [creq EXCEPT ![c] = [Idle EXCEPT !.pc = "done", !.handler = h,
                         !.resp = IF err = "stream" THEN "bad_request"
                                  ELSE ErrorHandler(err, isApi)]]
    /\ UNCHANGED storeVars

(***************************************************************************)
(* The identifier loop and the insert                                      *)
(***************************************************************************)

\* generatePasteId (utils/pasteId.js): six crypto.randomInt draws from
\* [a-z0-9], any of the 36^6 identifiers; Ids stands for the few a run uses.
GeneratePasteId == Ids

\* Mutant: `attempts++` dropped from the loop body.
AttemptNoCount(c) ==
    LET r == creq[c] IN
    /\ r.pc = "alloc"
    /\ \E id \in GeneratePasteId :
        LET free == id \notin StoredIds
        IN creq' = [creq EXCEPT
                ![c].lastTaken = ~free, ![c].cand = id,
                ![c].pc = IF r.attempts >= MaxAttempts THEN "done"
                          ELSE IF free THEN "insert" ELSE "alloc",
                ![c].expiresAt = IF r.expiresIn = 0 THEN Never
                                 ELSE clock + r.expiresIn]
    /\ UNCHANGED storeVars

\* Mutant: the loop exits on `attempts > maxAttempts`.
AttemptOneMore(c) ==
    LET r == creq[c] IN
    /\ r.pc = "alloc"
    /\ \E id \in GeneratePasteId :
        LET n == r.attempts + 1
            free == id \notin StoredIds
        IN creq' = [creq EXCEPT
                ![c].attempts = n, ![c].lastTaken = ~free, ![c].cand = id,
                ![c].pc = IF n > MaxAttempts THEN "done"
                          ELSE IF free THEN "insert" ELSE "alloc",
                ![c].resp = IF n <= MaxAttempts THEN "none"
                            ELSE IF r.handler = "webFiles" THEN "error"
                            ELSE "exhausted",
                ![c].expiresAt = IF r.expiresIn = 0 THEN Never
                                 ELSE clock + r.expiresIn]
    /\ UNCHANGED storeVars

\* One iteration of `do { pasteId = generatePasteId(); attempts++;
\* existing = await findByPk(pasteId); if (!existing) break; } while
\* (attempts < maxAttempts)` followed, on leaving the loop, by
\* `if (attempts >= maxAttempts)` -> failure, and by the expiresAt
\* computation from `new Date()`.
Attempt(c) ==
    LET r == creq[c] IN
    /\ r.pc = "alloc"
    /\ \E id \in GeneratePasteId :
        LET n == r.attempts + 1
            free == id \notin StoredIds
        IN creq' = [creq EXCEPT
                ![c].attempts = n,
                ![c].lastTaken = ~free,
                ![c].cand = id,
                ![c].pc = IF n >= MaxAttempts THEN "done"
                          ELSE IF free THEN "insert" ELSE "alloc",
                ![c].resp = IF n < MaxAttempts THEN "none"
                            ELSE IF r.handler = "webFiles" THEN "error"
                            ELSE "exhausted",
                ![c].expiresAt = IF r.expiresIn = 0 THEN Never
                                 ELSE clock + r.expiresIn]
    /\ UNCHANGED storeVars

NewPaste(r) == [id |-> r.cand, content |-> Head(r.todo), owner |-> r.owner,
                isPublic |-> r.isPublic, expiresAt |-> r.expiresAt, views |-> 0]

\* await Paste.create(pasteData) succeeds; a multi-file upload goes on with
\* the next file, anything else answers 201 / redirects to the paste.
InsertPaste(c) ==
    LET r == creq[c] IN
    /\ r.pc = "insert"
    /\ InsertOutcome(NewPaste(r)) = "ok"
    /\ Insert(NewPaste(r))
    /\ creq' = [creq EXCEPT ![c] =
                  IF Len(r.todo) > 1
                  THEN [r EXCEPT !.pc = "alloc", !.todo = Tail(r.todo),
                          !.attempts = 0, !.lastTaken = FALSE, !.cand = NoId,
                          !.created = Append(r.created, r.cand)]
                  ELSE [r EXCEPT !.pc = "done", !.todo = <<>>, !.resp = "created",
                          !.created = Append(r.created, r.cand)]]
    /\ UNCHANGED clock

\* Mutant: a per-file try/catch that logs the failure and goes on with the
\* next file.
InsertFailsSkipFile(c) ==
    LET r == creq[c] IN
    /\ r.pc = "insert"
    /\ InsertOutcome(NewPaste(r)) # "ok"
    /\ creq' = [creq EXCEPT ![c] =
                  IF Len(r.todo) > 1
                  THEN [r EXCEPT !.pc = "alloc", !.todo = Tail(r.todo),
                          !.attempts = 0, !.lastTaken = FALSE, !.cand = NoId]
                  ELSE [r EXCEPT !.pc = "done", !.todo = <<>>,
                          !.resp = IF r.created # <<>> THEN "created" ELSE "error"]]
    /\ UNCHANGED storeVars

\* Paste.create throws (validation error or duplicate key): the handler's
\* catch answers 500 / redirects with an error.  Pastes this request already
\* inserted stay.
InsertFails(c) ==
    LET r == creq[c] IN
    /\ r.pc = "insert"
    /\ InsertOutcome(NewPaste(r)) # "ok"
    /\ creq' = [creq EXCEPT ![c].pc = "done", ![c].resp = "error"]
    /\ UNCHANGED storeVars

Start(c) ==
    \/ StartApiCreate(c)
    \/ StartCreate(c)
    \/ StartWebText(c)
    \/ StartWebFiles(c)
    \/ StartRejectedBody(c)

Serve(c) ==
    \/ Attempt(c)
    \/ InsertPaste(c)
    \/ InsertFails(c)

IngestionInit ==
    /\ StoreInit
    /\ creq = [c \in Creators |-> Idle]

IngestionNext ==
    \/ \E c \in Creators : Start(c) \/ Serve(c)
    \/ Tick /\ UNCHANGED creq

\* Node resumes every awaited call once the database answers, so a started
\* request keeps being served; whether a request arrives is not assumed.
IngestionSpec ==
    /\ IngestionInit /\ [][IngestionNext]_ingestVars
    /\ \A c \in Creators : WF_ingestVars(Serve(c))

\* On MongoDB the unique index on `id` is built beside the handlers, which
\* serve requests from the moment app.listen() returns.  (On SQL the
\* primary key exists from the start and BuildIdIndex is never enabled.)
IndexingNext == IngestionNext \/ (BuildIdIndex /\ UNCHANGED creq)

IndexingSpec ==
    /\ IngestionInit /\ [][IndexingNext]_ingestVars
    /\ \A c \in Creators : WF_ingestVars(Serve(c))

(***************************************************************************)
(* Properties                                                              *)
(***************************************************************************)

\* Every link a create request answered with names exactly one stored paste,
\* and it is the paste this request inserted (its owner and visibility),
\* even when two requests drew the same identifier between their lookup and
\* their insert (the check-then-insert of the identifier loop).
CreatedLinksResolve ==
    \A c \in Creators : \A i \in 1 .. Len(creq[c].created) :
        LET recs == {p \in store : p.id = creq[c].created[i]} IN
        /\ Cardinality(recs) = 1
        /\ \A p \in recs : p.owner = creq[c].owner /\ p.isPublic = creq[c].isPublic

\* No stored paste has content that is empty after trimming (spec: content
\* is required, non-empty after trim), whichever handler stored it.
StoredContentNonBlank ==
    \A p \in store : Trim(p.content) # "empty"

\* The identifier loop reports exhaustion only when every one of its
\* MaxAttempts candidates was already taken (spec section 8, "allocation
\* retry": nine taken and the tenth free succeeds).  The loop stops at the
\* first free candidate, so all were taken exactly when the last one was.
ExhaustedOnlyAfterAllCollide ==
    \A c \in Creators :
        creq[c].resp = "exhausted" => creq[c].lastTaken

\* A create request is answered with success only when every file it
\* carried is stored under its own identifier: a multi-file upload whose
\* later file fails (blank on SQL, or an identifier taken under it) is
\* answered with an error, never with a success listing fewer pastes.
\* (The pastes it stored before the failure stay: nothing removes them.)
UploadSuccessStoredEveryFile ==
    \A c \in Creators :
        creq[c].resp = "created" =>
            /\ Len(creq[c].created) = creq[c].files
            /\ \A i \in 1 .. Len(creq[c].created) :
                   creq[c].created[i] \in StoredIds

\* A paste created by a client that sent a valid bearer token is owned by
\* that user (`userId: req.user ? req.user.id : null`): spec section 3 has
\* `userId` null only for anonymous pastes, and section 8's private-paste
\* scenario has the creator read back what it created.
AuthenticatedCreatesOwned ==
    \A c \in Creators : \A i \in 1 .. Len(creq[c].created) :
        creq[c].author # Anon => FindByPk(creq[c].created[i]).owner = creq[c].author

\* Every create request that has started is eventually answered: the
\* identifier loop is bounded and every await is resumed.
EveryCreateAnswered ==
    \A c \in Creators : creq[c].pc # "idle" ~> creq[c].pc = "done"

=============================================================================
