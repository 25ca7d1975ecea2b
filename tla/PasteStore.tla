----------------------------- MODULE PasteStore -----------------------------
(***************************************************************************)
(* The paste table (Sequelize) or collection (Mongoose) of                 *)
(* src/src/models/paste.js, as the request handlers see it through the     *)
(* ORM, and the wall clock that `new Date()` reads.                        *)
(*                                                                         *)
(* Every store call of a handler is one awaited round trip to the          *)
(* database, which executes it atomically: a lookup, an insert checked     *)
(* against the schema, or an atomic `views` increment.  A paste is a       *)
(* record; the store is the SET of records so that a duplicate identifier  *)
(* is representable and the uniqueness the schema enforces is a property   *)
(* rather than a consequence of the data structure.                        *)
(*                                                                         *)
(* Content is abstracted to what the properties tell apart:                *)
(*   "text"       the payload the client submitted (non-blank)             *)
(*   "blank"      whitespace only, non-empty                               *)
(*   "empty"      the empty string                                         *)
(*   "data"       a data:<mime>;base64,... URI built from a media upload   *)
(*   "dataText"   text the client submitted that happens to begin with    *)
(*                `data:` (nothing marks it as text once stored)           *)
(*   "substitute" a non-blank string a handler made up in place of the     *)
(*                payload (JSON.stringify({}) or a form field's name)      *)
(*                                                                         *)
(* The uniqueness of `id` is enforced by the database, not by the ORM: a   *)
(* primary key that `sync()` creates with the table before the server      *)
(* listens (SQL), or a unique index that Mongoose builds in the background *)
(* after the model is compiled, while requests are already served          *)
(* (MongoDB).  `idIndex` records whether that constraint exists.           *)
(***************************************************************************)
EXTENDS Integers, FiniteSets

CONSTANTS
    Ids,        \* identifiers the generator can produce (model values)
    Users,      \* registered users (model values)
    Anon,       \* userId null: an anonymous paste or an unauthenticated request
    Never,      \* expiresAt null
    NoPaste,    \* findByPk / findOne returned null
    Backend,    \* process.env.DB_TYPE, abstracted to "sql" or "mongodb"
    MaxTime     \* bound on the clock, in minutes

ASSUME Backend \in {"sql", "mongodb"} /\ MaxTime \in Nat

VARIABLES
    store,      \* the set of paste records the database holds
    clock,      \* wall-clock minutes, read by `new Date()`
    idIndex     \* the database rejects a second record with the same id

storeVars == <<store, clock, idIndex>>

ContentKinds == {"text", "blank", "empty", "data", "dataText", "substitute"}

\* String.prototype.trim, on the content abstraction.
Trim(c) == IF c = "blank" THEN "empty" ELSE c

\* expiresAt values: minutes, one step outside the clock range either side
\* (a negative expiresIn yields a date in the past).
Times == -1 .. MaxTime + 1

Owners == Users \cup {Anon}

Paste == [id: Ids, content: ContentKinds, owner: Owners, isPublic: BOOLEAN,
          expiresAt: Times \cup {Never}, views: Nat]

StoreTypeOK ==
    /\ store \subseteq Paste
    /\ clock \in 0 .. MaxTime
    /\ idIndex \in BOOLEAN

StoredIds == {p.id : p \in store}

\* Paste.findByPk(id) / Paste.findOne({ id }): one matching record or null.
FindByPk(id) ==
    IF id \in StoredIds THEN CHOOSE p \in store : p.id = id ELSE NoPaste

\* Mutant: notEmpty taken to reject only the empty string.
NotEmptyLengthOnly(c) == c # "empty"

\* Sequelize `content: { allowNull: false, validate: { notEmpty: true } }`:
\* the validator's notEmpty rejects strings that are empty or whitespace only.
NotEmpty(c) == c \notin {"empty", "blank"}

\* Mongoose `content: { required: true }`: a string is present when its
\* length is non-zero, so whitespace-only content passes.
Required(c) == c # "empty"

ContentValid(c) == IF Backend = "sql" THEN NotEmpty(c) ELSE Required(c)

\* Mutant: no uniqueness constraint on the identifier.
InsertOutcomeNoUnique(rec) ==
    IF ~ContentValid(rec.content) THEN "invalid" ELSE "ok"

\* Paste.create(pasteData) / new Paste(pasteData).save(): the ORM validates
\* the record first, then the database rejects an identifier already taken
\* (primary key in SQL, unique index on `id` in MongoDB) once that
\* constraint exists.
InsertOutcome(rec) ==
    IF ~ContentValid(rec.content) THEN "invalid"
    ELSE IF rec.id \in StoredIds /\ idIndex THEN "duplicate"
    ELSE "ok"

Insert(rec) == store' = store \cup {rec} /\ UNCHANGED idIndex

\* Paste.increment('views', { where: { id } }) / findOneAndUpdate with $inc:
\* a single atomic update of every record with that id (none if absent).
Increment(id) ==
    /\ store' = {IF p.id = id THEN [p EXCEPT !.views = @ + 1] ELSE p : p \in store}
    /\ UNCHANGED idIndex

\* No two stored records share an identifier.
DistinctIds == \A p, q \in store : p.id = q.id => p = q

\* `unique: true` on the schema's `id` and `mongoose.model('Paste', ...)`:
\* once the model is compiled Mongoose calls createIndex({ id: 1 },
\* { unique: true }) in the background; nothing awaits it.  The build
\* fails, and the index stays absent, if two documents already share an
\* id.
BuildIdIndex ==
    /\ ~idIndex
    /\ DistinctIds
    /\ idIndex' = TRUE
    /\ UNCHANGED <<store, clock>>

\* A paste is expired at `now` when `paste.expiresAt && paste.expiresAt <= now`.
Expired(p, now) == p.expiresAt # Never /\ p.expiresAt <= now

StoreInit ==
    /\ store = {}
    /\ clock = 0
    /\ idIndex = (Backend = "sql")

\* Time passes.
Tick ==
    /\ clock < MaxTime
    /\ clock' = clock + 1
    /\ UNCHANGED <<store, idIndex>>

=============================================================================
