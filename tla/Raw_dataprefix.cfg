\* One create request and one reader: a text paste whose text begins with
\* `data:`, read back through GET /raw/:id or /download/:id.
CONSTANTS
    Ids = {i1}
    Users = {u1}
    Anon = Anon
    Never = Never
    NoPaste = NoPaste
    NoToken = NoToken
    NoId = NoId
    Creators = {c1}
    Readers = {r1}
    Listers = {}
    PageInputs = {0}
    LimitInputs = {0}
    Backend = "sql"
    MaxTime = 0
    MaxAttempts = 2
    MaxFiles = 1
    MaxStops = 0
    ExpiresIn = {0}
    Bodies = {"text", "blank", "empty", "dataText"}

SPECIFICATION Spec

INVARIANT RawServesTextAsText

\* Each request is served once; the run ends when all have been answered.
CHECK_DEADLOCK FALSE
