\* One create request and two readers against the SQL backend, with a paste
\* that can expire one minute after it is created or be born expired.
CONSTANTS
    Ids = {i1}
    Users = {u1}
    Anon = Anon
    Never = Never
    NoPaste = NoPaste
    NoToken = NoToken
    NoId = NoId
    Creators = {c1}
    Readers = {r1, r2}
    Listers = {}
    PageInputs = {0}
    LimitInputs = {0}
    Backend = "sql"
    MaxTime = 1
    MaxAttempts = 2
    MaxFiles = 1
    MaxStops = 0
    ExpiresIn <- MCExpiresIn
    Bodies = {"text", "blank", "empty", "dataText"}

SPECIFICATION Spec

INVARIANT TypeOK
INVARIANT PrivateServedOnlyToOwner
PROPERTY EveryRequestAnswered

\* Each request is served once; the run ends when all have been answered.
CHECK_DEADLOCK FALSE
