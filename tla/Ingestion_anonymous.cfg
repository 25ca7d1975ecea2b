\* One create request with a bearer token, SQL backend.
CONSTANTS
    Ids = {i1, i2}
    Users = {u1}
    Anon = Anon
    Never = Never
    NoPaste = NoPaste
    NoToken = NoToken
    NoId = NoId
    Creators = {c1}
    Backend = "sql"
    MaxTime = 1
    MaxAttempts = 3
    MaxFiles = 2
    ExpiresIn = {0}
    Bodies = {"text", "blank", "empty"}

SPECIFICATION IngestionSpec

INVARIANT AuthenticatedCreatesOwned

\* Each request is served once; when every request has been answered and
\* the clock has reached MaxTime the server has nothing left to do.
CHECK_DEADLOCK FALSE
