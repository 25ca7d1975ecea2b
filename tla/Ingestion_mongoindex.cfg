\* Two create requests on MongoDB just after start-up, while the unique
\* index on `id` is being built, draw the same free identifier.
CONSTANTS
    Ids = {i1, i2}
    Users = {u1}
    Anon = Anon
    Never = Never
    NoPaste = NoPaste
    NoToken = NoToken
    NoId = NoId
    Creators = {c1, c2}
    Backend = "mongodb"
    MaxTime = 0
    MaxAttempts = 3
    MaxFiles = 1
    ExpiresIn = {0}
    Bodies = {"text", "blank", "empty"}

SPECIFICATION IndexingSpec

INVARIANT CreatedLinksResolve

\* Each request is served once; the run ends when all have been answered.
CHECK_DEADLOCK FALSE
