\* The identifier loop with the code's maxAttempts = 10: a free tenth candidate.
CONSTANTS
    Ids = {i1, i2}
    Users = {u1}
    Anon = Anon
    Never = Never
    NoPaste = NoPaste
    NoToken = NoToken
    NoId = NoId
    Creators = {c1, c2}
    Backend = "sql"
    MaxTime = 0
    MaxAttempts = 10
    MaxFiles = 2
    ExpiresIn = {0}
    Bodies = {"text", "blank", "empty"}

SPECIFICATION IngestionSpec

INVARIANT ExhaustedOnlyAfterAllCollide

\* Each request is served once; the run ends when all have been answered.
CHECK_DEADLOCK FALSE
