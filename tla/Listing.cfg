\* One create request racing a listing or management request, with
\* pages and limits that exercise the pagination arithmetic and a negative limit,
\* and a paste that never expires, expires a minute later or is born expired.
CONSTANTS
    Ids = {i1, i2}
    Users = {u1}
    Anon = Anon
    Never = Never
    NoPaste = NoPaste
    NoToken = NoToken
    NoId = NoId
    Creators = {c1}
    Readers = {}
    Listers = {l1}
    PageInputs <- MCPageInputs
    LimitInputs <- MCLimitInputs
    Backend = "sql"
    MaxTime = 1
    MaxAttempts = 2
    MaxFiles = 2
    MaxStops = 1
    ExpiresIn <- MCExpiresIn
    Bodies = {"text", "blank", "empty"}

SPECIFICATION Spec

INVARIANT ListedPastesReadable
PROPERTY EveryRequestAnswered

CHECK_DEADLOCK FALSE
