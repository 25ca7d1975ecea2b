\* Two pastes created (one two-file upload) while a listing with page size
\* one counts and fetches its page.
CONSTANTS
    Ids = {i1, i2}
    Users = {u1}
    Anon = Anon
    Never = Never
    NoPaste = NoPaste
    NoToken = NoToken
    NoId = NoId
    Creators = {c1}
    Readers = {}
    Listers = {l1}
    PageInputs <- MCPageInputs
    LimitInputs <- MCLimitOne
    Backend = "sql"
    MaxTime = 1
    MaxAttempts = 2
    MaxFiles = 2
    MaxStops = 0
    ExpiresIn = {0, 1}
    Bodies = {"text", "blank", "empty"}

SPECIFICATION Spec

INVARIANT HasNextExact

CHECK_DEADLOCK FALSE
