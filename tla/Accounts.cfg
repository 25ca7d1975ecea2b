\* Three concurrent account requests on the SQL backend, over two usernames,
\* two emails and two passwords.
CONSTANTS
    Ids = {i1}
    Users = {u1}
    Anon = Anon
    Never = Never
    NoPaste = NoPaste
    NoToken = NoToken
    Backend = "sql"
    MaxTime = 0
    Clients = {a1, a2, a3}
    Names = {n1, n2}
    Emails = {e1, e2}
    Passwords = {p1, p2}
    Short = Short
    BadName = BadName
    Missing = Missing
    Forged = Forged
    NoUser = NoUser

SPECIFICATION AccountsSpec

INVARIANT AccountsTypeOK
INVARIANT UniqueAccounts
PROPERTY EveryAccountRequestAnswered

\* Each request is served once; the run ends when all have been answered.
CHECK_DEADLOCK FALSE
