\* Two registrations on MongoDB while the unique indexes of the User
\* collection are still being built, over two usernames and two emails.
CONSTANTS
    Ids = {i1}
    Users = {u1}
    Anon = Anon
    Never = Never
    NoPaste = NoPaste
    NoToken = NoToken
    Backend = "mongodb"
    MaxTime = 0
    Clients = {a1, a2}
    Names = {n1, n2}
    Emails = {e1, e2}
    Passwords = {p1, p2}
    Short = Short
    BadName = BadName
    Missing = Missing
    Forged = Forged
    NoUser = NoUser

SPECIFICATION AccountsIndexingSpec

INVARIANT UniqueAccounts

\* Each request is served once; the run ends when both have been answered.
CHECK_DEADLOCK FALSE
