\* A registration and a login on the SQL backend, over two usernames,
\* two emails and two passwords.
CONSTANTS
    Ids = {i1}
    Users = {u1}
    Anon = Anon
    Never = Never
    NoPaste = NoPaste
    NoToken = NoToken
    Backend = "sql"
    MaxTime = 0
    Clients = {a1, a2}
    Names = {n1, n2}
    Emails = {e1, e2}
    Passwords = {p1, p2}
    Short = Short
    BadName = BadName
    Missing = Missing
    Forged = Forged
    NoUser = NoUser

SPECIFICATION AccountsSpec


INVARIANT LoginAuthenticatesNamedUser


\* Each request is served once; the run ends when both have been answered.
CHECK_DEADLOCK FALSE
