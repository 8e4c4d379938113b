SPECIFICATION AccountsSpec
CHECK_DEADLOCK FALSE
CONSTANTS
    None = None
    e1 = e1
    e2 = e2
    e3 = e3
    c1 = c1
    c2 = c2
    c3 = c3
    r1 = r1
    r2 = r2
    AuthID = {1, 2}
    Email = {e1, e2}
    Code = {c1, c2}
    Request = {r1}
    Settings <- AllSettings
    Ciphering = {TRUE, FALSE}
    MaxFaults = 1
INVARIANT UniqueEmail
