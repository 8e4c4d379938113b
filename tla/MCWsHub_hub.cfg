SPECIFICATION HubFairSpec
CONSTANTS
    a = a
    b = b
    c1 = c1
    c2 = c2
    c3 = c3
    s1 = s1
    s2 = s2
    None = None
    IP = {a, b}
    Conn = {c1, c2, c3}
    IpOf <- TwoFromOne
    Sender = {s1}
INVARIANTS
    HubTypeOK
    OneWriter
    RightRecipient
PROPERTIES
    ClosedOnlyAfterLoss
    LostIsForgotten
    SendReturns
CHECK_DEADLOCK FALSE
