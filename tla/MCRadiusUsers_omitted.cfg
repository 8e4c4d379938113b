SPECIFICATION Spec
CONSTANTS
    u1 = u1
    u2 = u2
    v1 = v1
    v2 = v2
    r1 = r1
    r2 = r2
    User = {u1, u2}
    CheckAttr <- CheckNames
    ReplyAttr <- ReplyNames
    Group <- GroupNames
    Value = {v1, v2}
    Body <- TwoUserBodies
    Entry <- SmallEntries
    Request = {r1}
    MaxCalls = 4
    Absent = Absent
    Nil = Nil
PROPERTIES
    OmittedIsKept
CHECK_DEADLOCK FALSE
