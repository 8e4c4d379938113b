SPECIFICATION Spec
CONSTANTS
    u1 = u1
    u2 = u2
    v1 = v1
    v2 = v2
    r1 = r1
    r2 = r2
    User = {u1}
    CheckAttr <- CheckNames
    ReplyAttr <- ReplyNames
    Group <- GroupNames
    Value = {v1, v2}
    Body <- SmallBodies
    Entry <- SmallEntries
    Request = {r1, r2}
    MaxCalls = 3
    Absent = Absent
    Nil = Nil
SYMMETRY Symmetry
INVARIANTS
    RadiusTypeOK
PROPERTIES
    CredentialsKept
    UpdateTakesEffect
CHECK_DEADLOCK FALSE
