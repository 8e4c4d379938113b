SPECIFICATION PoolFairSpec
CONSTANTS
    None = None
    w1 = w1
    w2 = w2
    w3 = w3
    p1 = p1
    p2 = p2
    Worker = {w1, w2, w3}
    Pool = {p1, p2}
    MaxDials = 4
    PoolSize = 2
INVARIANTS
    PoolTypeOK
    OneOwner
    LeakBounded
PROPERTY ExecuteReturns
CHECK_DEADLOCK FALSE
