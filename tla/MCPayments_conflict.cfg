SPECIFICATION Spec
CONSTANTS
    u1 = u1
    c1 = c1
    c2 = c2
    d1 = d1
    d2 = d2
    User = {u1}
    Checkout = {c1, c2}
    Delivery = {d1, d2}
    Task <- BothTasks
    UserOf <- OneUser
    MaxRetry <- NoRetry
    Concurrency = 1
    MaxRestarts = 0
SYMMETRY Symmetry
INVARIANT ConflictIsAlreadyPaid
CHECK_DEADLOCK FALSE
