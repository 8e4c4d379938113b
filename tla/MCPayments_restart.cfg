SPECIFICATION FairSpec
CONSTANTS
    u1 = u1
    c1 = c1
    c2 = c2
    d1 = d1
    d2 = d2
    User = {u1}
    Checkout = {c1}
    Delivery = {d1}
    Task <- BothTasks
    UserOf <- OneUser
    MaxRetry <- OneRetry
    Concurrency = 2
    MaxRestarts = 1
INVARIANTS
    RowsPerCallback
    OrderMatchesPayments
    AnsweredIsKept
PROPERTIES
    CallbackAnswered
    PaymentRecorded
CHECK_DEADLOCK FALSE
