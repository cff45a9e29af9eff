\* A transport that carries several exchanges (ip, tunnel).
CONSTANTS
    a = a
    b = b
    p = p
    q = q
    Txn = {a, b, q}
    None = None
    s1 = s1
    s2 = s2
    s3 = s3
    Slot = {s1, s2}
    Capacity = 2
    MaxConcurrentRequests = 2
    MaxRetries <- OneRetry
    Interval <- Intervals
    RetryOption = "unset"
    Unhandled = {b}
    Cancellable = {a, q}
    MaxOpens = 1
SPECIFICATION Spec
SYMMETRY SlotSymmetry
CHECK_DEADLOCK FALSE
INVARIANTS
    Accounting
    ConcurrencyBound
    Conservation
    TimersMatchExchanges
PROPERTY
    RefinesLifecycle
