\* A serial line (RTU, ASCII): one exchange at a time, with a fair event loop.
CONSTANTS
    a = a
    b = b
    p = p
    q = q
    Txn = {a, p}
    None = None
    s1 = s1
    s2 = s2
    s3 = s3
    Slot = {s1}
    Capacity = 1
    MaxConcurrentRequests = 1
    MaxRetries <- OneRetry
    Interval <- Intervals
    RetryOption = "unset"
    Unhandled = {}
    Cancellable = {a, p}
    MaxOpens = 2
SPECIFICATION FairSpec
CHECK_DEADLOCK FALSE
INVARIANTS
    RetryBudget
    CopiesBounded
    DestroySafe
PROPERTIES
    EveryRequestSettles
    KeepsPolling
