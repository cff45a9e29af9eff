\* Requests in flight against the documented limit.
CONSTANTS
    a = a
    b = b
    p = p
    q = q
    Txn = {a, b, p}
    None = None
    s1 = s1
    s2 = s2
    s3 = s3
    Slot = {s1, s2, s3}
    Capacity = 3
    MaxConcurrentRequests = 1
    MaxRetries <- OneRetry
    Interval <- Intervals
    RetryOption = "unset"
    Unhandled = {}
    Cancellable = {a, p}
    MaxOpens = 2
SPECIFICATION Spec
CHECK_DEADLOCK FALSE
INVARIANT
    ConcurrencyLimit
