SPECIFICATION Spec
CONSTANTS
    MaxAttempts = 3
    MinRemaining = 2
    AttemptTimeout = 6
    DeadlineAt = 12
    RetryAfters = {0, 5}
    NoHeader = NoHeader
    Jitter = 1
    HeadersTimeout = 3
    FirstEventTimeout = 3
    IdleTimeout = 2
INVARIANT
    RowsArePaidCalls
CHECK_DEADLOCK FALSE
