SPECIFICATION Spec
CONSTANTS
    e1 = e1
    w1 = w1
    w2 = w2
    Deliveries = {e1}
    Workers = {w1, w2}
    Nobody = Nobody
    Dead = Dead
    MaxAttempts = 2
    RetryDelay <- OneDelay
    Lease = 4
    Timeout = 2
    Visibility = 12
    Skew = 0
    Toggling = TRUE
    MaxFaults = 0
INVARIANT DisabledIsAbandoned
