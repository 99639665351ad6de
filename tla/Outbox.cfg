\* Three rows compete for pages of two; two invocations overlap.
SPECIFICATION FairSpec
CONSTANTS
    j1 = j1
    j2 = j2
    j3 = j3
    d1 = d1
    d2 = d2
    NoJob = NoJob
    Jobs = {j1, j2, j3}
    Dispatchers = {d1, d2}
    Limit = 2
    Lease = 2
    Timeout = 1
    TickSeconds = 60
    MaxAttempts = 1
    MaxFaults = 1
INVARIANTS
    TypeOK
    OneDispatcher
    DuplicatesNeedFaults
PROPERTIES
    EventuallySent
