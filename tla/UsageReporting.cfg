SPECIFICATION FairSpec
CONSTANTS
    m1 = m1
    m2 = m2
    r1 = r1
    r2 = r2
    a = a
    b = b
    hour1 = hour1
    Messages = {m1}
    Reports = {r1, r2}
    Reporters = {a, b}
    Group <- SameHour
    NoReport = NoReport
    Nobody = Nobody
    Dead = Dead
    Timeout = 2
    StaleClaim = 2
    SafeRetry = 3
    Memory = 4
    MeterAge = 5
    InRun = 2
    MaxFaults = 1
INVARIANTS
    TypeOK
    NeverCountedTwice
    ReportsAreSound
PROPERTIES
    ReportsAreFinal
    EventuallyClosed
