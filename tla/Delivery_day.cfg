\* Two messages compete for a limit of one; the recovery and late events move the
\* counters; every message is settled.
SPECIFICATION FairSpec
CONSTANTS
    m1 = m1
    m2 = m2
    alice = alice
    Messages = {m1, m2}
    Workers = {w1}
    Addresses = {alice}
    Recipient <- OneAddress
    DailyLimit = 1
    Metered <- NeverMetered
    TransportEvents = {"delivered", "complained"}
    LostAcks = FALSE
    TicksPerDay = 1
    MaxClock = 2
    MaxFaults = 1
INVARIANTS
    CountersHold
PROPERTIES
    KeepsFairContract
CHECK_DEADLOCK FALSE
