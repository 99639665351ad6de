\* A delivery event overtakes the worker's commit.
SPECIFICATION Spec
CONSTANTS
    m1 = m1
    m2 = m2
    alice = alice
    Messages = {m1}
    Workers = {w1}
    Addresses = {alice}
    Recipient <- OneAddress
    DailyLimit = 1
    Metered <- NeverMetered
    TransportEvents <- PostmarkEvents
    LostAcks = FALSE
    TicksPerDay = 1
    MaxClock = 2
    MaxFaults = 0
SYMMETRY Symmetry
INVARIANTS
    AcceptancePublished
CHECK_DEADLOCK FALSE
