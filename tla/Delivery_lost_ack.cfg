\* A COMMIT succeeds and its acknowledgement is lost.
SPECIFICATION Spec
CONSTANTS
    m1 = m1
    m2 = m2
    alice = alice
    Messages = {m1}
    Workers = {w1, w2}
    Addresses = {alice}
    Recipient <- OneAddress
    DailyLimit = 1
    Metered <- NeverMetered
    TransportEvents <- PostmarkEvents
    LostAcks = TRUE
    TicksPerDay = 1
    MaxClock = 2
    MaxFaults = 1
SYMMETRY Symmetry
INVARIANTS
    NeverTakenTwice
CHECK_DEADLOCK FALSE
