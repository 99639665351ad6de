\* One message, two workers, every SES event, half-day ticks: the races over one row.
SPECIFICATION Spec
CONSTANTS
    m1 = m1
    m2 = m2
    alice = alice
    Messages = {m1}
    Workers = {w1, w2}
    Addresses = {alice}
    Recipient <- OneAddress
    DailyLimit = 1
    Metered <- BoughtLater
    TransportEvents <- SesEvents
    LostAcks = FALSE
    TicksPerDay = 2
    MaxClock = 4
    MaxFaults = 2
SYMMETRY Symmetry
INVARIANTS
    TypeOK
    NeverTakenTwice
    BillingMatchesOutcome
    VerdictIsFinal
    ClaimsHold
PROPERTIES
    KeepsContract
CHECK_DEADLOCK FALSE
