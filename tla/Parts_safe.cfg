\* Each part alone, at small bounds.
SPECIFICATION Spec
CONSTANTS
    b1 = b1
    b2 = b2
    w1 = w1
    w2 = w2
    \* in several parts
    Workers = {w1, w2}
    Requests = {"r1", "r2"}
    Keys = {"k1", "k2", "c1"}
    Workspaces = {"v", "w"}
    MaxFaults = 1
    MoreFaults = 2
    MaxEvents = 2
    MaxTime = 2
    \* acceptance
    Nothing = "nothing"
    ConsoleKeys = {"c1"}
    Bodies = {"plain", "file"}
    AttachedFiles = {"file"}
    FilesOf <- FileOfBody
    RateLimit <- OneThenTwo
    Limits = {1, 2}
    MaxMinute = 2
    \* attachments
    Files = {"f1", "f2"}
    Typed = {"f1"}
    Scanners = {"s1", "s2"}
    MaxVerdicts = 1
    MoreVerdicts = 2
    \* warmup
    Steps <- ThreeSteps
    Policy <- SmallPolicy
    HealthWindow = 2
    DefaultLimit = 4
    Pins = {2, 4}
    MaxDay = 4
    \* checkout, the catalog of prices
    Clicks = {"c1", "c2"}
    Lifetime = 1
    MinAhead = 1
    MaxAttempts = 2
    MaxTick = 2
    Prices = {"platform", "usage", "other", "flat"}
    Price <- FourPrices
    Countries = {"FR", "DE"}
    France = "FR"
    MaxChanges = 2
    \* provider resources and calls, secrets
    Bindings = {b1, b2}
    MaxOps = 2
    FewOps = 1
    MaxLost = 1
    SesRuns = {"r1", "r2", "r3"}
    Environment <- TwoAccounts
    MaxTries = 3
    Secrets = {"n1", "n2"}
    Callers = {"c1", "c2"}
    \* templates, access, members, domains, applications, endpoints
    Editors = {"e1", "e2", "e3"}
    MaxVersions = 4
    Users = {"admin", "person"}
    Admin = "admin"
    Owned = {"w"}
    MaxOrgs = 3
    People = {"owner", "p", "q"}
    Owner = "owner"
    Couriers = {"c", "d"}
    Seats = 2
    MaxSends = 2
    Names = {"n1", "n2", "n3"}
    Under <- OneSubdomain
    Forms = {"f", "g"}
    FreeName = "free"
    Addresses = {"address"}
    Unhashed = "none"
    Reviewers = {"r", "s"}
    Submissions = {"f1", "f2", "f3"}
    RateWindow = 1
    PerIp = 1
    Global = 2
    Actions = {"a1", "a2", "a3"}
    Interval = 1
    MaxLog = 4
    \* customer webhooks, provider events
    Deliveries = {"e1"}
    Unclaimed = "nobody"
    Dead = "dead"
    WebhookAttempts = 3
    RetryDelay <- TwoThenTen
    Lease = 4
    CallTimeout = 2
    CallVisibility = 12
    Skew = 0
    Toggling = TRUE
    Events = {"good", "twin", "bare", "alien", "bad"}
    Invalid = {"bad"}
    Sent = {"m"}
    TagOf <- FiveTags
    IdOf <- FiveIds
    Records = {"x", "y"}
    Invocations = {"i", "j"}
    BatchSize = 2
    MaxReceive = 2
    Timeout = 1
    Visibility = 2
    \* deletion, erasure, export
    Messages = {"m1", "m2"}
    LiveKeys = {"k1"}
    Senders = {"u1", "u2"}
    Purgers = {"p1", "p2"}
    Pilot = TRUE
    LateEvents = FALSE
    Checkouts = FALSE
    MaxInserts = 3
    MaxDeletes = 2
    Ids = {1, 2, 3}
    PageSize = 2
    NewestOnly = 2
    MaxDate = 3
SYMMETRY Symmetry
INVARIANTS
    TypeOK
    AcceptedOnce
    LimitIsEarned
    OneOpenSession
    ProviderResourcesAreOurs
    TakenOnce
    ConfigurationHolds
    ServedWasApproved
    ChecksStillHold
    HandledOnce
    DeletionIsClean
    ExportIsExact
PROPERTIES
    DecisionsStand
CHECK_DEADLOCK FALSE
