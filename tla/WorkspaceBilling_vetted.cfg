\* No failure, one handler: a subscription is canceled and another is bought.
SPECIFICATION Spec
CONSTANTS
    s1 = s1
    s2 = s2
    h1 = h1
    h2 = h2
    NoSub = NoSub
    Subs = {s1, s2}
    Handlers = {h1}
    SameSecond = FALSE
    MaxFaults = 0
    MaxEvents = 5
SYMMETRY Symmetry
INVARIANTS
    ApprovedWasVetted
CHECK_DEADLOCK FALSE
