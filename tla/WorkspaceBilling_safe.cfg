\* Two subscriptions, overlapping handlers, events in any order, one fault.
SPECIFICATION Spec
CONSTANTS
    s1 = s1
    s2 = s2
    h1 = h1
    h2 = h2
    NoSub = NoSub
    Subs = {s1, s2}
    Handlers = {h1, h2}
    SameSecond = FALSE
    MaxFaults = 1
    MaxEvents = 3
SYMMETRY Symmetry
INVARIANTS
    TypeOK
    Reconciled
    WorkspaceFollows
PROPERTIES
    RestoredByAnother
CHECK_DEADLOCK FALSE
