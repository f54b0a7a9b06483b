SPECIFICATION Spec
CONSTANTS
    Callers = {c1, c2, c3, c4}
    Replies <- MCReplies
    RefreshBefore = 1
    FixedLifetime = 2
    MaxClock = 2
    MaxCalls = 1
    MaxInvalidations = 1
SYMMETRY Symmetry
INVARIANTS SingleFlight NotOlderThanCall SharedResult NoOrphanWait
PROPERTIES ExchangeOnlyWhenNeeded
CHECK_DEADLOCK FALSE
