SPECIFICATION AuthFairSpec
CONSTANTS
    Callers = {c1, c2}
    Loops <- MCLoops
    Replies <- MCReplies
    RefreshBefore = 1
    FixedLifetime = 2
    MaxClock = 1
    MaxCalls = 2
    MaxInvalidations = 2
    MaxRevocations = 1
INVARIANTS RetryUsesNewerToken ResultMatchesExecution LiveTokensBounded
PROPERTIES AssertionDiscipline CallReturns CancelledCallReturns
CHECK_DEADLOCK FALSE
