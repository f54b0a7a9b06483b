SPECIFICATION Spec
CONSTANTS
    Callers = {c1, c2}
    Replies <- MCReplies
    RefreshBefore = 1
    FixedLifetime = 2
    MaxClock = 2
    MaxCalls = 2
    MaxInvalidations = 1

PROPERTIES LeaderReturnsLiveToken
CHECK_DEADLOCK FALSE
