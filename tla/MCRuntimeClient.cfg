SPECIFICATION Spec
CONSTANTS
    Actors = {a1, a2}
    Keys = {k1}
    Contents = {p1, p2}
    Faults <- MCFaults
    MaxCalls = 2
SYMMETRY Symmetry
INVARIANTS AssertionsVerify CodeReachesApplication RetryIsSound UnauthenticatedMeansRefreshed
PROPERTIES ValidCallsAreSent
CHECK_DEADLOCK FALSE
