SPECIFICATION Spec
CONSTANTS
    Calls <- MCCalls
    Dials = {"http"}
    MaxGeneration = 2
    MinKey = 2
    MaxKey = 3
INVARIANTS
    SignerRefusesOnlyItsOwn
    ServerAgrees
    FingerprintSeparates
    NamedFieldIsToBlame
PROPERTY PresentsOnePair
CHECK_DEADLOCK FALSE
