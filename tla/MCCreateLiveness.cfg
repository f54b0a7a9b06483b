SPECIFICATION FairSpec
CONSTANTS
    Intents = {i1}
    Keys = {k1, k2}
PROPERTIES EveryIntentEnds
CHECK_DEADLOCK FALSE
