SPECIFICATION Spec
CONSTANTS
    Intents = {i1, i2}
    Keys = {k1, k2}
SYMMETRY Symmetry
INVARIANTS ToldTheTruth EndsInformed
PROPERTIES NoSecondShot
CHECK_DEADLOCK FALSE
