SPECIFICATION FairSpec
CONSTANTS
    Configs <- MCConfigs
    MaxAttempts = 3
    MaxImages = 2
INVARIANTS MarkersTestify PassCertifies NoFalseAlarm
PROPERTY RunEnds
