SPECIFICATION FairSpec
CONSTANTS
    Threads = {t1, t2}
    MaxVersion = 2
    MaxAfter = 1
    MaxClock = 2
INVARIANTS VersionsAscend ETagIsDelivered
PROPERTIES RetryAfterHonoured EveryCallReturns CancelledPollReturns FinalSnapshotDelivered
