SPECIFICATION FairSpec
CONSTANTS
    Threads = {t1, t2}
    Frames <- MCFrames
    MaxBuffer = 1
INVARIANTS FlagsMatchDelivered
PROPERTIES ImplementsProtocol AcceptsEveryLegalFrame AtMostOneLateEvent EndUnblocks
