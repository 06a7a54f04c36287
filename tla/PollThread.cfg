SPECIFICATION FairSpec
CONSTANTS
    Pollables = {p1, p2}
    Fds = {f1, f2}
    MaxOpens = 2
    EarlyUpdate = FALSE
    none = none
INVARIANTS TouchesAlive InterestMatchesMode NoVerifyFails
PROPERTIES RemovedDestroyed
CHECK_DEADLOCK FALSE
