SPECIFICATION FairSpec
CONSTANTS
    Waiters = {w1, w2}
    TimedWaiters = {t1, t2}
    Callback = TRUE
    Spurious = {w1, w2}
INVARIANTS ReturnsDecided
PROPERTIES CallbackHappens
CHECK_DEADLOCK FALSE
