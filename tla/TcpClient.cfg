SPECIFICATION FairSpec
CONSTANTS
    Callers = {c1, c2}
    Closers = {u}
    MaxXid = 2
    MaxConnects = 1
    Eager = FALSE
    poll = poll
    none = none
INVARIANTS RequestsWhole CompletedOnce RefsMatchHolders CloseLeavesNothingPending
PROPERTIES IsCalls CallReturns
