SPECIFICATION FairSpec
CONSTANTS
    N = 2
    Jobs = {j1, j2, j3}
    Owners = {o1}
    nullptr = nullptr
INVARIANTS OwnPill
PROPERTIES IsExecutor DestructorReturns
