SPECIFICATION MCFairSpec
CONSTANTS
    Jobs = {j1, j2}
    Callers = {c1, c2}
    MaxTime = 3
    nullptr = nullptr
    MaxReq = 5
    MaxInit = 2
    MaxMsg = 3
INVARIANTS Punctual FlushedInOrder 
PROPERTIES Served Flushed
CHECK_DEADLOCK FALSE
