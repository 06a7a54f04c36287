SPECIFICATION Spec
CONSTANTS
    Callers = {c1}
    Closers = {u}
    MaxXid = 1
    MaxConnects = 1
    Eager = FALSE
    poll = poll
    none = none
INVARIANTS FutureAlive
