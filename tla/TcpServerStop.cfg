SPECIFICATION FairSpec
CONSTANTS
    Conns = {k1}
    Workers = {w1}
    MaxReq = 1
    Fast = {f}
    Normal = {n}
    Defer = {d}
    Services = {{f, n, d}}
    none = none
PROPERTIES StopReturns
CHECK_DEADLOCK FALSE
