SPECIFICATION FairSpec
CONSTANTS
    a = a
    b = b
    c1 = c1
    Hosts = {a, b}
    Conns = {c1}
    From <- OneFrom
    To <- OneTo
    NThreads <- TwoThreads
    Ports = {1, 2}
    RingSize = 1
    MaxReq = 2
    MaxLosses = 2
    none = none
INVARIANTS OneConnection Conservation KnownWhereItGoes
PROPERTIES ConnectReturns 
CHECK_DEADLOCK FALSE
