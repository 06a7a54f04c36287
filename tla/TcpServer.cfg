SPECIFICATION FairSpec
CONSTANTS
    Conns = {k1}
    Workers = {w1, w2}
    MaxReq = 2
    Fast = {f}
    Normal = {n}
    Defer = {d}
    Services = {{f, n}, {n, d}}
    none = none
INVARIANTS RepliesWhole AnsweredOnce RefsMatchHolders
PROPERTIES RequestAnswered AcceptingEnds
CHECK_DEADLOCK FALSE
