SPECIFICATION Spec
CONSTANTS
    Groups = {g1, g2}
    Singles = {s1}
    NLocks = 2
    MaxPrio = 2
    Kinds = {"WaitDie", "WoundDie", "Timeout", "Prompt"}
    none = none
INVARIANTS Exclusion Sane  AlarmsMatch GroupHolds NoCircle
SYMMETRY GroupSymmetry
CHECK_DEADLOCK FALSE
