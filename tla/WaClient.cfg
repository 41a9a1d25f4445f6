SPECIFICATION Spec
CONSTANTS
    Callers = {c1, c2}
    Nobody = Nobody
    Gens = {1, 2}
    Flows = {1, 2}
    QueueCap = 1
    MaxEnds = 2
INVARIANTS
    TypeOK
    OneLiveFlow
    StaysDown
    PairsUnlinked
SYMMETRY Sym
CHECK_DEADLOCK FALSE
