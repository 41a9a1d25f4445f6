SPECIFICATION Spec
CONSTANTS
    Callers = {c1, c2}
    Nobody = Nobody
    Gens = {1, 2}
    Flows = {1, 2}
    QueueCap = 2
    MaxEnds = 3
INVARIANTS
    FlowKeepsSocket
CHECK_DEADLOCK FALSE
