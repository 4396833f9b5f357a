SPECIFICATION Spec
CONSTANTS
    Connectors = {k1, k2}
    Conns = {o1, o2}
    Inners = {c1, c2, c3}
    Files = {f}
    Memory = m
    Environment = {"lose", "connectFail", "late", "handles"}
    None = None
    MaxIdle = 1
SYMMETRY MCSymmetry
INVARIANTS TypeOK OwnStore InnerReleased BadConnRetires
CHECK_DEADLOCK FALSE
