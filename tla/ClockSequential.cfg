SPECIFICATION Spec
CONSTANTS
    Conns = {o1, o2}
    InnerConns = {c1, c2}
    Stmts = {s1, s2, s3}
    Environment = {"prepared", "panic"}
    None = None
    MaxTime = 3
SYMMETRY MCSymmetry
INVARIANTS TypeOK OneInstant
CHECK_DEADLOCK FALSE
