SPECIFICATION Spec
CONSTANTS
    Conns = {o1, o2}
    InnerConns = {c1, c2}
    Stmts = {s1, s2, s3}
    Environment = {"overlap", "prepared", "reopen"}
    None = None
    MaxTime = 2
SYMMETRY MCSymmetry
INVARIANTS FrozenOnlyByActive NoInstantFromBefore
CHECK_DEADLOCK FALSE
