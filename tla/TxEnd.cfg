SPECIFICATION Spec
CONSTANTS
    Writes = {w1, w2, w3, w4}
    Forms = {"dml", "merge"}
    Environment = {"cancel", "busy", "interrupt"}
SYMMETRY MCSymmetry
INVARIANTS TxClosed Durable
CHECK_DEADLOCK FALSE
