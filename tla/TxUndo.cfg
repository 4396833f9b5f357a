SPECIFICATION Spec
CONSTANTS
    Writes = {w1, w2, w3, w4}
    Forms = {"dml", "assert", "merge"}
    Environment = {"cancel", "busy"}
SYMMETRY MCSymmetry
INVARIANTS TypeOK Undone AssertUntouched
CHECK_DEADLOCK FALSE
